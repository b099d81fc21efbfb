--------------------------- MODULE TSParserProofs ---------------------------
(***************************************************************************)
(* Proofs about TSParser for every packet size, block size and stream.     *)
(***************************************************************************)
EXTENDS TSParser, TLAPS

\* The length and the elements of a concatenation.
LEMMA ConcatFacts ==
    ASSUME NEW S, NEW a \in Seq(S), NEW b \in Seq(S)
    PROVE  /\ Len(a \o b) = Len(a) + Len(b)
           /\ \A x \in 1..Len(a) : (a \o b)[x] = a[x]
           /\ \A x \in 1..Len(b) : (a \o b)[Len(a) + x] = b[x]
OBVIOUS

\* Reading n bytes at a stays inside the caller's array.
LEMMA BytesType ==
    ASSUME memblock \in [0..(N - 1) -> Int], NEW a \in Nat, NEW n \in Nat, a + n <= N
    PROVE  /\ Bytes(a, n) \in Seq(Int)
           /\ Len(Bytes(a, n)) = n
           /\ \A x \in 1..n : Bytes(a, n)[x] = memblock[a + x - 1]
<1>1. N \in Nat
    BY SizesAssumption
<1>2. ASSUME NEW x \in 1..n PROVE memblock[a + x - 1] \in Int
    <2>1. a + x - 1 \in 0..(N - 1)
        BY <1>1
    <2> QED BY <2>1
<1> QED BY <1>2 DEF Bytes

\* TypeOK is not inductive: lines 91-92 of tsprsr.cpp hand over TS_SIZE bytes
\* of _buffer whatever it holds.  They are all there because a packet that is
\* still incomplete has used up its block.
Ready == pc = "scan" /\ i < len => Len(buffer) = 0 \/ Len(buffer) >= TS_SIZE

TypeInv == TypeOK /\ Ready

\* A new parser and caller satisfy the strengthened type invariant.
LEMMA TypeInit == Init => TypeInv
<1> SUFFICES ASSUME Init PROVE TypeInv
    OBVIOUS
<1>1. file.size \in Nat
    BY FilesAssumption DEF Init
<1>2. memblock \in [0..(N - 1) -> Int]
    BY DEF Init, Uninit
<1> QED BY <1>1, <1>2, SizesAssumption DEF Init, TypeInv, TypeOK, Ready

\* The types that most steps of the proofs use.
LEMMA TypeFacts ==
    ASSUME TypeOK
    PROVE  /\ TS_SIZE \in Nat /\ TS_SIZE > 0 /\ N \in Nat /\ TS_SIZE <= N
           /\ file.size \in Nat /\ file.sync \subseteq 0..(file.size - 1)
           /\ read \in Nat /\ read <= file.size /\ len \in Nat /\ len <= N
           /\ minRead \in 1..N /\ i \in Nat
           /\ packetSize \in Nat /\ packetSize >= TS_SIZE
           /\ buffer \in Seq(Int) /\ Len(buffer) \in Nat
<1>1. file.size \in Nat /\ file.sync \subseteq 0..(file.size - 1)
    BY FilesAssumption DEF TypeOK
<1>2. minRead \in 1..N
    BY MinReadsAssumption DEF TypeOK
<1>3. packetSize \in Nat /\ packetSize >= TS_SIZE
    BY PacketSizesAssumption, SizesAssumption DEF TypeOK
<1> QED BY <1>1, <1>2, <1>3, SizesAssumption DEF TypeOK

\* Lines 46-52 fill _buffer up to one packet.
LEMMA FillType ==
    ASSUME TypeOK, Len(buffer) \in 1..(TS_SIZE - 1)
    PROVE  /\ TS_SIZE - Len(buffer) \in 1..(TS_SIZE - 1)
           /\ buffer \o Bytes(0, TS_SIZE - Len(buffer)) \in Seq(Int)
           /\ Len(buffer \o Bytes(0, TS_SIZE - Len(buffer))) = TS_SIZE
<1> DEFINE n == TS_SIZE - Len(buffer)
<1>1. n \in 1..(TS_SIZE - 1) /\ n \in Nat /\ 0 + n <= N /\ buffer \in Seq(Int)
    BY TypeFacts
<1>2. memblock \in [0..(N - 1) -> Int]
    BY DEF TypeOK
<1>3. Bytes(0, n) \in Seq(Int) /\ Len(Bytes(0, n)) = n
    BY <1>1, <1>2, BytesType
<1> HIDE DEF n
<1>4. Len(buffer \o Bytes(0, n)) = Len(buffer) + n /\ buffer \o Bytes(0, n) \in Seq(Int)
    BY <1>1, <1>3
<1>5. Len(buffer) + n = TS_SIZE
    BY TypeFacts DEF n
<1> QED BY <1>1, <1>4, <1>5 DEF n

\* Every step of the caller and of parse() keeps it.
LEMMA TypeStep == TypeInv /\ [Next]_vars => TypeInv'
<1> SUFFICES ASSUME TypeInv, [Next]_vars PROVE TypeInv'
    OBVIOUS
<1>0. TypeOK /\ Ready
    BY DEF TypeInv
<1>1. ASSUME NEW sz \in PacketSizes, SetPacketSize(sz) PROVE TypeInv'
    BY <1>0, <1>1 DEF SetPacketSize, callerVars, TypeInv, TypeOK, Ready
<1>2. ASSUME NEW want \in minRead..N, NEW st \in BOOLEAN, Call(want, st) PROVE TypeInv'
    <2>1. want \in Nat /\ want <= N
        BY <1>0, TypeFacts
    <2>2. /\ file.size \in Nat /\ read \in Nat /\ read <= file.size /\ N \in Nat
          /\ len' = IF want <= file.size - read THEN want ELSE file.size - read
          /\ read' = read + len'
        BY <1>0, <1>2, TypeFacts DEF Call
    <2>3. len' \in 0..N /\ read' \in 0..file.size
        BY <2>1, <2>2
    <2>4. memblock \in [0..(N - 1) -> Int]
        BY <1>0 DEF TypeOK
    <2>5. memblock' \in [0..(N - 1) -> Int]
        <3>1. ASSUME NEW j \in 0..(N - 1)
              PROVE  (IF j < len' THEN read + j ELSE memblock[j]) \in Int
            BY <2>2, <2>4
        <3> QED BY <1>2, <3>1 DEF Call
    <2> QED BY <1>0, <1>2, <2>3, <2>5 DEF Call, TypeInv, TypeOK, Ready
<1>3. CASE Enter
    <2>1. CASE Len(buffer) \in 1..(TS_SIZE - 1)
        <3>0. /\ buffer' = buffer \o Bytes(0, TS_SIZE - Len(buffer))
              /\ i' = TS_SIZE - Len(buffer)
            BY <1>3, <2>1 DEF Enter
        <3>1. buffer' \in Seq(Int) /\ Len(buffer') = TS_SIZE
            BY <1>0, <2>1, <3>0, FillType
        <3>2. i' \in Nat
            BY <1>0, <2>1, <3>0, TypeFacts
        <3> QED BY <1>0, <1>3, <3>1, <3>2 DEF Enter, callerVars, TypeInv, TypeOK, Ready
    <2>2. CASE Len(buffer) \notin 1..(TS_SIZE - 1)
        <3>1. UNCHANGED <<i, buffer>> /\ (Len(buffer) = 0 \/ Len(buffer) >= TS_SIZE)
            BY <1>0, <1>3, <2>2, TypeFacts DEF Enter
        <3> QED BY <1>0, <1>3, <3>1 DEF Enter, callerVars, TypeInv, TypeOK, Ready
    <2> QED BY <2>1, <2>2
<1>4. CASE Skip
    <2>1. i' \in Nat /\ i' >= i /\ len' = len
        BY <1>0, <1>4, TypeFacts DEF Skip, callerVars
    <2> QED BY <1>0, <1>4, <2>1, TypeFacts DEF Skip, callerVars, TypeInv, TypeOK, Ready
<1>5. ASSUME CheckBoundary PROVE h' \in Nat /\ result' \in BOOLEAN
    BY <1>0, <1>5 DEF CheckBoundary, TypeOK
<1>6. CASE DeliverInPlace
    <2>1. Bytes(i, TS_SIZE) \in Seq(Int)
        BY SMTT(30), <1>0, <1>6, BytesType, TypeFacts DEF DeliverInPlace, Fits, TypeOK
    <2>2. packets' \in Seq(Seq(Int)) /\ i' \in Nat /\ Len(buffer') = 0
        BY SMTT(30), <1>0, <1>6, <2>1, TypeFacts DEF DeliverInPlace, TypeOK
    <2> QED BY <1>0, <1>5, <1>6, <2>2 DEF DeliverInPlace, callerVars, TypeInv, TypeOK, Ready
<1>7. CASE DeliverBuffered
    <2>1. Len(buffer) >= TS_SIZE
        BY <1>0, <1>7, TypeFacts DEF DeliverBuffered, Ready
    <2>2. SubSeq(buffer, 1, TS_SIZE) \in Seq(Int)
        BY <1>0, <2>1, TypeFacts
    <2>3. packets' \in Seq(Seq(Int)) /\ buffer' \in Seq(Int) /\ Len(buffer') = 0
        BY <1>0, <1>7, <2>2 DEF DeliverBuffered, TypeOK
    <2> QED BY <1>0, <1>5, <1>7, <2>3 DEF DeliverBuffered, callerVars, TypeInv, TypeOK, Ready
<1>8. CASE Carry
    <2>0. i \in Nat /\ len - i \in Nat /\ i + (len - i) <= N
        BY <1>0, <1>8, TypeFacts DEF Carry
    <2>1. Bytes(i, len - i) \in Seq(Int)
        BY <1>0, <2>0, BytesType DEF TypeOK
    <2>2. buffer' \in Seq(Int) /\ i' \in Nat /\ i' = len'
        BY <1>0, <1>8, <2>1, TypeFacts DEF Carry, callerVars
    <2> QED BY <1>0, <1>8, <2>2, TypeFacts DEF Carry, callerVars, TypeInv, TypeOK, Ready
<1>9. CASE Return
    BY <1>0, <1>9 DEF Return, callerVars, TypeInv, TypeOK, Ready
<1>10. CASE UNCHANGED vars
    BY <1>0, <1>10 DEF vars, TypeInv, TypeOK, Ready
<1> QED BY <1>1, <1>2, <1>3, <1>4, <1>6, <1>7, <1>8, <1>9, <1>10 DEF Next, Parse

\* Every variable keeps its type: in particular the parser is never told of
\* more bytes than were read, and never hands over a packet it has not all of.
THEOREM TypeCorrect == Spec => []TypeOK
<1>1. TypeInv => TypeOK
    BY DEF TypeInv
<1> QED BY TypeInit, TypeStep, <1>1, PTL DEF Spec
-----------------------------------------------------------------------------
(***************************************************************************)
(* What parse() keeps between and during its calls, for callers that read  *)
(* blocks of TS_SIZE bytes and more.                                       *)
(***************************************************************************)
LongReads == \A r \in MinReads : r >= TS_SIZE

\* The block parse() works on is what was read last.
BlockInv ==
    pc # "idle" =>
        /\ len <= read
        /\ \A j \in 0..(len - 1) : memblock[j] = base + j
        /\ more => len >= minRead

\* _buffer holds the stream from a sync byte at or after Mark on, as far as
\* onPacket is given of it.
Begins ==
    /\ buffer[1] \in file.sync
    /\ buffer[1] >= Framing!Mark
    /\ \A x \in 1..Len(buffer) : x <= TS_SIZE => buffer[x] = buffer[1] + x - 1

\* A packet is complete in _buffer, and ends at or before position e.
Whole(e) == Len(buffer) >= TS_SIZE /\ Begins /\ buffer[1] + TS_SIZE <= e

\* The first bytes of a packet are in _buffer, and go on at position e.
Part(e) == Len(buffer) \in 1..(TS_SIZE - 1) /\ Begins /\ buffer[1] + Len(buffer) = e

None(e) == Len(buffer) = 0 /\ Framing!Mark <= e

\* Once the stream has ended in the middle of a packet, _buffer may hold bytes
\* of an earlier block (lines 48-51), but the block is used up by then.
BufferInv ==
    /\ pc = "idle" /\ more => None(read) \/ Part(read) \/ Whole(read)
    /\ pc = "enter" => None(base) \/ Part(base) \/ Whole(base)
    /\ pc = "scan" =>
          \/ None(base + i) /\ None(read)
          \/ Whole(base + i) /\ Whole(read)
          \/ Part(read) /\ i = len
          \/ ~more /\ i > len

MarkInv == Framing!Mark \in Nat

FramingInv == TypeInv /\ BlockInv /\ MarkInv /\ BufferInv

\* A read puts the next stretch of the stream into the array.
LEMMA BlockStep ==
    ASSUME TypeInv, BlockInv, [Next]_vars
    PROVE  BlockInv'
<1>0. TypeOK /\ read \in Nat /\ len \in Nat /\ file.size \in Nat /\ minRead \in Nat
    BY TypeFacts DEF TypeInv
<1>1. ASSUME NEW want \in minRead..N, NEW st \in BOOLEAN, Call(want, st) PROVE BlockInv'
    <2>1. want \in Nat /\ want >= minRead
        BY <1>0, TypeFacts
    <2>2. /\ len' = IF want <= file.size - read THEN want ELSE file.size - read
          /\ read' = read + len'
          /\ more' = (len' = want)
          /\ memblock' = [j \in 0..(N - 1) |-> IF j < len' THEN read + j ELSE memblock[j]]
        BY <1>1 DEF Call
    <2>3. read <= file.size /\ N \in Nat /\ want <= N
        BY <1>0, TypeFacts
    <2>4. len' \in Nat /\ len' <= N
        BY <1>0, <2>1, <2>2, <2>3
    <2>5. \A j \in 0..(len' - 1) : memblock'[j] = read + j
        BY <2>2, <2>3, <2>4
    <2>6. len' <= read' /\ read' - len' = read
        BY <1>0, <2>2, <2>4
    <2>7. more' => len' >= minRead'
        BY <1>1, <2>1, <2>2 DEF Call
    <2> QED BY <2>5, <2>6, <2>7 DEF BlockInv, base
<1>2. ASSUME UNCHANGED callerVars, pc = "idle" => pc' = "idle" PROVE BlockInv'
    BY <1>2 DEF callerVars, BlockInv, base
<1>3. ASSUME NEW sz \in PacketSizes, SetPacketSize(sz) PROVE BlockInv'
    BY <1>2, <1>3 DEF SetPacketSize
<1>4. CASE Parse
    <2>1. UNCHANGED callerVars /\ pc # "idle"
        BY <1>4 DEF Parse, Enter, Skip, DeliverInPlace, DeliverBuffered, Carry, Return
    <2> QED BY <1>2, <2>1
<1>5. CASE UNCHANGED vars
    BY <1>2, <1>5 DEF vars, callerVars
<1> QED BY <1>1, <1>3, <1>4, <1>5 DEF Next

\* What &stream[a] gives are the bytes of the stream from a on, as far as they
\* were read.
LEMMA BytesOfStream ==
    ASSUME TypeInv, BlockInv, pc # "idle", NEW a \in Nat, NEW n \in Nat, a + n <= len
    PROVE  /\ Bytes(a, n) = [x \in 1..n |-> base + a + x - 1]
           /\ base \in Nat
<1>1. TypeOK /\ read \in Nat /\ len \in Nat
    BY TypeFacts DEF TypeInv
<1>2. base \in Nat
    BY <1>1 DEF BlockInv, base
<1>3. ASSUME NEW x \in 1..n PROVE memblock[a + x - 1] = base + a + x - 1
    <2>1. a + x - 1 \in 0..(len - 1)
        BY <1>1
    <2>2. memblock[a + x - 1] = base + (a + x - 1)
        BY <2>1 DEF BlockInv
    <2> QED BY <1>2, <2>2
<1> QED BY <1>2, <1>3 DEF Bytes

\* The mark depends on the packets alone.
LEMMA MarkKept ==
    ASSUME TypeInv, packets' = packets
    PROVE  Framing!Mark' = Framing!Mark
BY DEF Framing!Mark

\* The last element of a sequence that was appended to.
LEMMA AppendLast ==
    ASSUME NEW S, NEW q \in Seq(S), NEW p \in S
    PROVE  /\ Append(q, p) \in Seq(S)
           /\ Len(Append(q, p)) = Len(q) + 1
           /\ Append(q, p) # <<>>
           /\ Append(q, p)[Len(q) + 1] = p
           /\ \A m \in 1..Len(q) : Append(q, p)[m] = q[m]
OBVIOUS

\* After packet a was handed over, the next may begin where it ends.
LEMMA MarkAfter ==
    ASSUME TypeInv, NEW p \in Seq(Int), packets' = Append(packets, p)
    PROVE  Framing!Mark' = p[1] + TS_SIZE
<1>1. packets \in Seq(Seq(Int))
    BY DEF TypeInv, TypeOK
<1>2. packets' # <<>> /\ packets'[Len(packets')] = p
    BY <1>1, AppendLast
<1> QED BY <1>2 DEF Framing!Mark

\* Where _buffer begins depends on _buffer alone.
LEMMA BeginsKept ==
    ASSUME TypeInv, UNCHANGED <<file, buffer, packets>>
    PROVE  /\ Framing!Mark' = Framing!Mark
           /\ (Begins => Begins')
<1>1. Framing!Mark' = Framing!Mark
    BY MarkKept
<1> QED BY <1>1 DEF Begins

\* The block lies in the stream.
LEMMA BaseFacts ==
    ASSUME TypeInv, BlockInv, pc # "idle"
    PROVE  /\ base \in Nat /\ base + len = read
           /\ i < len => memblock[i] = base + i
<1>1. read \in Nat /\ len \in Nat /\ i \in Nat
    BY TypeFacts DEF TypeInv
<1>2. len <= read /\ \A j \in 0..(len - 1) : memblock[j] = base + j
    BY DEF BlockInv
<1>3. base \in Nat /\ base + len = read
    BY <1>1, <1>2 DEF base
<1>4. ASSUME i < len PROVE i \in 0..(len - 1)
    BY <1>1, <1>4
<1> QED BY <1>2, <1>3, <1>4

\* One turn that skips a byte or a time code.
LEMMA SkipStep ==
    ASSUME FramingInv, Skip
    PROVE  MarkInv' /\ BufferInv'
<1>0. TypeInv /\ MarkInv /\ BufferInv /\ BlockInv /\ TypeOK
    BY DEF FramingInv, TypeInv
<1>1. /\ pc = "scan" /\ i < len /\ UNCHANGED <<file, buffer, packets, read, more, len, pc>>
      /\ base' = base
    BY DEF Skip, callerVars, base
<1> DEFINE k == IF packetSize # TS_SIZE THEN packetSize - TS_SIZE ELSE 1
<1>2. i' = i + k /\ k \in Nat
    BY <1>0, TypeFacts DEF Skip
<1> HIDE DEF k
<1>3. i \in Nat /\ len \in Nat /\ read \in Nat /\ base \in Nat /\ TS_SIZE \in Nat
    BY <1>0, <1>1, TypeFacts, BaseFacts
<1>4. Framing!Mark' = Framing!Mark /\ (Begins => Begins') /\ Framing!Mark \in Nat
    BY <1>0, <1>1, BeginsKept DEF MarkInv
<1>5. \/ None(base + i) /\ None(read)
      \/ Whole(base + i) /\ Whole(read) /\ buffer[1] \in Int
    <2>1. Begins => buffer[1] \in Int
        BY <1>0, TypeFacts DEF Begins
    <2> QED BY <1>0, <1>1, <1>3, <2>1 DEF BufferInv, Whole
<1>6. \/ None(base + i)' /\ None(read)'
      \/ Whole(base + i)' /\ Whole(read)'
    <2>1. (base + i)' = base + i + k /\ read' = read
        BY <1>1, <1>2, <1>3
    <2>2. CASE None(base + i) /\ None(read)
        BY <1>1, <1>2, <1>3, <1>4, <2>1, <2>2 DEF None
    <2>3. CASE Whole(base + i) /\ Whole(read) /\ buffer[1] \in Int
        BY <1>1, <1>2, <1>3, <1>4, <2>1, <2>3 DEF Whole
    <2> QED BY <1>5, <2>2, <2>3
<1> QED BY <1>1, <1>4, <1>6 DEF BufferInv, MarkInv

\* A packet that lies in the block is a frame of the stream.
LEMMA DeliverInPlaceStep ==
    ASSUME FramingInv, DeliverInPlace
    PROVE  /\ base + i \in file.sync
           /\ Framing!OnPacket(base + i)
           /\ MarkInv' /\ BufferInv'
<1>0. TypeInv /\ MarkInv /\ BufferInv /\ BlockInv /\ TypeOK
    BY DEF FramingInv, TypeInv
<1>1. /\ pc = "scan" /\ i < len /\ buffer = <<>>
      /\ UNCHANGED <<file, buffer, read, more, len, pc>>
      /\ base' = base /\ i' = i + TS_SIZE /\ i + TS_SIZE <= len
      /\ packets' = Append(packets, Bytes(i, TS_SIZE))
      /\ memblock[i] \in file.sync
    BY DEF DeliverInPlace, callerVars, base, Fits, AtSync
<1>2. /\ i \in Nat /\ len \in Nat /\ read \in Nat /\ base \in Nat /\ base + len = read
      /\ TS_SIZE \in Nat /\ TS_SIZE > 0 /\ file.size \in Nat /\ read <= file.size
    BY <1>0, <1>1, TypeFacts, BaseFacts
<1>3. memblock[i] = base + i
    BY <1>0, <1>1, BaseFacts
<1>4. Framing!Mark <= base + i
    BY <1>0, <1>1, <1>2 DEF BufferInv, None, Part, Whole
<1>5. Bytes(i, TS_SIZE) = Framing!Frame(base + i)
    BY <1>0, <1>1, <1>2, BytesOfStream DEF Framing!Frame
<1>6. base + i + TS_SIZE <= read
    BY <1>1, <1>2
<1>7. Framing!OnPacket(base + i)
    BY <1>1, <1>2, <1>4, <1>5, <1>6, <1>0 DEF Framing!OnPacket, MarkInv
<1>8. Framing!Mark' = base + i + TS_SIZE
    <2>1. Bytes(i, TS_SIZE)[1] = base + i
        BY <1>2, <1>5 DEF Framing!Frame
    <2>2. Bytes(i, TS_SIZE) \in Seq(Int)
        BY <1>0, <1>1, <1>2, BytesType, TypeFacts DEF TypeOK
    <2> QED BY <1>0, <1>1, <2>1, <2>2, MarkAfter
<1>9. MarkInv'
    BY <1>2, <1>8 DEF MarkInv
<1>10. None(base + i)' /\ None(read)'
    BY <1>1, <1>2, <1>6, <1>8 DEF None
<1> QED BY <1>1, <1>3, <1>7, <1>9, <1>10 DEF BufferInv

\* So is a packet that was put together in _buffer.
LEMMA DeliverBufferedStep ==
    ASSUME FramingInv, DeliverBuffered
    PROVE  /\ buffer[1] \in file.sync
           /\ Framing!OnPacket(buffer[1])
           /\ MarkInv' /\ BufferInv'
<1>0. TypeInv /\ MarkInv /\ BufferInv /\ BlockInv /\ TypeOK
    BY DEF FramingInv, TypeInv
<1>1. /\ pc = "scan" /\ i < len /\ Len(buffer) # 0
      /\ UNCHANGED <<file, read, more, len, pc, i>>
      /\ base' = base /\ buffer' = <<>>
      /\ packets' = Append(packets, SubSeq(buffer, 1, TS_SIZE))
    BY <1>0, TypeFacts DEF DeliverBuffered, callerVars, base
<1>2. /\ i \in Nat /\ len \in Nat /\ read \in Nat /\ base \in Nat /\ base + len = read
      /\ TS_SIZE \in Nat /\ TS_SIZE > 0 /\ file.size \in Nat /\ read <= file.size
      /\ buffer \in Seq(Int) /\ file.sync \subseteq 0..(file.size - 1)
    BY <1>0, <1>1, TypeFacts, BaseFacts
<1>3. Whole(base + i)
    BY <1>0, <1>1, <1>2 DEF BufferInv, None
<1>4. /\ buffer[1] \in file.sync /\ buffer[1] \in Nat
      /\ buffer[1] >= Framing!Mark
      /\ buffer[1] + TS_SIZE <= base + i
      /\ Len(buffer) >= TS_SIZE
      /\ \A x \in 1..TS_SIZE : buffer[x] = buffer[1] + x - 1
    <2>0. Len(buffer) >= TS_SIZE /\ Begins /\ buffer[1] + TS_SIZE <= base + i
        BY <1>3 DEF Whole
    <2>1. /\ Len(buffer) >= TS_SIZE /\ Len(buffer) \in Nat
          /\ buffer[1] \in file.sync /\ buffer[1] >= Framing!Mark
          /\ buffer[1] + TS_SIZE <= base + i
          /\ \A x \in 1..Len(buffer) : x <= TS_SIZE => buffer[x] = buffer[1] + x - 1
        <3>1. Len(buffer) \in Nat
            BY <1>2
        <3> QED BY <2>0, <3>1 DEF Begins
    <2>2. buffer[1] \in Nat
        BY <1>2, <2>1
    <2>3. ASSUME NEW x \in 1..TS_SIZE PROVE x \in 1..Len(buffer) /\ x <= TS_SIZE
        BY <1>2, <2>1
    <2> QED BY <2>1, <2>2, <2>3
<1>5. SubSeq(buffer, 1, TS_SIZE) = Framing!Frame(buffer[1])
    <2>1. SubSeq(buffer, 1, TS_SIZE) = [x \in 1..TS_SIZE |-> buffer[x]]
        BY <1>2, <1>4
    <2> QED BY <1>2, <1>4, <2>1 DEF Framing!Frame
<1>6. buffer[1] + TS_SIZE <= read
    BY <1>1, <1>2, <1>4
<1>7. Framing!OnPacket(buffer[1])
    <2>1. buffer[1] + TS_SIZE <= file.size
        BY <1>2, <1>4, <1>6
    <2>2. packets' = Append(packets, Framing!Frame(buffer[1])) /\ file' = file
        BY <1>1, <1>5
    <2> QED BY <1>4, <2>1, <2>2 DEF Framing!OnPacket
<1>8. Framing!Mark' = buffer[1] + TS_SIZE
    <2>1. SubSeq(buffer, 1, TS_SIZE)[1] = buffer[1]
        BY <1>2, <1>4
    <2>2. SubSeq(buffer, 1, TS_SIZE) \in Seq(Int)
        BY <1>2, <1>4
    <2> QED BY <1>0, <1>1, <2>1, <2>2, MarkAfter
<1>9. MarkInv'
    BY <1>2, <1>4, <1>8 DEF MarkInv
<1>10. None(base + i)' /\ None(read)'
    BY <1>1, <1>2, <1>4, <1>6, <1>8 DEF None
<1> QED BY <1>1, <1>4, <1>7, <1>9, <1>10 DEF BufferInv

\* Lines 46-52: the rest of a packet is at the front of the next block, if that
\* block is not the last and too short.
LEMMA EnterStep ==
    ASSUME LongReads, FramingInv, Enter
    PROVE  MarkInv' /\ BufferInv'
<1>0. TypeInv /\ MarkInv /\ BufferInv /\ BlockInv /\ TypeOK
    BY DEF FramingInv, TypeInv
<1>1. /\ pc = "enter" /\ pc' = "scan"
      /\ UNCHANGED <<file, read, more, len, packets>>
      /\ base' = base
    BY DEF Enter, callerVars, base
<1>2. /\ len \in Nat /\ read \in Nat /\ base \in Nat /\ base + len = read
      /\ TS_SIZE \in Nat /\ TS_SIZE > 0 /\ Len(buffer) \in Nat /\ i \in Nat
      /\ buffer \in Seq(Int)
    BY <1>0, <1>1, TypeFacts, BaseFacts
<1>3. Framing!Mark' = Framing!Mark /\ Framing!Mark \in Nat /\ MarkInv'
    BY <1>0, <1>1, MarkKept DEF MarkInv
<1>4. None(base) \/ Part(base) \/ Whole(base)
    BY <1>0, <1>1 DEF BufferInv
<1>5. CASE Part(base)
    <2>1. /\ Len(buffer) \in 1..(TS_SIZE - 1)
          /\ buffer[1] \in file.sync /\ buffer[1] >= Framing!Mark
          /\ \A x \in 1..Len(buffer) : buffer[x] = buffer[1] + x - 1
          /\ buffer[1] + Len(buffer) = base
        BY <1>2, <1>5 DEF Part, Begins
    <2> DEFINE n == TS_SIZE - Len(buffer)
    <2>2. n \in Nat /\ n > 0 /\ Len(buffer) + n = TS_SIZE
        BY <1>2, <2>1
    <2>3. i' = n /\ buffer' = buffer \o Bytes(0, n)
        BY <2>1 DEF Enter
    <2> HIDE DEF n
    <2>4. CASE n > len
        <3>0. minRead >= TS_SIZE /\ minRead \in Nat
            BY <1>0, TypeFacts DEF LongReads, TypeOK
        <3>1. ~more
            <4>1. more => len >= minRead
                BY <1>0, <1>1 DEF BlockInv
            <4> QED BY <1>2, <2>1, <2>2, <2>4, <3>0, <4>1
        <3> QED BY <1>1, <1>3, <2>3, <2>4, <3>1 DEF BufferInv
    <2>5. CASE n <= len
        <3>1. Bytes(0, n) = [x \in 1..n |-> base + 0 + x - 1]
            BY <1>0, <1>1, <1>2, <2>2, <2>5, BytesOfStream
        <3>2. /\ Len(buffer') = TS_SIZE
              /\ \A x \in 1..Len(buffer) : buffer'[x] = buffer[x]
              /\ \A x \in 1..n : buffer'[Len(buffer) + x] = base + x - 1
            <4>1. /\ Bytes(0, n) \in Seq(Int) /\ Len(Bytes(0, n)) = n
                  /\ \A x \in 1..n : Bytes(0, n)[x] = base + x - 1
                BY <1>2, <2>2, <3>1
            <4>2. PICK c \in Seq(Int) : c = Bytes(0, n)
                BY <4>1
            <4>3. /\ Len(buffer \o c) = Len(buffer) + n
                  /\ \A x \in 1..Len(buffer) : (buffer \o c)[x] = buffer[x]
                  /\ \A x \in 1..n : (buffer \o c)[Len(buffer) + x] = base + x - 1
                BY <1>2, <4>1, <4>2, ConcatFacts
            <4> QED BY <2>2, <2>3, <4>2, <4>3
        <3>3. buffer'[1] = buffer[1] /\ buffer[1] \in Int
            BY <1>2, <2>1, <3>2
        <3>4. ASSUME NEW x \in 1..TS_SIZE PROVE buffer'[x] = buffer[1] + x - 1
            <4>1. CASE x <= Len(buffer)
                BY <1>2, <2>1, <3>2, <4>1
            <4>2. CASE x > Len(buffer)
                <5>1. PICK y \in 1..n : y = x - Len(buffer)
                    BY <1>2, <2>2, <4>2
                <5>2. x = Len(buffer) + y
                    BY <1>2, <5>1
                <5>3. buffer'[x] = base + y - 1
                    BY <3>2, <5>1, <5>2
                <5>4. buffer[1] + Len(buffer) = base /\ buffer[1] \in Int /\ Len(buffer) \in Nat
                    BY <1>2, <2>1, <3>3
                <5>5. \A b \in Int, m \in Nat, z \in Nat : (b + m) + z - 1 = b + (m + z) - 1
                    OBVIOUS
                <5>6. y \in Nat
                    BY <2>2
                <5> HIDE DEF n
                <5>7. (buffer[1] + Len(buffer)) + y - 1 = buffer[1] + (Len(buffer) + y) - 1
                    BY <5>4, <5>5, <5>6
                <5> QED BY <5>2, <5>3, <5>4, <5>7
            <4> QED BY <1>2, <4>1, <4>2
        <3>5. Begins'
            BY <1>1, <1>3, <2>1, <3>2, <3>3, <3>4 DEF Begins
        <3>6. buffer'[1] + TS_SIZE = base + n /\ base + n <= read
            <4>1. \A b \in Int : b + Len(buffer) = base => b + TS_SIZE = base + n
                BY <1>2, <2>2
            <4>2. base + n <= read
                BY <1>2, <2>2, <2>5
            <4> QED BY <2>1, <3>3, <4>1, <4>2
        <3>7. Whole(base + i)' /\ Whole(read)'
            BY <1>1, <1>2, <2>2, <2>3, <3>2, <3>3, <3>5, <3>6 DEF Whole
        <3> QED BY <1>1, <1>3, <3>7 DEF BufferInv
    <2> QED BY <1>2, <2>2, <2>4, <2>5
<1>6. CASE None(base) \/ Whole(base)
    <2>1. UNCHANGED <<i, buffer>>
        BY <1>2, <1>6 DEF Enter, None, Whole
    <2>2. (Begins => Begins') /\ (Begins => buffer[1] \in Int)
        BY <1>0, <1>1, <2>1, BeginsKept, TypeFacts DEF Begins
    <2>3. CASE None(base)
        <3>1. None(base + i)' /\ None(read)'
            BY <1>1, <1>2, <1>3, <2>1, <2>3 DEF None
        <3> QED BY <1>1, <1>3, <3>1 DEF BufferInv
    <2>4. CASE Whole(base)
        <3>1. Whole(base + i)' /\ Whole(read)'
            BY <1>1, <1>2, <1>3, <2>1, <2>2, <2>4 DEF Whole
        <3> QED BY <1>1, <1>3, <3>1 DEF BufferInv
    <2> QED BY <1>6, <2>3, <2>4
<1> QED BY <1>4, <1>5, <1>6

\* Lines 98-102: what is left of the block begins a packet, or follows one.
LEMMA CarryStep ==
    ASSUME FramingInv, Carry
    PROVE  MarkInv' /\ BufferInv'
<1>0. TypeInv /\ MarkInv /\ BufferInv /\ BlockInv /\ TypeOK
    BY DEF FramingInv, TypeInv
<1>1. /\ pc = "scan" /\ i < len /\ pc' = pc
      /\ UNCHANGED <<file, read, more, len, packets>>
      /\ base' = base /\ i' = len /\ ~(i + TS_SIZE <= len)
      /\ buffer' = buffer \o Bytes(i, len - i)
      /\ memblock[i] \in file.sync
    BY DEF Carry, callerVars, base, Fits, AtSync
<1>2. /\ len \in Nat /\ read \in Nat /\ base \in Nat /\ base + len = read
      /\ TS_SIZE \in Nat /\ TS_SIZE > 0 /\ Len(buffer) \in Nat /\ i \in Nat
      /\ buffer \in Seq(Int) /\ file.sync \subseteq 0..(file.size - 1)
    BY <1>0, <1>1, TypeFacts, BaseFacts
<1>3. Framing!Mark' = Framing!Mark /\ Framing!Mark \in Nat /\ MarkInv'
    BY <1>0, <1>1, MarkKept DEF MarkInv
<1> DEFINE n == len - i
<1>4. n \in Nat /\ n > 0 /\ n < TS_SIZE /\ i + n = len /\ i + n <= len
    BY <1>1, <1>2
<1>5. buffer' = buffer \o Bytes(i, n)
    BY <1>1
<1> HIDE DEF n
<1>6. Bytes(i, n) = [x \in 1..n |-> base + i + x - 1] /\ memblock[i] = base + i
    BY <1>0, <1>1, <1>2, <1>4, BytesOfStream, BaseFacts
<1>7. \/ None(base + i)
      \/ Whole(base + i) /\ Whole(read)
    BY <1>0, <1>1, <1>2 DEF BufferInv
<1>8. CASE None(base + i)
    <2>1. /\ buffer = <<>> /\ Framing!Mark <= base + i
        BY <1>2, <1>8 DEF None
    <2>2. buffer' = [x \in 1..n |-> base + i + x - 1]
        BY <1>2, <1>4, <1>5, <1>6, <2>1
    <2>3. /\ Len(buffer') = n
          /\ \A x \in 1..n : buffer'[x] = base + i + x - 1
          /\ buffer'[1] = base + i
        BY <1>2, <1>4, <2>2
    <2>4. Begins'
        BY <1>1, <1>2, <1>3, <1>4, <1>6, <2>1, <2>3 DEF Begins
    <2>5. base + i + n = read
        BY <1>2, <1>4
    <2>6. Len(buffer') \in 1..(TS_SIZE - 1)
        BY <1>2, <1>4, <2>3
    <2>7. Part(read)'
        BY <1>1, <2>3, <2>4, <2>5, <2>6 DEF Part
    <2> QED BY <1>1, <1>3, <2>7 DEF BufferInv
<1>9. CASE Whole(base + i) /\ Whole(read)
    <2>1. /\ Len(buffer) >= TS_SIZE /\ Begins
          /\ buffer[1] + TS_SIZE <= base + i
          /\ buffer[1] + TS_SIZE <= read
          /\ buffer[1] \in Int
        BY <1>2, <1>9 DEF Whole, Begins
    <2>2. /\ Len(buffer') = Len(buffer) + n
          /\ \A x \in 1..Len(buffer) : buffer'[x] = buffer[x]
        <3>1. Bytes(i, n) \in Seq(Int) /\ Len(Bytes(i, n)) = n
            BY <1>2, <1>4, <1>6
        <3> QED BY <1>2, <1>5, <3>1, ConcatFacts
    <2>3. Begins' /\ buffer'[1] = buffer[1]
        <3>1. buffer'[1] = buffer[1]
            BY <1>2, <2>1, <2>2
        <3>2. ASSUME NEW x \in 1..Len(buffer'), x <= TS_SIZE
              PROVE  buffer'[x] = buffer[1] + x - 1
            <4>1. x \in 1..Len(buffer)
                BY <1>2, <1>4, <2>1, <2>2, <3>2
            <4> QED BY <2>1, <2>2, <3>2, <4>1 DEF Begins
        <3> QED BY <1>1, <1>3, <2>1, <3>1, <3>2 DEF Begins
    <2>4. Len(buffer') >= TS_SIZE
        BY <1>2, <1>4, <2>1, <2>2
    <2>5. base + len = base' + i' /\ read' = read
        BY <1>1, <1>2
    <2>6. Whole(base + i)' /\ Whole(read)'
        BY <1>1, <1>2, <2>1, <2>3, <2>4, <2>5 DEF Whole
    <2> QED BY <1>1, <1>3, <2>6 DEF BufferInv
<1> QED BY <1>7, <1>8, <1>9

\* Returning from parse() changes nothing the abstract specification sees.
LEMMA ReturnStep ==
    ASSUME FramingInv, Return
    PROVE  MarkInv' /\ BufferInv'
<1>0. TypeInv /\ MarkInv /\ BufferInv /\ TypeOK
    BY DEF FramingInv, TypeInv
<1>1. pc = "scan" /\ pc' = "idle" /\ UNCHANGED <<file, read, more, buffer, packets>>
    BY DEF Return, callerVars
<1>2. Framing!Mark' = Framing!Mark /\ MarkInv' /\ (Begins => Begins')
    BY <1>0, <1>1, BeginsKept DEF MarkInv
<1>3. ~more \/ None(read) \/ Part(read) \/ Whole(read)
    BY <1>0, <1>1 DEF BufferInv
<1>4. ~more' \/ None(read)' \/ Part(read)' \/ Whole(read)'
    BY <1>1, <1>2, <1>3 DEF None, Part, Whole
<1> QED BY <1>1, <1>2, <1>4 DEF BufferInv

\* A read changes nothing the abstract specification sees.
LEMMA CallStep ==
    ASSUME FramingInv, NEW want \in Int, NEW st, Call(want, st)
    PROVE  MarkInv' /\ BufferInv'
<1>0. TypeInv /\ MarkInv /\ BufferInv /\ TypeOK
    BY DEF FramingInv, TypeInv
<1>1. /\ pc = "idle" /\ more /\ pc' = "enter"
      /\ UNCHANGED <<file, buffer, packets>>
      /\ read' = read + len'
      /\ len' = IF want <= file.size - read THEN want ELSE file.size - read
    BY DEF Call
<1>2. base' = read
    <2>1. len' = want \/ len' = file.size - read
        BY <1>1
    <2> QED BY <1>0, <1>1, <2>1, TypeFacts DEF base
<1>3. Framing!Mark' = Framing!Mark /\ MarkInv' /\ (Begins => Begins')
    BY <1>0, <1>1, BeginsKept DEF MarkInv
<1>4. None(read) \/ Part(read) \/ Whole(read)
    BY <1>0, <1>1 DEF BufferInv
<1>5. None(base)' \/ Part(base)' \/ Whole(base)'
    BY <1>1, <1>2, <1>3, <1>4 DEF None, Part, Whole
<1> QED BY <1>1, <1>3, <1>5 DEF BufferInv

\* The initial states map to initial states of TSFraming.
LEMMA FramingInit == Init => FramingInv
<1> SUFFICES ASSUME Init PROVE FramingInv
    OBVIOUS
<1>1. TypeInv
    BY TypeInit
<1>2. pc = "idle" /\ read = 0 /\ buffer = <<>> /\ packets = <<>>
    BY DEF Init
<1>3. Framing!Mark = 0
    BY <1>2 DEF Framing!Mark
<1> QED BY <1>1, <1>2, <1>3 DEF FramingInv, BlockInv, MarkInv, BufferInv, None

\* Every step maps to an OnPacket step of TSFraming or to a stutter.
LEMMA FramingStep ==
    ASSUME LongReads, FramingInv, [Next]_vars
    PROVE  FramingInv'
<1>1. TypeInv' /\ BlockInv'
    BY TypeStep, BlockStep DEF FramingInv
<1>2. ASSUME UNCHANGED <<file, buffer, packets, read, more, len, pc, i>> PROVE MarkInv' /\ BufferInv'
    <2>1. Framing!Mark' = Framing!Mark /\ (Begins => Begins') /\ base' = base
        BY <1>2, BeginsKept DEF FramingInv, base
    <2>2. MarkInv' /\ (Whole(read) => Whole(read)') /\ (Part(read) => Part(read)')
        BY <1>2, <2>1 DEF FramingInv, MarkInv, Whole, Part
    <2> QED BY <1>2, <2>1, <2>2 DEF FramingInv, BufferInv, None, Whole, Part
<1>3. ASSUME NEW sz \in PacketSizes, SetPacketSize(sz) PROVE MarkInv' /\ BufferInv'
    BY <1>2, <1>3 DEF SetPacketSize, callerVars
<1>4. ASSUME NEW want \in minRead..N, NEW st \in BOOLEAN, Call(want, st)
      PROVE  MarkInv' /\ BufferInv'
    <2>1. want \in Int
        BY TypeFacts DEF FramingInv, TypeInv
    <2> QED BY <1>4, <2>1, CallStep
<1>5. ASSUME Parse PROVE MarkInv' /\ BufferInv'
    BY <1>5, EnterStep, SkipStep, DeliverInPlaceStep, DeliverBufferedStep, CarryStep,
       ReturnStep DEF Parse
<1>6. ASSUME UNCHANGED vars PROVE MarkInv' /\ BufferInv'
    BY <1>2, <1>6 DEF vars
<1>7. MarkInv' /\ BufferInv'
    BY <1>3, <1>4, <1>5, <1>6 DEF Next
<1> QED BY <1>1, <1>7 DEF FramingInv

\* For every stream, every cutting of it into blocks of TS_SIZE bytes and more,
\* and every packet size, the packets handed over are those TSFraming allows.
THEOREM Implements == ASSUME LongReads PROVE Spec => Decomposes
<1>1. Init => Framing!Init
    BY DEF Init, Framing!Init
<1>2. FramingInv /\ [Next]_vars => [Framing!Next]_(Framing!vars)
    <2> SUFFICES ASSUME FramingInv, [Next]_vars
                 PROVE  Framing!Next \/ UNCHANGED <<file, packets>>
        BY DEF Framing!vars
    <2>1. CASE DeliverInPlace
        BY <2>1, DeliverInPlaceStep DEF Framing!Next
    <2>2. CASE DeliverBuffered
        BY <2>2, DeliverBufferedStep DEF Framing!Next
    <2>3. CASE UNCHANGED <<file, packets>>
        BY <2>3
    <2> QED BY <2>1, <2>2, <2>3 DEF Next, Parse, SetPacketSize, Call, Enter, Skip, Carry,
               Return, callerVars, vars
<1>3. FramingInv /\ [Next]_vars => FramingInv'
    BY FramingStep
<1> QED BY FramingInit, <1>1, <1>2, <1>3, PTL DEF Spec, Decomposes, Framing!Spec

-----------------------------------------------------------------------------
(***************************************************************************)
(* No packet of an aligned stream is lost.                                 *)
(***************************************************************************)
Clean == Aligned /\ minRead >= 2 * TS_SIZE - 1

\* The bytes of the packets handed over.
Given == TS_SIZE * Len(packets)

\* Packets are handed over one after the other, and what _buffer holds is next.
StartsInv ==
    /\ \A m \in 1..Len(packets) : packets[m][1] = TS_SIZE * (m - 1)
    /\ Len(buffer) > 0 => buffer[1] = Given

\* Where parse() is in the stream, counted in packets handed over.  The last
\* disjunct is the end of the stream: what _buffer holds then stays there.
PositionInv ==
    /\ pc = "idle" => IF more THEN Given + Len(buffer) = read /\ Len(buffer) < TS_SIZE
                              ELSE Given + 2 * TS_SIZE > read
    /\ pc = "enter" => Given + Len(buffer) = base /\ Len(buffer) < TS_SIZE /\ i = 0
    /\ pc = "scan" =>
          \/ Len(buffer) = 0 /\ Given = base + i /\ i <= len
          \/ /\ Len(buffer) = TS_SIZE /\ Given + TS_SIZE = base + i /\ i <= len
             /\ more => i + TS_SIZE <= len
          \/ Len(buffer) \in 1..(TS_SIZE - 1) /\ Given + Len(buffer) = read /\ i = len
          \/ ~more /\ i >= len /\ Given + 2 * TS_SIZE > read

CleanInv == Clean => StartsInv /\ PositionInv

NoLossInv == TypeInv /\ BlockInv /\ CleanInv

\* What is used of a product: the multiples of a are a apart.
LEMMA Multiples ==
    ASSUME NEW a \in Nat, a > 0, NEW b \in Nat
    PROVE  a * b \in Nat /\ b <= a * b /\ a * (b + 1) = a * b + a
OBVIOUS

\* The step from the number of packets to the place where the next one begins.
LEMMA SyncAt ==
    ASSUME TypeInv, Clean, NEW k \in Nat, TS_SIZE * k < file.size
    PROVE  TS_SIZE * k \in file.sync
<1>1. TS_SIZE \in Nat /\ TS_SIZE > 0 /\ file.size \in Nat
    BY TypeFacts DEF TypeInv
<1>2. TS_SIZE * k \in Nat /\ k <= TS_SIZE * k
    BY <1>1, Multiples
<1>3. k \in 0..file.size
    BY <1>1, <1>2
<1> QED BY <1>3 DEF Clean, Aligned

\* Given, the bytes handed over, grows by TS_SIZE with every packet.
LEMMA GivenFacts ==
    ASSUME TypeInv
    PROVE  /\ Given \in Nat /\ Len(packets) \in Nat
           /\ \A p \in Seq(Int) : packets' = Append(packets, p) => Given' = Given + TS_SIZE
<1>1. packets \in Seq(Seq(Int)) /\ Len(packets) \in Nat
    BY DEF TypeInv, TypeOK
<1>2. TS_SIZE \in Nat /\ TS_SIZE > 0
    BY TypeFacts DEF TypeInv
<1>3. ASSUME NEW p \in Seq(Int), packets' = Append(packets, p)
      PROVE  Given' = Given + TS_SIZE
    <2>1. Len(packets') = Len(packets) + 1
        BY <1>1, <1>3, AppendLast
    <2> QED BY <1>1, <1>2, <2>1, Multiples DEF Given
<1> QED BY <1>1, <1>2, <1>3, Multiples DEF Given

\* One more packet that begins where the last one ended.
LEMMA StartsAfter ==
    ASSUME TypeInv, StartsInv, NEW p \in Seq(Int), packets' = Append(packets, p),
           p[1] = Given, Len(buffer') = 0
    PROVE  StartsInv'
<1>1. packets \in Seq(Seq(Int)) /\ Len(packets) \in Nat
    BY DEF TypeInv, TypeOK
<1>2. /\ Len(packets') = Len(packets) + 1
      /\ packets'[Len(packets) + 1] = p
      /\ \A m \in 1..Len(packets) : packets'[m] = packets[m]
    BY <1>1, AppendLast
<1>3. ASSUME NEW m \in 1..(Len(packets) + 1) PROVE packets'[m][1] = TS_SIZE * (m - 1)
    <2>1. CASE m \in 1..Len(packets)
        BY <1>2, <2>1 DEF StartsInv
    <2>2. CASE m = Len(packets) + 1
        <3>1. m - 1 = Len(packets)
            BY <1>1, <2>2
        <3>2. TS_SIZE * (m - 1) = Given
            BY <3>1 DEF Given
        <3>3. packets'[m] = p
            BY <1>2, <2>2
        <3>4. p[1] = Given
            OBVIOUS
        <3> QED BY <3>2, <3>3, <3>4
    <2>3. m \in 1..Len(packets) \/ m = Len(packets) + 1
        BY <1>1
    <2> QED BY <2>1, <2>2, <2>3
<1> QED BY <1>2, <1>3 DEF StartsInv

\* In a clean stream the scan is always at a sync byte.
LEMMA ScanAtSync ==
    ASSUME NoLossInv, Clean, pc = "scan", i < len
    PROVE  /\ AtSync
           /\ memblock[i] = base + i
           /\ \/ Len(buffer) = 0 /\ Given = base + i
              \/ Len(buffer) = TS_SIZE /\ Given + TS_SIZE = base + i /\ (more => Fits)
<1>0. TypeInv /\ TypeOK /\ BlockInv /\ PositionInv
    BY DEF NoLossInv, TypeInv, CleanInv
<1>1. /\ i \in Nat /\ len \in Nat /\ read \in Nat /\ base \in Nat /\ base + len = read
      /\ TS_SIZE \in Nat /\ TS_SIZE > 0 /\ file.size \in Nat /\ read <= file.size
      /\ memblock[i] = base + i
      /\ Given \in Nat /\ Len(packets) \in Nat
    BY <1>0, TypeFacts, BaseFacts, GivenFacts
<1>2. \/ Len(buffer) = 0 /\ Given = base + i
      \/ Len(buffer) = TS_SIZE /\ Given + TS_SIZE = base + i /\ (more => Fits)
    BY <1>0, <1>1 DEF PositionInv, Fits
<1>3. PICK k \in Nat : TS_SIZE * k = base + i
    <2>1. CASE Given = base + i
        BY <1>1, <2>1 DEF Given
    <2>2. CASE Given + TS_SIZE = base + i
        <3>1. TS_SIZE * (Len(packets) + 1) = Given + TS_SIZE /\ Len(packets) + 1 \in Nat
            BY <1>1, Multiples DEF Given
        <3> QED BY <2>2, <3>1
    <2> QED BY <1>2, <2>1, <2>2
<1>4. base + i < file.size
    BY <1>1
<1>5. base + i \in file.sync
    BY <1>0, <1>3, <1>4, SyncAt
<1> QED BY <1>1, <1>2, <1>5 DEF AtSync

\* Where packets start depends on the packets alone.
LEMMA StartsKept ==
    ASSUME StartsInv, packets' = packets, Len(buffer') > 0 => buffer'[1] = Given
    PROVE  StartsInv' /\ Given' = Given
BY DEF StartsInv, Given

\* A read keeps the invariant: nothing is handed over.
LEMMA CleanCall ==
    ASSUME NoLossInv, Clean, NEW want \in Int, NEW st, Call(want, st)
    PROVE  StartsInv' /\ PositionInv'
<1>0. TypeInv /\ TypeOK /\ StartsInv /\ PositionInv
    BY DEF NoLossInv, TypeInv, CleanInv
<1>1. /\ pc = "idle" /\ more /\ pc' = "enter" /\ i' = 0 /\ UNCHANGED <<buffer, packets>>
      /\ read' = read + len'
      /\ len' = IF want <= file.size - read THEN want ELSE file.size - read
    BY DEF Call
<1>2. base' = read
    <2>1. len' = want \/ len' = file.size - read
        BY <1>1
    <2> QED BY <1>0, <1>1, <2>1, TypeFacts DEF base
<1>3. StartsInv' /\ Given' = Given
    BY <1>0, <1>1, StartsKept DEF StartsInv
<1> QED BY <1>0, <1>1, <1>2, <1>3 DEF PositionInv

\* Lines 46-52 complete the packet that was begun in the last block.
LEMMA CleanEnter ==
    ASSUME NoLossInv, Clean, Enter
    PROVE  StartsInv' /\ PositionInv'
<1>0. TypeInv /\ TypeOK /\ BlockInv /\ StartsInv /\ PositionInv
    BY DEF NoLossInv, TypeInv, CleanInv
<1>1. /\ pc = "enter" /\ pc' = "scan" /\ base' = base
      /\ UNCHANGED <<file, minRead, read, more, len, packets>>
    BY DEF Enter, callerVars, base
<1>2. /\ len \in Nat /\ read \in Nat /\ base \in Nat /\ base + len = read /\ i \in Nat
      /\ TS_SIZE \in Nat /\ TS_SIZE > 0 /\ buffer \in Seq(Int) /\ Len(buffer) \in Nat
      /\ Given \in Nat /\ Given + Len(buffer) = base /\ Len(buffer) < TS_SIZE
      /\ minRead \in Nat /\ minRead >= 2 * TS_SIZE - 1
    BY <1>0, <1>1, TypeFacts, BaseFacts, GivenFacts DEF PositionInv, Clean
<1>3. more => len >= 2 * TS_SIZE - 1
    <2>1. more => len >= minRead
        BY <1>0, <1>1 DEF BlockInv
    <2> QED BY <1>2, <2>1
<1>4. CASE Len(buffer) = 0
    <2>1. UNCHANGED <<i, buffer>>
        BY <1>4 DEF Enter
    <2>2. StartsInv' /\ Given' = Given
        BY <1>0, <1>1, <2>1, StartsKept DEF StartsInv
    <2>3. i = 0
        BY <1>0, <1>1 DEF PositionInv
    <2> QED BY <1>1, <1>2, <1>4, <2>1, <2>2, <2>3 DEF PositionInv
<1>5. CASE Len(buffer) > 0
    <2> DEFINE n == TS_SIZE - Len(buffer)
    <2>1. n \in Nat /\ n > 0 /\ Len(buffer) + n = TS_SIZE /\ 0 + n <= N
        BY <1>0, <1>2, <1>5, TypeFacts
    <2>2. i' = n /\ buffer' = buffer \o Bytes(0, n)
        BY <1>2, <1>5 DEF Enter
    <2> HIDE DEF n
    <2>3. Bytes(0, n) \in Seq(Int) /\ Len(Bytes(0, n)) = n
        BY <1>0, <2>1, BytesType DEF TypeOK
    <2>4. Len(buffer') = TS_SIZE /\ buffer'[1] = buffer[1]
        <3>1. PICK c \in Seq(Int) : c = Bytes(0, n)
            BY <2>3
        <3>2. /\ Len(buffer \o c) = Len(buffer) + n
              /\ \A x \in 1..Len(buffer) : (buffer \o c)[x] = buffer[x]
            BY <1>2, <2>3, <3>1, ConcatFacts
        <3>3. 1 \in 1..Len(buffer)
            BY <1>2, <1>5
        <3> QED BY <2>1, <2>2, <3>1, <3>2, <3>3
    <2>5. StartsInv' /\ Given' = Given
        BY <1>0, <1>1, <1>5, <2>4, StartsKept DEF StartsInv
    <2>6. Given + TS_SIZE = base + n /\ (more => n + TS_SIZE <= len)
        BY <1>2, <1>3, <1>5, <2>1
    <2>7. n > len => ~more /\ Given + 2 * TS_SIZE > read
        BY <1>2, <2>1, <2>6
    <2> QED BY <1>1, <1>2, <2>1, <2>2, <2>4, <2>5, <2>6, <2>7 DEF PositionInv
<1> QED BY <1>2, <1>4, <1>5

\* A packet that lies in the block is the next of the stream.
LEMMA CleanDeliverInPlace ==
    ASSUME NoLossInv, Clean, DeliverInPlace
    PROVE  StartsInv' /\ PositionInv'
<1>0. TypeInv /\ TypeOK /\ BlockInv /\ StartsInv /\ PositionInv
    BY DEF NoLossInv, TypeInv, CleanInv
<1>1. /\ pc = "scan" /\ pc' = pc /\ i < len /\ buffer = <<>> /\ buffer' = <<>>
      /\ UNCHANGED <<read, more, len>>
      /\ base' = base /\ i' = i + TS_SIZE /\ i + TS_SIZE <= len
      /\ packets' = Append(packets, Bytes(i, TS_SIZE))
    BY DEF DeliverInPlace, callerVars, base, Fits
<1>2. /\ i \in Nat /\ len \in Nat /\ read \in Nat /\ base \in Nat /\ base + len = read
      /\ TS_SIZE \in Nat /\ TS_SIZE > 0 /\ len <= N /\ Given \in Nat
    BY <1>0, <1>1, TypeFacts, BaseFacts, GivenFacts
<1>3. Given = base + i /\ memblock[i] = base + i
    BY <1>0, <1>1, <1>2, ScanAtSync
<1>4. PICK p \in Seq(Int) : p = Bytes(i, TS_SIZE)
    BY <1>0, <1>1, <1>2, BytesType, TypeFacts DEF TypeOK
<1>5. p[1] = Given
    BY <1>2, <1>3, <1>4 DEF Bytes
<1>6. StartsInv'
    BY <1>0, <1>1, <1>4, <1>5, StartsAfter
<1>7. Given' = Given + TS_SIZE
    BY <1>0, <1>1, <1>4, GivenFacts
<1>8. Len(buffer') = 0 /\ Given' = base' + i' /\ i' <= len'
    BY <1>1, <1>2, <1>3, <1>7
<1> QED BY <1>1, <1>6, <1>8 DEF PositionInv

\* So is a packet that waited in _buffer.
LEMMA CleanDeliverBuffered ==
    ASSUME NoLossInv, Clean, DeliverBuffered
    PROVE  StartsInv' /\ PositionInv'
<1>0. TypeInv /\ TypeOK /\ BlockInv /\ StartsInv /\ PositionInv
    BY DEF NoLossInv, TypeInv, CleanInv
<1>1. /\ pc = "scan" /\ pc' = pc /\ i < len /\ Len(buffer) # 0 /\ buffer' = <<>>
      /\ UNCHANGED <<read, more, len, i>>
      /\ base' = base
      /\ packets' = Append(packets, SubSeq(buffer, 1, TS_SIZE))
    BY <1>0, TypeFacts DEF DeliverBuffered, callerVars, base
<1>2. /\ i \in Nat /\ len \in Nat /\ base \in Nat
      /\ TS_SIZE \in Nat /\ TS_SIZE > 0 /\ buffer \in Seq(Int) /\ Len(buffer) \in Nat
    BY <1>0, <1>1, TypeFacts, BaseFacts
<1>3. Len(buffer) = TS_SIZE /\ Given + TS_SIZE = base + i
    BY <1>0, <1>1, ScanAtSync
<1>4. PICK p \in Seq(Int) : p = SubSeq(buffer, 1, TS_SIZE)
    BY <1>2, <1>3
<1>5. p[1] = Given
    BY <1>0, <1>2, <1>3, <1>4 DEF StartsInv
<1>6. StartsInv'
    BY <1>0, <1>1, <1>4, <1>5, StartsAfter
<1>7. Given' = Given + TS_SIZE
    BY <1>0, <1>1, <1>4, GivenFacts
<1>8. Len(buffer') = 0 /\ Given' = base' + i' /\ i' <= len'
    BY <1>1, <1>2, <1>3, <1>7
<1> QED BY <1>1, <1>6, <1>8 DEF PositionInv

\* The bytes kept for the next block are those of the next packet.
LEMMA CleanCarry ==
    ASSUME NoLossInv, Clean, Carry
    PROVE  StartsInv' /\ PositionInv'
<1>0. TypeInv /\ TypeOK /\ BlockInv /\ StartsInv /\ PositionInv
    BY DEF NoLossInv, TypeInv, CleanInv
<1>1. /\ pc = "scan" /\ pc' = pc /\ i < len /\ ~(i + TS_SIZE <= len)
      /\ UNCHANGED <<read, more, len, packets>>
      /\ base' = base /\ i' = len
      /\ buffer' = buffer \o Bytes(i, len - i)
    BY DEF Carry, callerVars, base, Fits
<1>2. /\ i \in Nat /\ len \in Nat /\ read \in Nat /\ base \in Nat /\ base + len = read
      /\ TS_SIZE \in Nat /\ TS_SIZE > 0 /\ len <= N /\ Given \in Nat
      /\ buffer \in Seq(Int) /\ Len(buffer) \in Nat
    BY <1>0, <1>1, TypeFacts, BaseFacts, GivenFacts
<1> DEFINE n == len - i
<1>3. n \in Nat /\ n > 0 /\ n < TS_SIZE /\ i + n = len /\ i + n <= N
    BY <1>1, <1>2
<1>4. buffer' = buffer \o Bytes(i, n)
    BY <1>1
<1> HIDE DEF n
<1>5. PICK c \in Seq(Int) : c = Bytes(i, n) /\ Len(c) = n /\ c[1] = memblock[i]
    <2>1. /\ Bytes(i, n) \in Seq(Int) /\ Len(Bytes(i, n)) = n
        BY <1>0, <1>2, <1>3, BytesType DEF TypeOK
    <2>2. Bytes(i, n)[1] = memblock[i]
        BY <1>2, <1>3 DEF Bytes
    <2> QED BY <2>1, <2>2
<1>6. memblock[i] = base + i
    BY <1>0, <1>1, ScanAtSync
<1>7. /\ Len(buffer \o c) = Len(buffer) + n
      /\ \A x \in 1..Len(buffer) : (buffer \o c)[x] = buffer[x]
      /\ \A x \in 1..n : (buffer \o c)[Len(buffer) + x] = c[x]
    BY <1>2, <1>5, ConcatFacts
<1>8. CASE Len(buffer) = 0 /\ Given = base + i
    <2>1. Len(buffer') = n /\ buffer'[1] = Given
        BY <1>3, <1>4, <1>5, <1>6, <1>7, <1>8
    <2>2. StartsInv' /\ Given' = Given
        BY <1>0, <1>1, <2>1, StartsKept
    <2>3. Given + n = read
        BY <1>2, <1>3, <1>8
    <2>4. Len(buffer') \in 1..(TS_SIZE - 1)
        BY <1>2, <1>3, <2>1
    <2> QED BY <1>1, <2>1, <2>2, <2>3, <2>4 DEF PositionInv
<1>9. CASE Len(buffer) = TS_SIZE /\ Given + TS_SIZE = base + i /\ ~more
    <2>1. Len(buffer') > 0 /\ buffer'[1] = buffer[1]
        <3>1. 1 \in 1..Len(buffer)
            BY <1>2, <1>9
        <3> QED BY <1>2, <1>3, <1>4, <1>5, <1>7, <1>9, <3>1
    <2>2. StartsInv' /\ Given' = Given
        BY <1>0, <1>1, <1>2, <1>9, <2>1, StartsKept DEF StartsInv
    <2>3. Given + 2 * TS_SIZE > read
        BY <1>2, <1>3, <1>9
    <2>4. i' = len' /\ ~more' /\ read' = read
        BY <1>1, <1>9
    <2> QED BY <1>1, <1>2, <2>2, <2>3, <2>4 DEF PositionInv
<1> QED BY <1>0, <1>1, <1>8, <1>9, ScanAtSync DEF Fits

\* parse() returns with all but the packet in _buffer handed over.
LEMMA CleanReturn ==
    ASSUME NoLossInv, Clean, Return
    PROVE  StartsInv' /\ PositionInv'
<1>0. TypeInv /\ TypeOK /\ BlockInv /\ StartsInv /\ PositionInv
    BY DEF NoLossInv, TypeInv, CleanInv
<1>1. /\ pc = "scan" /\ pc' = "idle" /\ i >= len /\ UNCHANGED <<read, more, buffer, packets>>
    BY DEF Return, callerVars
<1>2. /\ i \in Nat /\ len \in Nat /\ read \in Nat /\ base \in Nat /\ base + len = read
      /\ TS_SIZE \in Nat /\ TS_SIZE > 0 /\ Given \in Nat /\ Len(buffer) \in Nat
    BY <1>0, <1>1, TypeFacts, BaseFacts, GivenFacts
<1>3. StartsInv' /\ Given' = Given
    BY <1>0, <1>1, StartsKept DEF StartsInv
<1>4. IF more THEN Given + Len(buffer) = read /\ Len(buffer) < TS_SIZE
              ELSE Given + 2 * TS_SIZE > read
    BY <1>0, <1>1, <1>2 DEF PositionInv
<1> QED BY <1>1, <1>3, <1>4 DEF PositionInv

\* The invariant holds before the first read.
LEMMA NoLossInit == Init => NoLossInv
<1> SUFFICES ASSUME Init PROVE NoLossInv
    OBVIOUS
<1>1. TypeInv
    BY TypeInit
<1>2. pc = "idle" /\ more /\ read = 0 /\ buffer = <<>> /\ packets = <<>>
    BY DEF Init
<1>3. Given = 0
    BY <1>1, <1>2, TypeFacts DEF Given, TypeInv
<1>4. StartsInv
    BY <1>2 DEF StartsInv
<1>5. PositionInv
    BY <1>1, <1>2, <1>3, TypeFacts DEF PositionInv, TypeInv
<1> QED BY <1>1, <1>2, <1>4, <1>5 DEF NoLossInv, BlockInv, CleanInv

\* Every step keeps the invariant.
LEMMA NoLossStep ==
    ASSUME NoLossInv, [Next]_vars
    PROVE  NoLossInv'
<1>1. TypeInv' /\ BlockInv'
    BY TypeStep, BlockStep DEF NoLossInv
<1>2. Clean' => Clean
    <2>1. file' = file /\ minRead' = minRead
        BY DEF Next, Parse, SetPacketSize, Call, Enter, Skip, DeliverInPlace, DeliverBuffered,
               Carry, Return, callerVars, vars
    <2> QED BY <2>1 DEF Clean, Aligned
<1>3. ASSUME Clean PROVE StartsInv' /\ PositionInv'
    <2>1. ASSUME UNCHANGED <<buffer, packets, read, more, len, pc, i>>
          PROVE  StartsInv' /\ PositionInv'
        <3>1. StartsInv /\ PositionInv
            BY <1>3 DEF NoLossInv, CleanInv
        <3> QED BY <2>1, <3>1 DEF StartsInv, PositionInv, Given, base
    <2>2. ASSUME NEW sz \in PacketSizes, SetPacketSize(sz) PROVE StartsInv' /\ PositionInv'
        BY <2>1, <2>2 DEF SetPacketSize, callerVars
    <2>3. ASSUME NEW want \in minRead..N, NEW st \in BOOLEAN, Call(want, st)
          PROVE  StartsInv' /\ PositionInv'
        BY <1>3, <2>3, CleanCall
    <2>4. ~Skip
        BY <1>3, ScanAtSync DEF Skip
    <2>5. ASSUME Parse PROVE StartsInv' /\ PositionInv'
        BY <1>3, <2>4, <2>5, CleanEnter, CleanDeliverInPlace, CleanDeliverBuffered,
           CleanCarry, CleanReturn DEF Parse
    <2>6. ASSUME UNCHANGED vars PROVE StartsInv' /\ PositionInv'
        BY <2>1, <2>6 DEF vars
    <2> QED BY <2>2, <2>3, <2>5, <2>6 DEF Next
<1> QED BY <1>1, <1>2, <1>3 DEF NoLossInv, CleanInv

\* For every aligned stream, whatever its payloads, and for every caller that
\* reads 2 * TS_SIZE - 1 bytes or more at a time: no packet is lost or handed
\* over twice, and only the last can be missing when the stream has ended.
THEOREM KeepsEveryPacket == Spec => []NoLoss
<1>1. NoLossInv => NoLoss
    <2> SUFFICES ASSUME NoLossInv, Aligned, minRead >= 2 * TS_SIZE - 1, pc = "idle"
                 PROVE  /\ \A m \in 1..Len(packets) : packets[m][1] = TS_SIZE * (m - 1)
                        /\ TS_SIZE * Len(packets) + (IF more THEN 1 ELSE 2) * TS_SIZE > read
        BY DEF NoLoss
    <2>1. TypeInv /\ StartsInv /\ PositionInv
        BY DEF NoLossInv, CleanInv, Clean
    <2>2. /\ TS_SIZE \in Nat /\ TS_SIZE > 0 /\ Given \in Nat /\ Len(buffer) \in Nat
          /\ read \in Nat
        BY <2>1, TypeFacts, GivenFacts DEF TypeInv
    <2>3. Given + (IF more THEN 1 ELSE 2) * TS_SIZE > read
        BY <2>1, <2>2 DEF PositionInv
    <2> QED BY <2>1, <2>3 DEF StartsInv, Given
<1>2. NoLossInv /\ [Next]_vars => NoLossInv'
    BY NoLossStep
<1> QED BY NoLossInit, <1>1, <1>2, PTL DEF Spec
-----------------------------------------------------------------------------
(***************************************************************************)
(* The verdict on an aligned stream without time codes.                    *)
(***************************************************************************)

\* Where parse() remembers a packet at h, when it has found no fault: at the
\* start; at the start of the block, a packet of the last block being complete;
\* after that was handed over; after a packet of the block was; at the end of a
\* block that goes on in the next.
Remembers ==
    \/ h = 0 /\ i = 0 /\ Len(buffer) = 0
    \/ h = 0 /\ Len(buffer) > 0
    \/ h = i /\ i < len /\ Len(buffer) = 0
    \/ i = h + TS_SIZE /\ Len(buffer) = 0
    \/ i = len /\ Len(buffer) > 0

VerdictInv ==
    /\ len <= read
    /\ Clean /\ packetSize = TS_SIZE =>
          /\ pc = "idle" /\ len > 0 => result
          /\ pc # "idle" => result
          /\ pc = "enter" => h = 0
          /\ pc = "scan" /\ strict => Remembers

\* A turn of the scan finds no fault in such a stream.
LEMMA VerdictScan ==
    ASSUME NoLossInv, VerdictInv, Clean, packetSize = TS_SIZE,
           DeliverInPlace \/ DeliverBuffered \/ Carry \/ Return
    PROVE  /\ pc' = "idle" /\ len' > 0 => result'
           /\ pc' = "scan" => result' /\ (strict' => Remembers')
           /\ pc' \in {"idle", "scan"}
<1>0. TypeInv /\ TypeOK /\ BlockInv /\ PositionInv
    BY DEF NoLossInv, TypeInv, CleanInv
<1>1. /\ i \in Nat /\ len \in Nat /\ TS_SIZE \in Nat /\ TS_SIZE > 0 /\ h \in Nat
      /\ buffer \in Seq(Int) /\ Len(buffer) \in Nat
      /\ strict \in BOOLEAN /\ result \in BOOLEAN
    BY <1>0, TypeFacts DEF TypeOK
<1>2. pc = "scan" /\ UNCHANGED <<len, strict, packetSize>>
    BY DEF DeliverInPlace, DeliverBuffered, Carry, Return, callerVars
<1>3. result /\ (strict => Remembers)
    BY <1>2 DEF VerdictInv
<1>4. CASE DeliverInPlace
    <2>1. /\ buffer = <<>> /\ buffer' = <<>> /\ i < len /\ i' = i + TS_SIZE /\ pc' = pc
          /\ CheckBoundary
        BY <1>4 DEF DeliverInPlace
    <2>2. CASE ~strict
        BY <1>2, <1>3, <2>1, <2>2 DEF CheckBoundary
    <2>3. CASE strict
        <3>1. h = 0 \/ h = i \/ i = h + TS_SIZE
            BY <1>1, <1>3, <2>1, <2>3 DEF Remembers
        <3>2. h = 0 \/ h = i \/ i - h = packetSize
            BY <1>1, <3>1
        <3>3. result' /\ h' = i
            BY <1>3, <2>1, <2>3, <3>2 DEF CheckBoundary
        <3>4. Remembers'
            BY <2>1, <3>3 DEF Remembers
        <3> QED BY <1>2, <2>1, <3>3, <3>4
    <2> QED BY <2>2, <2>3
<1>5. CASE DeliverBuffered
    <2>1. /\ Len(buffer) > 0 /\ buffer' = <<>> /\ i < len /\ i' = i /\ pc' = pc
          /\ CheckBoundary
        BY <1>1, <1>5 DEF DeliverBuffered
    <2>2. CASE ~strict
        BY <1>2, <1>3, <2>1, <2>2 DEF CheckBoundary
    <2>3. CASE strict
        <3>1. h = 0
            BY <1>1, <1>3, <2>1, <2>3 DEF Remembers
        <3>2. result' /\ h' = i
            BY <1>3, <2>1, <2>3, <3>1 DEF CheckBoundary
        <3>3. Remembers'
            BY <1>2, <2>1, <3>2 DEF Remembers
        <3> QED BY <1>2, <2>1, <3>2, <3>3
    <2> QED BY <2>2, <2>3
<1>6. CASE Carry
    <2>1. i < len /\ i' = len /\ pc' = pc /\ result' = result /\ buffer' = buffer \o Bytes(i, len - i)
        BY <1>6 DEF Carry
    <2>2. len - i \in Nat /\ len - i > 0 /\ i + (len - i) <= N /\ i + (len - i) = len
        BY <1>0, <1>1, <2>1, TypeFacts
    <2>3. Bytes(i, len - i) \in Seq(Int) /\ Len(Bytes(i, len - i)) = len - i
        BY <1>0, <1>1, <2>2, BytesType DEF TypeOK
    <2>4. Len(buffer') = Len(buffer) + (len - i)
        BY <1>1, <2>1, <2>3, ConcatFacts
    <2>5. Len(buffer') > 0 /\ i' = len'
        BY <1>1, <1>2, <2>1, <2>2, <2>4
    <2>6. Remembers'
        BY <2>5 DEF Remembers
    <2> QED BY <1>2, <1>3, <2>1, <2>6
<1>7. CASE Return
    <2>1. /\ i >= len /\ pc' = "idle"
          /\ result' = (result /\ (strict /\ buffer = <<>> => i - h = packetSize))
        BY <1>7 DEF Return
    <2>2. ASSUME strict, buffer = <<>>, len > 0 PROVE i - h = packetSize
        <3>1. i = h + TS_SIZE
            BY <1>1, <1>3, <2>1, <2>2 DEF Remembers
        <3> QED BY <1>1, <3>1
    <2> QED BY <1>2, <1>3, <2>1, <2>2
<1> QED BY <1>4, <1>5, <1>6, <1>7, <1>2

\* Lines 46-52 remember no packet.
LEMMA VerdictEnter ==
    ASSUME NoLossInv, VerdictInv, Clean, packetSize = TS_SIZE, Enter
    PROVE  pc' = "scan" /\ result' /\ Remembers'
<1>0. TypeInv /\ TypeOK /\ PositionInv
    BY DEF NoLossInv, TypeInv, CleanInv
<1>1. pc = "enter" /\ pc' = "scan" /\ h' = h /\ result' = result
    BY DEF Enter
<1>2. h = 0 /\ result
    BY <1>1 DEF VerdictInv
<1>3. i = 0 /\ Len(buffer) < TS_SIZE /\ Len(buffer) \in Nat /\ TS_SIZE \in Nat /\ TS_SIZE > 0
    BY <1>0, <1>1, TypeFacts DEF PositionInv
<1>4. CASE Len(buffer) = 0
    <2>1. i' = i /\ buffer' = buffer
        BY <1>4 DEF Enter
    <2> QED BY <1>1, <1>2, <1>3, <1>4, <2>1 DEF Remembers
<1>5. CASE Len(buffer) > 0
    <2>1. Len(buffer) \in 1..(TS_SIZE - 1)
        BY <1>3, <1>5
    <2>2. Len(buffer') = TS_SIZE
        BY <1>0, <2>1, FillType DEF Enter
    <2> QED BY <1>1, <1>2, <1>3, <2>2 DEF Remembers
<1> QED BY <1>3, <1>4, <1>5

\* There is no verdict before the first read.
LEMMA VerdictInit == Init => VerdictInv
<1> SUFFICES ASSUME Init PROVE VerdictInv
    OBVIOUS
<1>1. len = 0 /\ read = 0 /\ pc = "idle"
    BY DEF Init
<1> QED BY <1>1 DEF VerdictInv

\* Every step keeps the verdict.
LEMMA VerdictStep ==
    ASSUME NoLossInv, VerdictInv, [Next]_vars
    PROVE  VerdictInv'
<1>0. TypeInv /\ TypeOK
    BY DEF NoLossInv, TypeInv
<1>1. file' = file /\ minRead' = minRead
    BY DEF Next, Parse, SetPacketSize, Call, Enter, Skip, DeliverInPlace, DeliverBuffered,
           Carry, Return, callerVars, vars
<1>2. Clean' <=> Clean
    BY <1>1 DEF Clean, Aligned
<1>3. CASE UNCHANGED vars
    BY <1>2, <1>3 DEF vars, VerdictInv, Remembers
<1>4. ASSUME NEW sz \in PacketSizes, SetPacketSize(sz) PROVE VerdictInv'
    <2>1. pc' = "idle" /\ len' = len /\ read' = read /\ read = 0
        BY <1>4 DEF SetPacketSize, callerVars
    <2>2. len \in Nat /\ len <= read
        BY <1>0, TypeFacts DEF VerdictInv
    <2>3. ~(len' > 0) /\ len' <= read'
        BY <2>1, <2>2
    <2> QED BY <2>1, <2>3 DEF VerdictInv
<1>5. ASSUME NEW want \in minRead..N, NEW st \in BOOLEAN, Call(want, st) PROVE VerdictInv'
    <2>1. /\ pc' = "enter" /\ h' = 0 /\ result' = TRUE /\ read' = read + len'
          /\ len' = IF want <= file.size - read THEN want ELSE file.size - read
        BY <1>5 DEF Call
    <2>2. want \in Int /\ read \in Nat /\ file.size \in Nat
        BY <1>0, TypeFacts
    <2>3. len' \in Int /\ len' <= read'
        BY <2>1, <2>2
    <2> QED BY <2>1, <2>3 DEF VerdictInv
<1>6. CASE Parse
    <2>1. len' = len /\ read' = read /\ packetSize' = packetSize /\ pc # "idle"
        BY <1>6 DEF Parse, Enter, Skip, DeliverInPlace, DeliverBuffered, Carry, Return,
                    callerVars
    <2>2. len' <= read'
        BY <2>1 DEF VerdictInv
    <2>3. SUFFICES ASSUME Clean, packetSize = TS_SIZE
                   PROVE  /\ pc' = "idle" /\ len' > 0 => result'
                          /\ pc' # "idle" => result'
                          /\ pc' = "enter" => h' = 0
                          /\ pc' = "scan" /\ strict' => Remembers'
        BY <1>2, <2>1, <2>2 DEF VerdictInv
    <2>4. ~Skip
        BY <2>3, ScanAtSync DEF Skip
    <2>5. CASE Enter
        BY <2>3, <2>5, VerdictEnter
    <2>6. CASE DeliverInPlace \/ DeliverBuffered \/ Carry \/ Return
        BY <2>3, <2>6, VerdictScan
    <2> QED BY <1>6, <2>4, <2>5, <2>6 DEF Parse
<1> QED BY <1>3, <1>4, <1>5, <1>6 DEF Next

\* Wherever an aligned stream is cut into blocks of 2 * TS_SIZE - 1 bytes and
\* more, a strict parse of every block that is not empty returns true.
THEOREM AcceptsAligned == Spec => []StrictAccepts
<1>1. VerdictInv => StrictAccepts
    BY DEF VerdictInv, StrictAccepts, Clean
<1>2. Spec => []NoLossInv
    <2>1. NoLossInv /\ [Next]_vars => NoLossInv'
        BY NoLossStep
    <2> QED BY NoLossInit, <2>1, PTL DEF Spec
<1>3. NoLossInv /\ VerdictInv /\ [Next]_vars => VerdictInv'
    BY VerdictStep
<1> QED BY VerdictInit, <1>1, <1>2, <1>3, PTL DEF Spec
-----------------------------------------------------------------------------
(***************************************************************************)
(* What a strict parse that returns true says of any stream.               *)
(***************************************************************************)

\* StrictSpacing's two conditions, and what the scan knows of the second: h is
\* the place of the packet handed over last, if that began in this block.
Spaced ==
    \A m \in 1..(Len(packets) - 1) :
        packets[m][1] > base => packets[m + 1][1] - packets[m][1] = packetSize

LastAtEnd ==
    buffer = <<>> /\ packets # <<>> /\ packets[Len(packets)][1] > base
        => packets[Len(packets)][1] + packetSize >= read

LastAtH ==
    packets # <<>> /\ packets[Len(packets)][1] > base => h = packets[Len(packets)][1] - base

Before(e) == \A m \in 1..Len(packets) : packets[m][1] \in Nat /\ packets[m][1] < e

SpacingInv ==
    /\ len <= read
    /\ Before(read)
    /\ pc = "enter" => Before(base)
    /\ pc = "scan" /\ i < len /\ Len(buffer) > 0 => buffer[1] < base
    /\ pc = "scan" /\ strict /\ result => Spaced /\ LastAtH
    /\ pc = "idle" /\ strict /\ result => Spaced /\ LastAtEnd

\* One more packet, of the bytes read.
LEMMA BeforeAfter ==
    ASSUME TypeInv, Before(read), NEW p \in Seq(Int), packets' = Append(packets, p),
           read' = read, p[1] \in Nat, p[1] < read
    PROVE  Before(read)'
<1>1. packets \in Seq(Seq(Int)) /\ Len(packets) \in Nat
    BY DEF TypeInv, TypeOK
<1>2. /\ Len(packets') = Len(packets) + 1
      /\ packets'[Len(packets) + 1] = p
      /\ \A m \in 1..Len(packets) : packets'[m] = packets[m]
    BY <1>1, AppendLast
<1>3. ASSUME NEW m \in 1..Len(packets') PROVE packets'[m][1] \in Nat /\ packets'[m][1] < read
    <2>1. m \in 1..Len(packets) \/ m = Len(packets) + 1
        BY <1>1, <1>2
    <2> QED BY <1>2, <2>1 DEF Before
<1> QED BY <1>3 DEF Before

\* One more packet, which is at the distance asked for or follows one that began
\* before the block.
LEMMA SpacedAfter ==
    ASSUME TypeInv, Before(read), Spaced, NEW p \in Seq(Int), packets' = Append(packets, p),
           UNCHANGED <<read, len, packetSize>>,
           p[1] \in Nat, p[1] < read,
           packets # <<>> /\ packets[Len(packets)][1] > base
               => p[1] - packets[Len(packets)][1] = packetSize
    PROVE  /\ Before(read)' /\ Spaced'
           /\ packets' # <<>> /\ packets'[Len(packets')] = p
<1>1. packets \in Seq(Seq(Int)) /\ Len(packets) \in Nat /\ base' = base
    BY DEF TypeInv, TypeOK, base
<1>2. /\ Len(packets') = Len(packets) + 1 /\ packets' # <<>>
      /\ packets'[Len(packets) + 1] = p
      /\ \A m \in 1..Len(packets) : packets'[m] = packets[m]
    BY <1>1, AppendLast
<1>3. Before(read)'
    BY BeforeAfter
<1>4. ASSUME NEW m \in 1..(Len(packets') - 1), packets'[m][1] > base
      PROVE  packets'[m + 1][1] - packets'[m][1] = packetSize
    <2>1. m \in 1..Len(packets)
        BY <1>1, <1>2
    <2>2. packets'[m] = packets[m]
        BY <1>2, <2>1
    <2>3. CASE m = Len(packets)
        <3>1. packets # <<>>
            BY <2>1, <2>3
        <3> QED BY <1>2, <1>4, <2>2, <2>3, <3>1
    <2>4. CASE m # Len(packets)
        <3>1. m \in 1..(Len(packets) - 1) /\ m + 1 \in 1..Len(packets)
            BY <1>1, <2>1, <2>4
        <3>2. packets'[m + 1] = packets[m + 1]
            BY <1>2, <3>1
        <3> QED BY <1>4, <2>2, <3>1, <3>2 DEF Spaced
    <2> QED BY <2>3, <2>4
<1>5. Spaced'
    BY <1>1, <1>4 DEF Spaced
<1> QED BY <1>2, <1>3, <1>5

\* The packet handed over last ends where the next may begin.
LEMMA LastMark ==
    ASSUME TypeInv, Before(read), packets # <<>>
    PROVE  /\ packets[Len(packets)][1] \in Nat /\ packets[Len(packets)][1] < read
           /\ Framing!Mark = packets[Len(packets)][1] + TS_SIZE
<1>1. Len(packets) \in 1..Len(packets)
    BY DEF TypeInv, TypeOK
<1> QED BY <1>1 DEF Before, Framing!Mark

\* A packet in the block is measured against the last one.
LEMMA SpacingInPlace ==
    ASSUME FramingInv, SpacingInv, DeliverInPlace
    PROVE  /\ Before(read)'
           /\ strict' /\ result' => Spaced' /\ LastAtH'
<1>0. TypeInv /\ BufferInv /\ BlockInv /\ TypeOK /\ Before(read)
    BY DEF FramingInv, TypeInv, SpacingInv
<1>1. /\ pc = "scan" /\ i < len /\ buffer = <<>> /\ i + TS_SIZE <= len
      /\ UNCHANGED <<read, len, strict, packetSize>> /\ base' = base
      /\ packets' = Append(packets, Bytes(i, TS_SIZE))
      /\ CheckBoundary
    BY DEF DeliverInPlace, callerVars, base, Fits
<1>2. /\ i \in Nat /\ len \in Nat /\ read \in Nat /\ base \in Nat /\ base + len = read
      /\ TS_SIZE \in Nat /\ TS_SIZE > 0 /\ len <= N /\ h \in Nat /\ packetSize \in Nat
      /\ strict \in BOOLEAN /\ result \in BOOLEAN
    BY <1>0, <1>1, TypeFacts, BaseFacts DEF TypeOK
<1>3. memblock[i] = base + i
    BY <1>0, <1>1, BaseFacts
<1>4. PICK p \in Seq(Int) : p = Bytes(i, TS_SIZE)
    <2>1. i + TS_SIZE <= N /\ memblock \in [0..(N - 1) -> Int]
        <3>1. N \in Nat
            BY SizesAssumption
        <3> QED BY <1>0, <1>1, <1>2, <3>1 DEF TypeOK
    <2> QED BY <1>2, <2>1, BytesType
<1>5. p[1] = base + i
    BY <1>2, <1>3, <1>4 DEF Bytes
<1>6. Before(read)'
    <2>1. p[1] \in Nat /\ p[1] < read
        BY <1>1, <1>2, <1>5
    <2> QED BY <1>0, <1>1, <1>4, <2>1, BeforeAfter
<1>7. ASSUME strict', result'
      PROVE  Spaced' /\ LastAtH'
    <2>1. /\ result /\ strict /\ h' = i
          /\ h = 0 \/ h = i \/ i - h = packetSize
        BY <1>1, <1>7 DEF CheckBoundary
    <2>2. Spaced /\ LastAtH
        BY <1>1, <2>1 DEF SpacingInv
    <2>3. ASSUME packets # <<>>, packets[Len(packets)][1] > base
          PROVE  p[1] - packets[Len(packets)][1] = packetSize
        <3> DEFINE l == packets[Len(packets)][1]
        <3>1. l \in Nat /\ l > base /\ h = l - base /\ Framing!Mark = l + TS_SIZE
            BY <1>0, <2>2, <2>3, LastMark DEF LastAtH
        <3>2. Framing!Mark <= base + i
            BY <1>0, <1>1, <1>2 DEF BufferInv, None, Part, Whole
        <3> HIDE DEF l
        <3>3. h > 0 /\ i >= h + TS_SIZE
            BY <1>2, <3>1, <3>2
        <3>4. i - h = packetSize
            BY <1>2, <2>1, <3>3
        <3>5. p[1] - l = i - h
            BY <1>2, <1>5, <3>1
        <3> QED BY <3>4, <3>5 DEF l
    <2>4. p[1] \in Nat /\ p[1] < read
        BY <1>1, <1>2, <1>5
    <2>5. Spaced' /\ packets'[Len(packets')] = p
        BY <1>0, <1>1, <1>4, <2>2, <2>3, <2>4, SpacedAfter
    <2>6. LastAtH'
        BY <1>1, <1>2, <1>5, <2>1, <2>5 DEF LastAtH
    <2> QED BY <2>5, <2>6
<1> QED BY <1>6, <1>7

\* A packet from _buffer began before the block.
LEMMA SpacingBuffered ==
    ASSUME FramingInv, SpacingInv, DeliverBuffered
    PROVE  /\ Before(read)'
           /\ strict' /\ result' => Spaced' /\ LastAtH'
<1>0. TypeInv /\ BufferInv /\ BlockInv /\ TypeOK /\ Before(read)
    BY DEF FramingInv, TypeInv, SpacingInv
<1>1. /\ pc = "scan" /\ i < len /\ Len(buffer) > 0
      /\ UNCHANGED <<read, len, strict, packetSize>> /\ base' = base
      /\ packets' = Append(packets, SubSeq(buffer, 1, TS_SIZE))
      /\ CheckBoundary
    BY <1>0, TypeFacts DEF DeliverBuffered, callerVars, base
<1>2. /\ i \in Nat /\ len \in Nat /\ read \in Nat /\ base \in Nat /\ base + len = read
      /\ TS_SIZE \in Nat /\ TS_SIZE > 0
      /\ buffer \in Seq(Int) /\ Len(buffer) \in Nat
      /\ strict \in BOOLEAN /\ result \in BOOLEAN
    BY <1>0, <1>1, TypeFacts, BaseFacts DEF TypeOK
<1>3. Whole(base + i)
    BY <1>0, <1>1, <1>2 DEF BufferInv, None, Part
<1>4. Len(buffer) >= TS_SIZE /\ buffer[1] >= Framing!Mark /\ buffer[1] \in Int
      /\ Framing!Mark \in Nat
    BY <1>2, <1>3 DEF Whole, Begins, FramingInv, MarkInv
<1>5. buffer[1] < base /\ buffer[1] \in Nat
    BY <1>1, <1>4 DEF SpacingInv
<1>6. PICK p \in Seq(Int) : p = SubSeq(buffer, 1, TS_SIZE) /\ p[1] = buffer[1]
    <2>1. Len(buffer) >= TS_SIZE
        BY <1>4
    <2>2. SubSeq(buffer, 1, TS_SIZE) \in Seq(Int)
        BY <1>2, <2>1
    <2>3. SubSeq(buffer, 1, TS_SIZE)[1] = buffer[1]
        BY <1>2, <2>1
    <2> QED BY <2>2, <2>3
<1>7. p[1] = buffer[1]
    BY <1>6
<1>8. ASSUME packets # <<>>
      PROVE  ~(packets[Len(packets)][1] > base)
    <2>1. /\ packets[Len(packets)][1] \in Nat
          /\ Framing!Mark = packets[Len(packets)][1] + TS_SIZE
        BY <1>0, <1>8, LastMark
    <2> QED BY <1>2, <1>4, <1>5, <2>1
<1>9. p[1] \in Nat /\ p[1] < read
    BY <1>2, <1>5, <1>7
<1>10. Before(read)'
    BY <1>0, <1>1, <1>6, <1>9, BeforeAfter
<1>11. ASSUME strict', result'
       PROVE  Spaced' /\ LastAtH'
    <2>1. result /\ strict
        BY <1>1, <1>11 DEF CheckBoundary
    <2>2. Spaced
        BY <1>1, <2>1 DEF SpacingInv
    <2>3. Spaced' /\ packets'[Len(packets')] = p
        BY <1>0, <1>1, <1>6, <1>8, <1>9, <2>2, SpacedAfter
    <2>4. LastAtH'
        <3>1. ~(p[1] > base)
            BY <1>2, <1>5, <1>7
        <3> QED BY <1>1, <2>3, <3>1 DEF LastAtH
    <2> QED BY <2>3, <2>4
<1> QED BY <1>10, <1>11

\* Line 108 measures the last packet of the block against its end.
LEMMA SpacingReturn ==
    ASSUME FramingInv, SpacingInv, Return
    PROVE  /\ Before(read)'
           /\ strict' /\ result' => Spaced' /\ LastAtEnd'
<1>0. TypeInv /\ BlockInv /\ TypeOK /\ Before(read)
    BY DEF FramingInv, TypeInv, SpacingInv
<1>1. /\ pc = "scan" /\ i >= len
      /\ UNCHANGED <<read, len, strict, packetSize, packets, buffer>> /\ base' = base
      /\ result' = (result /\ (strict /\ buffer = <<>> => i - h = packetSize))
    BY DEF Return, callerVars, base
<1>2. /\ i \in Nat /\ len \in Nat /\ read \in Nat /\ base \in Nat /\ base + len = read
      /\ h \in Nat /\ packetSize \in Nat
    BY <1>0, <1>1, TypeFacts, BaseFacts DEF TypeOK
<1>3. Before(read)'
    BY <1>0, <1>1 DEF Before
<1>4. ASSUME strict', result'
      PROVE  Spaced' /\ LastAtEnd'
    <2>1. Spaced /\ LastAtH /\ (buffer = <<>> => i - h = packetSize)
        BY <1>1, <1>4 DEF SpacingInv
    <2>2. Spaced'
        BY <1>1, <2>1 DEF Spaced
    <2>3. ASSUME buffer = <<>>, packets # <<>>, packets[Len(packets)][1] > base
          PROVE  packets[Len(packets)][1] + packetSize >= read
        <3> DEFINE l == packets[Len(packets)][1]
        <3>1. l \in Nat /\ h = l - base /\ i - h = packetSize
            BY <1>0, <2>1, <2>3, LastMark DEF LastAtH
        <3> HIDE DEF l
        <3>2. l + packetSize = base + i
            BY <1>2, <3>1
        <3>3. l + packetSize >= read
            BY <1>1, <1>2, <3>2
        <3> QED BY <3>3 DEF l
    <2>4. LastAtEnd'
        BY <1>1, <2>3 DEF LastAtEnd
    <2> QED BY <2>2, <2>4
<1> QED BY <1>3, <1>4

\* A block begins with a packet of an earlier one, or with none.
LEMMA SpacingEnter ==
    ASSUME FramingInv, SpacingInv, Enter
    PROVE  /\ Before(read)' /\ Spaced' /\ LastAtH'
           /\ i' < len' /\ Len(buffer') > 0 => buffer'[1] < base'
<1>0. TypeInv /\ TypeInv' /\ BufferInv /\ BlockInv /\ TypeOK /\ Before(read)
    <2>1. Enter => Next
        BY DEF Next, Parse
    <2> QED BY <2>1, TypeStep DEF FramingInv, TypeInv, SpacingInv
<1>1. /\ pc = "enter" /\ UNCHANGED <<read, len, packets>> /\ base' = base
    BY DEF Enter, callerVars, base
<1>2. /\ base \in Nat /\ TS_SIZE \in Nat /\ TS_SIZE > 0
      /\ buffer \in Seq(Int) /\ Len(buffer) \in Nat
    BY <1>0, <1>1, TypeFacts, BaseFacts
<1>3. Before(read)' /\ Before(base)'
    BY <1>0, <1>1 DEF Before, SpacingInv
<1>4. base' \in Int
    BY <1>1, <1>2
<1>5. Spaced' /\ LastAtH'
    <2>1. Len(packets') \in Nat /\ (packets' # <<>> => Len(packets') \in 1..Len(packets'))
        BY <1>0 DEF TypeInv, TypeOK
    <2>2. \A m \in 1..Len(packets') : ~(packets'[m][1] > base')
        BY <1>3, <1>4 DEF Before
    <2>3. \A m \in 1..(Len(packets') - 1) : m \in 1..Len(packets')
        BY <2>1
    <2> QED BY <2>1, <2>2, <2>3 DEF Spaced, LastAtH
<1>6. Len(buffer) > 0 => buffer[1] < base
    <2>1. Begins => buffer[1] \in Int
        BY <1>0, TypeFacts DEF Begins
    <2> QED BY <1>0, <1>1, <1>2, <2>1 DEF BufferInv, None, Part, Whole
<1>7. CASE Len(buffer) \in 1..(TS_SIZE - 1)
    <2> DEFINE n == TS_SIZE - Len(buffer)
    <2>1. n \in Nat /\ 0 + n <= N
        BY <1>0, <1>2, <1>7, TypeFacts
    <2>2. buffer' = buffer \o Bytes(0, n)
        BY <1>7 DEF Enter
    <2> HIDE DEF n
    <2>3. Bytes(0, n) \in Seq(Int)
        BY <1>0, <2>1, BytesType DEF TypeOK
    <2>4. buffer'[1] = buffer[1]
        <3>1. 1 \in 1..Len(buffer)
            BY <1>2, <1>7
        <3> QED BY <1>2, <2>2, <2>3, <3>1, ConcatFacts
    <2> QED BY <1>1, <1>2, <1>3, <1>5, <1>6, <1>7, <2>4
<1>8. CASE Len(buffer) \notin 1..(TS_SIZE - 1)
    <2>1. buffer' = buffer
        BY <1>8 DEF Enter
    <2> QED BY <1>1, <1>3, <1>5, <1>6, <2>1
<1> QED BY <1>7, <1>8

\* A read finds all packets before the block it gives.
LEMMA SpacingCall ==
    ASSUME TypeInv, SpacingInv, NEW want \in minRead..N, NEW st \in BOOLEAN, Call(want, st)
    PROVE  SpacingInv'
<1>1. /\ pc' = "enter" /\ read' = read + len' /\ packets' = packets
      /\ len' = IF want <= file.size - read THEN want ELSE file.size - read
    BY DEF Call
<1>2. /\ want \in Nat /\ read \in Nat /\ file.size \in Nat /\ read <= file.size
    BY TypeFacts DEF TypeInv
<1>3. len' \in Nat
    BY <1>1, <1>2
<1>4. len' <= read' /\ base' = read /\ read <= read' /\ read' \in Nat
    BY <1>1, <1>2, <1>3 DEF base
<1>5. Before(base)' /\ Before(read)'
    BY <1>1, <1>2, <1>4 DEF SpacingInv, Before
<1> QED BY <1>1, <1>4, <1>5 DEF SpacingInv

\* Nothing was parsed, and nothing is promised, before the first read.
LEMMA SpacingInit == Init => SpacingInv
<1> SUFFICES ASSUME Init PROVE SpacingInv
    OBVIOUS
<1>1. len = 0 /\ read = 0 /\ pc = "idle" /\ packets = <<>> /\ ~strict
    BY DEF Init
<1> QED BY <1>1 DEF SpacingInv, Before

\* Every step keeps the spacing.
LEMMA SpacingStep ==
    ASSUME FramingInv, SpacingInv, [Next]_vars
    PROVE  SpacingInv'
<1>0. TypeInv /\ TypeOK /\ Before(read) /\ len <= read
    BY DEF FramingInv, TypeInv, SpacingInv
<1>1. CASE UNCHANGED vars
    BY <1>1 DEF vars, SpacingInv, Before, Spaced, LastAtH, LastAtEnd, base
<1>2. ASSUME NEW sz \in PacketSizes, SetPacketSize(sz) PROVE SpacingInv'
    <2>1. /\ pc' = "idle" /\ read = 0
          /\ UNCHANGED <<read, len, packets, buffer, strict, result>>
        BY <1>2 DEF SetPacketSize, callerVars
    <2>2. len = 0 /\ base' = 0 /\ Len(packets) \in Nat
        BY <1>0, <2>1, TypeFacts DEF base, TypeOK
    <2>3. \A m \in 1..Len(packets) : FALSE
        BY <1>0, <2>1 DEF Before
    <2>4. Len(packets) = 0 /\ packets = <<>>
        BY <1>0, <2>2, <2>3 DEF TypeOK
    <2> QED BY <2>1, <2>2, <2>4 DEF SpacingInv, Before, Spaced, LastAtEnd
<1>3. ASSUME NEW want \in minRead..N, NEW st \in BOOLEAN, Call(want, st) PROVE SpacingInv'
    BY <1>0, <1>3, SpacingCall
<1>4. CASE Parse
    <2>1. /\ len' = len /\ read' = read /\ packetSize' = packetSize /\ strict' = strict
          /\ base' = base /\ len' <= read'
        BY <1>0, <1>4 DEF Parse, Enter, Skip, DeliverInPlace, DeliverBuffered, Carry, Return,
                          callerVars, base
    <2>2. CASE Enter
        <3>1. pc' = "scan"
            BY <2>2 DEF Enter
        <3> QED BY <2>1, <2>2, <3>1, SpacingEnter DEF SpacingInv
    <2>3. CASE DeliverInPlace
        <3>1. pc' = "scan" /\ buffer' = <<>>
            BY <2>3 DEF DeliverInPlace
        <3> QED BY <2>1, <2>3, <3>1, SpacingInPlace DEF SpacingInv
    <2>4. CASE DeliverBuffered
        <3>1. pc' = "scan" /\ buffer' = <<>>
            BY <2>4 DEF DeliverBuffered
        <3> QED BY <2>1, <2>4, <3>1, SpacingBuffered DEF SpacingInv
    <2>5. CASE Return
        <3>1. pc' = "idle"
            BY <2>5 DEF Return
        <3> QED BY <2>1, <2>5, <3>1, SpacingReturn DEF SpacingInv
    <2>6. CASE Skip
        <3>1. /\ pc = "scan" /\ pc' = "scan" /\ i < len
              /\ UNCHANGED <<buffer, packets, h, result>>
            BY <2>6 DEF Skip
        <3>2. Before(read)' /\ (strict' /\ result' => Spaced' /\ LastAtH')
            BY <2>1, <3>1 DEF SpacingInv, Before, Spaced, LastAtH
        <3>3. Len(buffer') > 0 => buffer'[1] < base'
            BY <2>1, <3>1 DEF SpacingInv
        <3> QED BY <2>1, <3>1, <3>2, <3>3 DEF SpacingInv
    <2>7. CASE Carry
        <3>1. /\ pc = "scan" /\ pc' = "scan" /\ i' = len
              /\ UNCHANGED <<packets, h, result>>
            BY <2>7 DEF Carry
        <3>2. Before(read)' /\ (strict' /\ result' => Spaced' /\ LastAtH')
            BY <2>1, <3>1 DEF SpacingInv, Before, Spaced, LastAtH
        <3>3. ~(i' < len')
            BY <1>0, <2>1, <3>1, TypeFacts
        <3> QED BY <2>1, <3>1, <3>2, <3>3 DEF SpacingInv
    <2> QED BY <1>4, <2>2, <2>3, <2>4, <2>5, <2>6, <2>7 DEF Parse
<1> QED BY <1>1, <1>2, <1>3, <1>4 DEF Next

\* For callers that read blocks of TS_SIZE bytes and more, a strict parse that
\* returns true found the packets that begin inside its block at the distance
\* asked for, and the last at its end, whatever the stream holds.
THEOREM TrueMeansSpaced == ASSUME LongReads PROVE Spec => []StrictSpacing
<1>1. SpacingInv => StrictSpacing
    BY DEF SpacingInv, StrictSpacing, Spaced, LastAtEnd
<1>2. FramingInv /\ [Next]_vars => FramingInv'
    BY FramingStep
<1>3. FramingInv /\ SpacingInv /\ [Next]_vars => SpacingInv'
    BY SpacingStep
<1> QED BY FramingInit, SpacingInit, <1>1, <1>2, <1>3, PTL DEF Spec
=============================================================================
