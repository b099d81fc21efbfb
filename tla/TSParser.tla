------------------------------ MODULE TSParser ------------------------------
(***************************************************************************)
(* lcss::TSParser (mp2tp/src/tsprsr.cpp), the incremental framer of a      *)
(* transport stream, together with a caller of the kind every program of   *)
(* the repository has: it reads the stream block by block into one array   *)
(* that it reuses, and passes each block to parse().  istream::read gives  *)
(* what was asked for until the stream ends, and the short (perhaps empty) *)
(* read that meets the end is parsed too.                                  *)
(*                                                                         *)
(* A byte is the position it has in the stream, so what parse() copies can *)
(* be compared with where it came from.  A cell of the caller's array that *)
(* was never written holds Uninit, which is no position; a cell beyond the *)
(* block just read holds what an earlier, longer read left there.          *)
(*                                                                         *)
(* One step is one turn of a loop of parse(); the onPacket callback of a   *)
(* turn is the extension of the history "packets", whose length is the     *)
(* code's _count.                                                          *)
(***************************************************************************)
EXTENDS Integers, Sequences

CONSTANTS
    TS_SIZE,        \* TransportPacket::TS_SIZE, 188
    N,              \* cells of the caller's array, 188*7 in the programs
    Files,          \* the streams considered
    PacketSizes,    \* arguments of setPacketSize (188, or 192 for AVCHD)
    MinReads        \* what a caller may promise to ask for at least

ASSUME SizesAssumption ==
    /\ TS_SIZE \in Nat \ {0}
    /\ N \in Nat
    /\ TS_SIZE <= N

ASSUME FilesAssumption ==
    \A f \in Files : /\ f.size \in Nat
                     /\ f.sync \subseteq 0..(f.size - 1)

\* setPacketSize takes any number.  Below TS_SIZE the unsigned difference
\* _packetSize - TS_SIZE wraps and the scan runs backwards; no caller that
\* reads a transport stream means that.
ASSUME PacketSizesAssumption ==
    /\ PacketSizes \subseteq Nat
    /\ \A s \in PacketSizes : s >= TS_SIZE

ASSUME MinReadsAssumption == MinReads \subseteq 1..N

VARIABLES
    \* the caller
    file,           \* the stream: [size |-> Nat, sync |-> set of positions]
    minRead,        \* the least number of bytes a read of this caller asks for
    read,           \* bytes read from the stream so far
    more,           \* input->good()
    memblock,       \* the caller's array
    len,            \* argument of parse: bytes the last read gave
    strict,         \* argument of parse
    \* the parser
    buffer,         \* _buffer
    packetSize,     \* _packetSize
    packets,        \* the packets handed to onPacket, oldest first
    \* the activation of parse
    pc, i, h, result

callerVars == <<file, minRead, read, more, memblock, len, strict>>
vars == <<file, minRead, read, more, memblock, len, strict,
          buffer, packetSize, packets, pc, i, h, result>>

Uninit == -1

\* The n bytes from &stream[a].
Bytes(a, n) == [x \in 1..n |-> memblock[a + x - 1]]

\* *(stream + i) == 0x47
AtSync == memblock[i] \in file.sync

\* Mutant: a packet that ends with the block is taken for one that goes on.
Bug_Fits == i + TS_SIZE < len

\* i + TS_SIZE <= len
Fits == i + TS_SIZE <= len

-----------------------------------------------------------------------------
Init ==
    /\ file \in Files
    /\ minRead \in MinReads
    /\ read = 0
    /\ more = TRUE
    /\ memblock = [j \in 0..(N - 1) |-> Uninit]
    /\ len = 0
    /\ strict = FALSE
    /\ buffer = <<>>
    /\ packetSize = TS_SIZE
    /\ packets = <<>>
    /\ pc = "idle"
    /\ i = 0
    /\ h = 0
    /\ result = TRUE

\* Every caller sets the packet size before its first read (main.cpp line 95).
SetPacketSize(sz) ==
    /\ pc = "idle"
    /\ read = 0
    /\ packetSize' = sz
    /\ UNCHANGED callerVars
    /\ UNCHANGED <<buffer, packets, pc, i, h, result>>

\* Mutant: the size asked for is passed to parse, not gcount().
Bug_Call(want, st) ==
    /\ pc = "idle"
    /\ more
    /\ len' = want
    /\ more' = (want <= file.size - read)
    /\ read' = read + len'
    /\ memblock' = [j \in 0..(N - 1) |-> IF j < len' THEN read + j ELSE memblock[j]]
    /\ strict' = st
    /\ i' = 0
    /\ h' = 0
    /\ result' = TRUE
    /\ pc' = "enter"
    /\ UNCHANGED <<file, minRead, buffer, packetSize, packets>>

\* input->read(memblock, want); parse(memblock, input->gcount(), st)
Call(want, st) ==
    /\ pc = "idle"
    /\ more
    /\ len' = IF want <= file.size - read THEN want ELSE file.size - read
    /\ more' = (len' = want)
    /\ read' = read + len'
    /\ memblock' = [j \in 0..(N - 1) |-> IF j < len' THEN read + j ELSE memblock[j]]
    /\ strict' = st
    /\ i' = 0
    /\ h' = 0
    /\ result' = TRUE
    /\ pc' = "enter"
    /\ UNCHANGED <<file, minRead, buffer, packetSize, packets>>

\* Lines 46-52.  The loop that completes a packet begun in the last block
\* looks at the size of _buffer alone, not at len.
Enter ==
    /\ pc = "enter"
    /\ IF Len(buffer) \in 1..(TS_SIZE - 1)
         THEN /\ i' = TS_SIZE - Len(buffer)
              /\ buffer' = buffer \o Bytes(0, TS_SIZE - Len(buffer))
         ELSE UNCHANGED <<i, buffer>>
    /\ pc' = "scan"
    /\ UNCHANGED callerVars
    /\ UNCHANGED <<packetSize, packets, h, result>>

\* Mutant: the difference of the sizes is skipped when it is 0 as well.
Bug_SkipNothing ==
    /\ pc = "scan"
    /\ i < len
    /\ ~AtSync
    /\ i' = i + (packetSize - TS_SIZE)
    /\ UNCHANGED callerVars
    /\ UNCHANGED <<buffer, packetSize, packets, pc, h, result>>

\* Mutant: time codes are searched for sync bytes.
Bug_SkipByte ==
    /\ pc = "scan"
    /\ i < len
    /\ ~AtSync
    /\ i' = i + 1
    /\ UNCHANGED callerVars
    /\ UNCHANGED <<buffer, packetSize, packets, pc, h, result>>

\* Lines 57-68: not a sync byte.
Skip ==
    /\ pc = "scan"
    /\ i < len
    /\ ~AtSync
    /\ i' = i + (IF packetSize # TS_SIZE THEN packetSize - TS_SIZE ELSE 1)
    /\ UNCHANGED callerVars
    /\ UNCHANGED <<buffer, packetSize, packets, pc, h, result>>

\* Mutant: no packet is measured against the one before.
Bug_NoDistance ==
    IF strict THEN h' = i /\ UNCHANGED result ELSE UNCHANGED <<h, result>>

\* Mutant: a sync byte that is looked at twice is taken for two.
Bug_SameSync ==
    IF strict
      THEN /\ h' = i
           /\ result' = (result /\ (h = 0 \/ i - h = packetSize))
      ELSE UNCHANGED <<h, result>>

\* Lines 73-83: the distance to the sync byte found before, 0 standing for none.
CheckBoundary ==
    IF strict
      THEN /\ h' = i
           /\ result' = (result /\ (h = 0 \/ h = i \/ i - h = packetSize))
      ELSE UNCHANGED <<h, result>>

\* Lines 70-96 with _buffer empty: a packet that lies in the block.
DeliverInPlace ==
    /\ pc = "scan"
    /\ i < len
    /\ AtSync
    /\ Fits
    /\ buffer = <<>>
    /\ CheckBoundary
    /\ packets' = Append(packets, Bytes(i, TS_SIZE))
    /\ i' = i + TS_SIZE
    /\ UNCHANGED callerVars
    /\ UNCHANGED <<buffer, packetSize, pc>>

\* Mutant: _buffer is not cleared after its packet was handed over.
Bug_NoClear ==
    /\ pc = "scan"
    /\ i < len
    /\ AtSync
    /\ Fits
    /\ buffer # <<>>
    /\ CheckBoundary
    /\ packets' = Append(packets, SubSeq(buffer, 1, TS_SIZE))
    /\ i' = i + TS_SIZE
    /\ UNCHANGED callerVars
    /\ UNCHANGED <<buffer, packetSize, pc>>

\* Lines 70-96 with a completed packet in _buffer: it is handed over when the
\* sync byte after it is met, and that byte is looked at again.
DeliverBuffered ==
    /\ pc = "scan"
    /\ i < len
    /\ AtSync
    /\ Fits
    /\ buffer # <<>>
    /\ CheckBoundary
    /\ packets' = Append(packets, SubSeq(buffer, 1, TS_SIZE))
    /\ buffer' = <<>>
    /\ UNCHANGED callerVars
    /\ UNCHANGED <<packetSize, pc, i>>

\* Lines 98-102: the packet goes on in the next block.
Carry ==
    /\ pc = "scan"
    /\ i < len
    /\ AtSync
    /\ ~Fits
    /\ buffer' = buffer \o Bytes(i, len - i)
    /\ i' = len
    /\ UNCHANGED callerVars
    /\ UNCHANGED <<packetSize, packets, pc, h, result>>

\* Lines 105-113.
Return ==
    /\ pc = "scan"
    /\ i >= len
    /\ result' = (result /\ (strict /\ buffer = <<>> => i - h = packetSize))
    /\ pc' = "idle"
    /\ UNCHANGED callerVars
    /\ UNCHANGED <<buffer, packetSize, packets, i, h>>

Parse ==
    \/ Enter
    \/ Skip
    \/ DeliverInPlace
    \/ DeliverBuffered
    \/ Carry
    \/ Return

Next ==
    \/ \E sz \in PacketSizes : SetPacketSize(sz)
    \/ \E want \in minRead..N, st \in BOOLEAN : Call(want, st)
    \/ Parse

\* parse() is straight-line code in its caller's thread: once called it runs.
Spec == Init /\ [][Next]_vars /\ WF_vars(Parse)

-----------------------------------------------------------------------------
TypeOK ==
    /\ file \in Files
    /\ minRead \in MinReads
    /\ read \in 0..file.size
    /\ more \in BOOLEAN
    /\ memblock \in [0..(N - 1) -> Int]
    /\ len \in 0..N
    /\ strict \in BOOLEAN
    /\ buffer \in Seq(Int)
    /\ packetSize \in PacketSizes \cup {TS_SIZE}
    /\ packets \in Seq(Seq(Int))
    /\ pc \in {"idle", "enter", "scan"}
    /\ i \in Nat
    /\ h \in Nat
    /\ result \in BOOLEAN
-----------------------------------------------------------------------------
(***************************************************************************)
(* Correctness.  The first property is the type invariant above.           *)
(***************************************************************************)

\* Whatever the stream holds and however it is cut into blocks, what reaches
\* onPacket is what TSFraming allows: whole packets, beginning at sync bytes,
\* in order, without overlap, and never a byte twice or a stale byte of the
\* caller's array.  It is about the two ways a packet reaches line 92 (in
\* place, and put together from two blocks in _buffer), and needs blocks of
\* at least TS_SIZE bytes, the last one excepted.
Framing == INSTANCE TSFraming
Decomposes == Framing!Spec

\* The stream is a transport stream without a defect: a sync byte at every
\* multiple of TS_SIZE, and perhaps more of them inside the packets.
Aligned == \A k \in 0..file.size : TS_SIZE * k < file.size => TS_SIZE * k \in file.sync

\* No packet of an aligned stream is lost, duplicated or delayed when every
\* block can hold the rest of one packet and another one: between two reads
\* all the whole packets read were handed over, and once the stream has ended
\* at most the last one is held back in _buffer (lines 85-95: a packet that was
\* completed from two blocks waits for the sync byte of the next).
NoLoss ==
    Aligned /\ minRead >= 2 * TS_SIZE - 1 /\ pc = "idle" =>
        /\ \A m \in 1..Len(packets) : packets[m][1] = TS_SIZE * (m - 1)
        /\ TS_SIZE * Len(packets) + (IF more THEN 1 ELSE 2) * TS_SIZE > read

\* The stream position of the block that parse() has, or had last.
base == read - len

\* A strict parse that returns true found its packets _packetSize apart, and
\* the last of them at the end of the block.  Packets that begin with the
\* first byte of the block are left out: h == 0 stands for "none found yet"
\* (line 75), so the distance from such a packet to the next is not looked at.
StrictSpacing ==
    pc = "idle" /\ strict /\ result =>
        /\ \A m \in 1..(Len(packets) - 1) :
              packets[m][1] > base => packets[m + 1][1] - packets[m][1] = packetSize
        /\ buffer = <<>> /\ packets # <<>> /\ packets[Len(packets)][1] > base
              => packets[Len(packets)][1] + packetSize >= read

\* What tsprsr.h lines 29-32 say of a strict parse, without the exception: a
\* sync byte that is not on the packet size boundary makes it return false.
StrictRejectsMisplaced ==
    pc = "idle" /\ strict /\ result =>
        \A m \in 1..(Len(packets) - 1) :
            packets[m][1] >= base => packets[m + 1][1] - packets[m][1] = packetSize

\* A strict parse of a block of an aligned stream returns true, wherever the
\* block was cut, unless the block is empty (line 108 then compares 0 with
\* _packetSize) or its last bytes are no sync byte that could begin a packet.
StrictAccepts ==
    Aligned /\ minRead >= 2 * TS_SIZE - 1 /\ packetSize = TS_SIZE /\ pc = "idle" /\ len > 0
        => result

\* parse() returns: every turn of its loop moves i forward or empties _buffer.
ParseReturns == pc = "enter" ~> pc = "idle"
=============================================================================
