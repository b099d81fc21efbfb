------------------------------ MODULE TSPacker ------------------------------
(***************************************************************************)
(* lcss::TSPacker::packetizePES (mp2tp/src/tspacker.cpp) and a multiplexer *)
(* that calls it for one access unit after another of a stream, with one   *)
(* continuity counter.                                                     *)
(*                                                                         *)
(* The sizes are those of the code.  A packet is described by what was     *)
(* written to it: how many bytes come before the payload of the access     *)
(* unit ("front"), what its adaptation_field_length byte says, how long    *)
(* its PES header is, and which bytes of the access unit follow.  A reader *)
(* goes by the adaptation_field_length alone, so whether the two agree is  *)
(* a question to ask, and is what most of the properties are about.        *)
(*                                                                         *)
(* The counter is only ever used modulo 16 and is kept so.                 *)
(***************************************************************************)
EXTENDS Integers, Sequences

CONSTANT AccessUnits    \* the access units considered

\* length is length(), pts and dts stand for PTS() > 0 and DTS() > 0, and
\* video for streamId() == AccessUnit::Video.
ASSUME AccessUnitsAssumption ==
    AccessUnits \subseteq
        [length : Nat, pts : BOOLEAN, dts : BOOLEAN, video : BOOLEAN]

VARIABLES
    au,             \* the access unit of this call
    pcr,            \* pcr > 0
    before,         \* the counter when the call was made
    cc,             \* *cc
    cur,            \* bytes of the access unit already written
    onepacket,      \* no packet of this access unit was begun
    pesHeaderSize,
    tsd,            \* the packet under construction
    pes,            \* the packets made
    pc

vars == <<au, pcr, before, cc, cur, onepacket, pesHeaderSize, tsd, pes, pc>>

TS_SIZE == 188

\* adaptation_field_control 01; else 11 and the adaptation_field_length.
NoField == -1

Empty == [unit |-> FALSE, cc |-> 0, afLen |-> NoField, pcr |-> FALSE,
          front |-> 0, pesHeader |-> 0, pesLen |-> 0, from |-> 0, to |-> 0]

\* size() of a packet
Size(p) == p.front + (p.to - p.from)

\* Where TransportPacket::getData() finds the payload: 188 - data_byte().
PayloadStart(p) ==
    IF p.afLen = NoField THEN 4 ELSE IF p.afLen <= 182 THEN 5 + p.afLen ELSE 6

Five(b) == IF b THEN 5 ELSE 0

\* Lines 225-233.
HeaderSize(a) == 15 + Five(a.pts) + Five(a.dts)

\* Start code, stream_id and length; flags; the one time stamp that is written.
PESHeader(a) == 9 + Five(a.pts)

\* Mutant: the flags and the length of the PES header are not counted.
Bug_PESLength(a, stamps) == IF a.video THEN 0 ELSE (a.length + stamps) % 65536

\* uint16_t pesLen, lines 280-288, 391-399 and 453-463; stamps is the number of
\* bytes that are added for time stamps.
PESLength(a, stamps) == IF a.video THEN 0 ELSE (a.length + 3 + stamps) % 65536

whatIsLeft == au.length - cur

-----------------------------------------------------------------------------
\* Before the first call there is no access unit.
NoUnit == [length |-> 0, pts |-> FALSE, dts |-> FALSE, video |-> FALSE]

Init ==
    /\ au = NoUnit
    /\ pcr = FALSE
    /\ before = 0
    /\ cc = 0
    /\ cur = 0
    /\ onepacket = TRUE
    /\ pesHeaderSize = HeaderSize(au)
    /\ tsd = Empty
    /\ pes = <<>>
    /\ pc = "idle"

\* packetizePES(a, pid, &cc, p)
Call(a, p) ==
    /\ pc = "idle"
    /\ au' = a
    /\ pcr' = p
    /\ before' = cc
    /\ cur' = 0
    /\ onepacket' = TRUE
    /\ pesHeaderSize' = HeaderSize(a)
    /\ tsd' = Empty
    /\ pes' = <<>>
    /\ pc' = "loop"
    /\ UNCHANGED cc

\* Mutant: *cc is read and not advanced.
Bug_TakeCounter == UNCHANGED cc

\* *cc % 16 goes to the packet and (*cc)++.
TakeCounter == cc' = (cc + 1) % 16

\* A packet that starts the unit: headers, the PES header last of them.
UnitPacket(afLen, p, front, stamps, to) ==
    [unit |-> TRUE, cc |-> cc, afLen |-> afLen, pcr |-> p,
     front |-> front + PESHeader(au), pesHeader |-> PESHeader(au),
     pesLen |-> PESLength(au, stamps), from |-> cur, to |-> to]

\* A packet that goes on with the unit.
NextOfUnit(afLen, front, to) ==
    [unit |-> FALSE, cc |-> cc, afLen |-> afLen, pcr |-> FALSE, front |-> front,
     pesHeader |-> 0, pesLen |-> 0, from |-> cur, to |-> to]

\* Lines 240-244.
Flush ==
    /\ pc = "loop"
    /\ cur < au.length
    /\ Size(tsd) = TS_SIZE
    /\ pes' = Append(pes, tsd)
    /\ tsd' = Empty
    /\ UNCHANGED <<au, pcr, before, cc, cur, onepacket, pesHeaderSize, pc>>

\* Line 245: what is left fits into a packet that an adaptation field stuffs.
FitsStuffed ==
    /\ pc = "loop"
    /\ cur < au.length
    /\ Size(tsd) = 0
    /\ whatIsLeft + pesHeaderSize <= TS_SIZE

\* Lines 250-318: everything fits.  The program clock reference has no place.
OnePacket ==
    /\ FitsStuffed
    /\ onepacket
    /\ LET afLen == (189 - (pesHeaderSize + au.length)) % 65536
       IN  pes' = Append(pes,
                    UnitPacket(afLen, FALSE, 5 + afLen, Five(au.pts), au.length))
    /\ TakeCounter
    /\ cur' = au.length
    /\ UNCHANGED <<au, pcr, before, onepacket, pesHeaderSize, tsd, pc>>

\* Mutant: the flags byte of the adaptation field is not counted in its length.
Bug_LastField == (182 - whatIsLeft) % 65536

\* uint16_t len of line 332
LastField == (183 - whatIsLeft) % 65536

\* Lines 319-345: the last packet.
LastPacket ==
    /\ FitsStuffed
    /\ ~onepacket
    /\ pes' = Append(pes, NextOfUnit(LastField, 5 + LastField, au.length))
    /\ TakeCounter
    /\ cur' = au.length
    /\ UNCHANGED <<au, pcr, before, onepacket, pesHeaderSize, tsd, pc>>

\* Lines 348-369: 183 bytes are left, one too many for a stuffed packet and one
\* too few for a full one.  Two zeros are written, and the length of the
\* adaptation field, which is the first of them, does not count the second.
Left183 ==
    /\ pc = "loop"
    /\ cur < au.length
    /\ Size(tsd) = 0
    /\ whatIsLeft + pesHeaderSize > TS_SIZE
    /\ pes # <<>>
    /\ whatIsLeft = 183
    /\ tsd' = NextOfUnit(0, 6, cur + 182)
    /\ TakeCounter
    /\ cur' = cur + 182
    /\ UNCHANGED <<au, pcr, before, onepacket, pesHeaderSize, pes, pc>>

\* None of the conditions of lines 240, 245 and 348.
BeginsPacket ==
    /\ pc = "loop"
    /\ cur < au.length
    /\ Size(tsd) = 0
    /\ whatIsLeft + pesHeaderSize > TS_SIZE
    /\ ~(pes # <<>> /\ whatIsLeft = 183)

\* Mutant: the adaptation field of the last packet is not provided for.
Bug_NextHeaderSize == 4

\* Lines 375 and 428: the header and two bytes of an adaptation field.
NextHeaderSize == 6

\* Lines 372-424.
FirstPacket ==
    /\ BeginsPacket
    /\ onepacket
    /\ ~pcr
    /\ tsd' = UnitPacket(NoField, FALSE, 4, Five(au.pts), cur)
    /\ TakeCounter
    /\ onepacket' = FALSE
    /\ pesHeaderSize' = NextHeaderSize
    /\ UNCHANGED <<au, pcr, before, cur, pes, pc>>

\* Mutant: the packet is begun as if there were no clock reference to write.
Bug_FirstPacketWithPCR ==
    /\ BeginsPacket
    /\ onepacket
    /\ pcr
    /\ tsd' = UnitPacket(NoField, FALSE, 4, Five(au.pts), cur)
    /\ TakeCounter
    /\ onepacket' = FALSE
    /\ pesHeaderSize' = NextHeaderSize
    /\ UNCHANGED <<au, pcr, before, cur, pes, pc>>

\* Lines 425-488: an adaptation field of 8 bytes carries the clock reference.
FirstPacketWithPCR ==
    /\ BeginsPacket
    /\ onepacket
    /\ pcr
    /\ tsd' = UnitPacket(7, TRUE, 12, Five(au.pts) + Five(au.dts), cur)
    /\ TakeCounter
    /\ onepacket' = FALSE
    /\ pesHeaderSize' = NextHeaderSize
    /\ UNCHANGED <<au, pcr, before, cur, pes, pc>>

\* Lines 489-501.
NextPacket ==
    /\ BeginsPacket
    /\ ~onepacket
    /\ tsd' = NextOfUnit(NoField, 4, cur)
    /\ TakeCounter
    /\ UNCHANGED <<au, pcr, before, cur, onepacket, pesHeaderSize, pes, pc>>

\* Mutant: the last byte of a packet is kept free.
Bug_room == TS_SIZE - Size(tsd) - 1

\* The bytes that can be pushed before line 240 holds.
room == TS_SIZE - Size(tsd)

\* Lines 503-506, taken once for each byte until the packet is full or the
\* access unit written.
Fill ==
    /\ pc = "loop"
    /\ cur < au.length
    /\ Size(tsd) # 0
    /\ Size(tsd) # TS_SIZE
    /\ cur' = cur + (IF whatIsLeft < room THEN whatIsLeft ELSE room)
    /\ tsd' = [tsd EXCEPT !.to = cur']
    /\ UNCHANGED <<au, pcr, before, cc, onepacket, pesHeaderSize, pes, pc>>

\* Mutant: the packet that the end of the access unit just fills is forgotten.
Bug_Return ==
    /\ pc = "loop"
    /\ cur >= au.length
    /\ pc' = "idle"
    /\ UNCHANGED <<au, pcr, before, cc, cur, onepacket, pesHeaderSize, tsd, pes>>

\* Lines 509-514: a packet that is not full is not handed over.
Return ==
    /\ pc = "loop"
    /\ cur >= au.length
    /\ pes' = IF Size(tsd) = TS_SIZE THEN Append(pes, tsd) ELSE pes
    /\ pc' = "idle"
    /\ UNCHANGED <<au, pcr, before, cc, cur, onepacket, pesHeaderSize, tsd>>

Step ==
    \/ Flush
    \/ OnePacket
    \/ LastPacket
    \/ Left183
    \/ FirstPacket
    \/ FirstPacketWithPCR
    \/ NextPacket
    \/ Fill
    \/ Return

Next ==
    \/ \E a \in AccessUnits, p \in BOOLEAN : Call(a, p)
    \/ Step

\* packetizePES is straight-line code in its caller's thread.
Spec == Init /\ [][Next]_vars /\ WF_vars(Step)

-----------------------------------------------------------------------------
(***************************************************************************)
(* Correctness, of what a call returned: pc = "idle".                      *)
(***************************************************************************)
AFLength == 0..182

PacketType ==
    [unit : BOOLEAN, cc : 0..15, afLen : AFLength \cup {NoField}, pcr : BOOLEAN,
     front : 0..TS_SIZE, pesHeader : {0, 9, 14}, pesLen : Nat,
     from : Nat, to : Nat]

\* Every value is of its type; above all, the adaptation_field_length of a
\* packet never leaves its range, although lines 263 and 332 compute it by an
\* unsigned subtraction.
TypeOK ==
    /\ au \in AccessUnits \cup {NoUnit}
    /\ pcr \in BOOLEAN
    /\ before \in 0..15
    /\ cc \in 0..15
    /\ cur \in 0..au.length
    /\ onepacket \in BOOLEAN
    /\ pesHeaderSize \in {6, 15, 20, 25}
    /\ tsd \in PacketType
    /\ pes \in Seq(PacketType)
    /\ pc \in {"idle", "loop"}

\* The access unit fits into one packet by the measure of line 245.
Single == au.length + HeaderSize(au) <= TS_SIZE

\* The bytes of the access unit that the first of several packets takes.
Room == TS_SIZE - ((IF pcr THEN 12 ELSE 4) + PESHeader(au))

\* Three kinds of access unit that packetizePES does not carry as it should.
\* Too long for line 245, which counts an adaptation field, and too short to
\* fill a packet that has none: the only packet is never full, and is dropped.
NeverFull == ~Single /\ au.length < Room
\* Left183 is taken, and puts a zero between two bytes of the access unit.
ComesTo183 == au.length > Room /\ (au.length - Room) % 184 = 183
\* Line 231 counts a time stamp that is not written: a packet of 183 bytes, of
\* which the constructor of TransportPacket reads 188.
ShortPacket == Single /\ au.dts

\* The payload a reader finds in the packet is what was written to it: it
\* begins where the reader looks for it and lasts to the end of the packet.
Exact(p) ==
    /\ PayloadStart(p) + p.pesHeader = p.front
    /\ Size(p) = TS_SIZE

\* The packets carry the bytes of the access unit in order, each of them once.
Covers ==
    /\ \A k \in 1..Len(pes) : pes[k].from = IF k = 1 THEN 0 ELSE pes[k - 1].to
    /\ pes # <<>> => pes[Len(pes)].to = au.length

\* The payload of the packets is the access unit and nothing else, and the
\* first of them, and no other, starts a unit.  It takes a case analysis of
\* every length modulo the packet sizes: two measures of "fits" (lines 245,
\* 509) and four sizes of header have to agree.
RebuildsUnit ==
    pc = "idle" /\ ~NeverFull /\ ~ComesTo183 /\ ~ShortPacket =>
        /\ pes = <<>> => au.length = 0
        /\ Covers
        /\ \A k \in 1..Len(pes) : Exact(pes[k]) /\ (pes[k].unit <=> k = 1)

\* Even an access unit of those three kinds is never carried in part: its
\* packets hold all of its bytes in order, or there are none.
AllOrNothing ==
    pc = "idle" =>
        /\ Covers
        /\ pes = <<>> => au.length = 0 \/ NeverFull

\* The continuity counters of the packets follow one another, and the caller's
\* counter is the one after the last of them, ready for the next access unit;
\* it has moved on by one when the access unit was dropped.
KeepsCounter ==
    pc = "idle" =>
        /\ \A k \in 1..Len(pes) : pes[k].cc = (before + k - 1) % 16
        /\ cc = (before + Len(pes) + (IF NeverFull THEN 1 ELSE 0)) % 16

\* The PES_packet_length is the number of bytes after it, or 0 for video, if it
\* can be written in 16 bits at all.  Line 459 counts a decoding time stamp
\* that is not written, so with a clock reference one is excluded.
StatesLength ==
    pc = "idle" /\ pes # <<>> /\ au.length <= 65527 /\ ~(pes[1].pcr /\ au.dts) =>
        pes[1].pesLen = IF au.video THEN 0 ELSE pes[1].pesHeader - 6 + au.length

\* A clock reference given is in the first packet and in no other, unless the
\* access unit fits into one packet.
CarriesClock ==
    pc = "idle" =>
        \A k \in 1..Len(pes) : pes[k].pcr <=> (k = 1 /\ pcr /\ ~Single)

\* packetizePES returns: each turn of its loop writes, or makes room to write.
Returns == pc = "loop" ~> pc = "idle"

\* What tspacker.h line 45 says of pcr, without the exception: it "will be added
\* to the PES packet".
AlwaysCarriesClock == pc = "idle" /\ pcr /\ pes # <<>> => pes[1].pcr

\* What tspacker.h lines 43-44 say of cc: it is incremented "for each new
\* TransportPacket instance created", and the instances are what is returned.
CountsPackets == pc = "idle" => cc = (before + Len(pes)) % 16
=============================================================================
