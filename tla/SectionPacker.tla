---------------------------- MODULE SectionPacker ----------------------------
(***************************************************************************)
(* TSPacker::packetize (mp2tp/src/tspacker.cpp), which puts a section into *)
(* packets, in its two forms, and TransportPacket::getData, by which the   *)
(* section is read from them.  A packet is                                 *)
(*   start   payload_unit_start_indicator                                  *)
(*   cc      the counter                                                   *)
(*   afLen   the byte after a header that announces an adaptation field    *)
(*   bytes   what was written after the header, and that byte              *)
(***************************************************************************)
EXTENDS Payloads

TS_SIZE == PayloadSize + 4

\* The length of an adaptation field is a byte.
ASSUME FieldAssumption == PayloadSize <= 256

NoField == -1
Stuffing(n) == [k \in 1..n |-> 255]

\* The one-packet form: a packet of stuffing, before which header and section are
\* put.  The assert that the section fits is not there in a release build.
packetizeOne(buf, cc) ==
    [start |-> TRUE, cc |-> cc % 16, afLen |-> NoField,
     bytes |-> SubSeq(buf \o Stuffing(PayloadSize), 1, PayloadSize)]

\* What is left of the section when a packet is begun is compared without the
\* header that the packet needs.
Fits(left) == left <= TS_SIZE

\* Line 159 is a difference of unsigned numbers; below 0 the loop of line 160
\* writes until there is no memory.
Endless(size) == Fits(size) /\ size > PayloadSize

\* Mutant: the length is taken to count its own byte.
Bug_LastField(left) == (PayloadSize - left) % 65536

\* uint16_t len of line 180
LastField(left) == (PayloadSize - 1 - left) % 65536

\* Mutant: the length is not cut to a byte.
Bug_LastPacket(rest, cc) ==
    LET len == LastField(Len(rest))
        stuff == <<0>> \o Stuffing(IF len > PayloadSize THEN PayloadSize ELSE len - 1)
    IN  [start |-> FALSE, cc |-> cc % 16, afLen |-> len,
         bytes |-> SubSeq(stuff \o rest, 1, PayloadSize - 1)]

\* Lines 166-191.  The constructor of TransportPacket takes TS_SIZE bytes of what
\* was written: a byte of the length and one of flags, stuffing, and the data.
LastPacket(rest, cc) ==
    LET len == LastField(Len(rest))
        stuff == <<0>> \o Stuffing(IF len > PayloadSize THEN PayloadSize ELSE len - 1)
    IN  [start |-> FALSE, cc |-> cc % 16, afLen |-> len % 256,
         bytes |-> SubSeq(stuff \o rest, 1, PayloadSize - 1)]

\* Lines 194-213, and 133-137.
FullPacket(buf, cur, cc) ==
    [start |-> cur = 0, cc |-> cc % 16, afLen |-> NoField,
     bytes |-> SubSeq(buf, cur + 1, cur + PayloadSize)]

\* The loop of lines 131-214, a packet at a time, for a section for which it ends.  What
\* fits goes into one packet.
packetize(buf, cc) ==
    LET left(cur) == Len(buf) - cur
        packet(cur) ==
          LET c == cc + cur \div PayloadSize
          IN  IF ~Fits(left(cur)) THEN FullPacket(buf, cur, c)
              ELSE IF cur = 0 THEN packetizeOne(buf, c)
              ELSE LastPacket(SubSeq(buf, cur + 1, Len(buf)), c)
    IN  Walk([cur \in Nat |-> packet(cur)],
             [cur \in Nat |-> cur + (IF Fits(left(cur)) THEN TS_SIZE ELSE PayloadSize)],
             0, Len(buf)).list

\* data_byte and getData: the end of the packet that an adaptation field leaves,
\* at least two bytes less than a payload if its length makes no sense.
getData(p) ==
    LET af == IF p.afLen <= PayloadSize - 2 THEN p.afLen ELSE 1
    IN  IF p.afLen = NoField THEN p.bytes ELSE SubSeq(p.bytes, af + 1, PayloadSize - 1)
=============================================================================
