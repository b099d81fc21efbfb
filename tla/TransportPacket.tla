-------------------------- MODULE TransportPacket ---------------------------
(***************************************************************************)
(* lcss::TransportPacket and lcss::AdaptationField (mp2tp/src/tspckt.cpp   *)
(* and tsadptfd.cpp): the bytes of one packet, of which TS_SIZE, here      *)
(* PayloadSize + 4, are always there, and _pos, how many were put in.      *)
(* Bytes are as in Payloads; an operator is named like the method, with a  *)
(* prefix where another class has one of that name.                        *)
(***************************************************************************)
EXTENDS Payloads, TimeStamps

TS_SIZE == PayloadSize + 4

NewPacket == [pos |-> 0, data |-> [k \in 1..TS_SIZE |-> 255] \o <<>>]

\* The constructors from data, and parse().
insert(bytes) == [pos |-> TS_SIZE, data |-> bytes]

push_back(p, d) ==
    IF p.pos < TS_SIZE THEN [pos |-> p.pos + 1, data |-> [p.data EXCEPT ![p.pos + 1] = d]]
    ELSE p

\* transport_error_indicator, payload_unit_start_indicator, transport_priority
HeaderFlags(p) == p.data[2] \div 32

PID(p) == (256 * p.data[2] + p.data[3]) % 8192

\* Mutant: the flags in the byte are overwritten.
Bug_setPID(p, pid) ==
    [p EXCEPT !.data[2] = pid \div 256, !.data[3] = pid \div 256]

\* memset() fills both bytes with the one that htons() made the lower: the upper byte
\* of the PID, which is less than 32.  The flags are put before it.
setPID(p, pid) ==
    [p EXCEPT !.data[2] = 32 * (@ \div 32) + pid \div 256, !.data[3] = pid \div 256]

scramblingControl(p) == p.data[4] \div 64
adaptationFieldExist(p) == (p.data[4] \div 16) % 4
cc(p) == p.data[4] % 16

\* Mutant: the two tables are mixed up.
Bug_incrementCC(p) ==
    LET control == IF adaptationFieldExist(p) = 1 THEN 48 ELSE 16
    IN  [p EXCEPT !.data[4] = control + ((cc(p) + 1) % 16)]

\* The byte is taken from a table for packets with, or without, an adaptation field:
\* scrambling is gone, and a packet without payload says it has one.
incrementCC(p) ==
    LET control == IF adaptationFieldExist(p) = 1 THEN 16 ELSE 48
    IN  [p EXCEPT !.data[4] = control + ((cc(p) + 1) % 16)]

data_byte(p) ==
    CASE adaptationFieldExist(p) = 0 -> 0
      [] adaptationFieldExist(p) = 1 -> PayloadSize
      [] adaptationFieldExist(p) = 2 -> PayloadSize - 1
      [] adaptationFieldExist(p) = 3 /\ p.data[5] <= PayloadSize - 2 -> PayloadSize - p.data[5] - 1
      [] OTHER -> PayloadSize - 2

\* getData and getPayload: the last data_byte bytes.
getPayload(p) == SubSeq(p.data, TS_SIZE - data_byte(p) + 1, TS_SIZE)

\* Mutant: an adaptation field is not thought of.
Bug_setPayload(p, bytes) ==
    [p EXCEPT !.data = [k \in 1..TS_SIZE |->
                          IF k > 4 /\ k - 4 <= Len(bytes) THEN bytes[k - 4] ELSE @[k]] \o <<>>]

\* setPayload(): as many bytes as there are, and there is room for.
setPayload(p, bytes) ==
    LET start == TS_SIZE - data_byte(p)
    IN  [p EXCEPT !.data = [k \in 1..TS_SIZE |->
                              IF k > start /\ k - start <= Len(bytes)
                              THEN bytes[k - start] ELSE @[k]] \o <<>>]

\* getAdaptationField(), its length() and PCR_flag(), which is read although the
\* field may be of length 0.
hasAdaptationField(p) == adaptationFieldExist(p) \in {2, 3}
PCR_flag(p) == (p.data[6] \div 16) % 2 = 1

\* Mutant: the flags are taken for the first byte.
Bug_getPCR(p) == SubSeq(p.data, 6, 11)

getPCR(p) == SubSeq(p.data, 7, 12)

\* printAdaptationField and printPCR: whether a clock reference is printed.
PrintsPCR(p) == hasAdaptationField(p) /\ PCR_flag(p) /\ p.data[5] > 0
=============================================================================
