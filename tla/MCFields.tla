------------------------------ MODULE MCFields ------------------------------
(* Fields with packets of 28 bytes.                                         *)
EXTENDS Fields

\* A packet with an adaptation field of the bytes "field", without its length.
Packet(control, field, payload) ==
    LET bytes == <<71, 97, 0, 16 * control + 143>>
                   \o (IF control \in {2, 3} THEN <<Len(field)>> \o field ELSE <<>>) \o payload
    IN  SubSeq(bytes \o [k \in 1..28 |-> k + 100], 1, 28)

Pes(id, flags, length, rest) == <<0, 0, 1, id, 0, 0, 128, flags, length>> \o rest

Old == ToBytes({0, 1, 16, 20, 32, 33, 37}, 5)
Later == ToBytes({0, 2, 16, 21, 32, 36}, 5)

Units == {
    Pes(224, 128, 5, Old),                          \* PTS
    Pes(224, 192, 10, Later \o Old),                \* PTS and DTS
    Pes(224, 128, 7, Old \o <<255, 255>>),          \* stuffing
    Pes(224, 0, 0, <<>>),                           \* no stamps
    <<0, 0, 1, 191, 0, 4>>,                         \* private_stream_2
    <<0, 0, 2, 224>>}                               \* not a PES packet

Clock == [base |-> {0, 1, 8, 9, 16, 24, 25, 32}, ext |-> {0, 3, 8}]

MCPackets ==
    {[bytes |-> Packet(1, <<>>, u), clock |-> None] : u \in Units}
      \cup {[bytes |-> Packet(3, f, Pes(224, 128, 5, Old)), clock |-> None] : f \in {<<>>, <<64>>}}
      \cup {[bytes |-> Packet(3, <<16>> \o writePcrBits(Clock), Pes(224, 128, 5, Old)),
             clock |-> Clock]}
      \cup {[bytes |-> Packet(2, <<0>> \o [k \in 1..22 |-> 255], <<>>), clock |-> None]}

MCStamps == {{0, 14, 15, 16, 29}, {29, 30, 31}, {15, 32}}
=============================================================================
