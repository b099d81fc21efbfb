----------------------------- MODULE PESHeader ------------------------------
(***************************************************************************)
(* lcss::PESPacket (mp2tp/src/tspes.cpp): the header of a PES packet, read *)
(* from and written to the payload of a packet.  A method is an operator   *)
(* from records to records; bytes are as in Payloads, time stamps as in    *)
(* TimeStamps.                                                             *)
(***************************************************************************)
EXTENDS Payloads, TimeStamps

NewPES ==
    [packet_start_code_prefix |-> <<0, 0, 0>>, stream_id |-> 0, PES_packet_length |-> 0,
     flags1 |-> 0, flags2 |-> 0, PES_header_data_length |-> 0,
     PTS |-> <<0, 0, 0, 0, 0>>, DTS |-> <<0, 0, 0, 0, 0>>]

\* The stream_ids after whose PES_packet_length there is no more header.
Bare == {188, 190, 191, 240, 241, 255, 242, 248}

hasPacketStartCodePrefix(pes) == pes.packet_start_code_prefix = <<0, 0, 1>>

\* flags2_ & PTS_DTS_MASK, where two is 0xC0, one 0x80.
TimeFlags(pes) == pes.flags2 \div 64
Both == 3
OnlyPTS == 2

\* Mutant: the second time stamp is read where the first is.
Bug_parsePTS(pes, s, cur, junk) ==
    CASE TimeFlags(pes) = Both -> [pes EXCEPT !.PTS = Take(s, cur, 5, junk),
                                              !.DTS = Take(s, cur, 5, junk)]
      [] TimeFlags(pes) = OnlyPTS -> [pes EXCEPT !.PTS = Take(s, cur, 5, junk)]
      [] OTHER -> pes

parsePTS(pes, s, cur, junk) ==
    CASE TimeFlags(pes) = Both -> [pes EXCEPT !.PTS = Take(s, cur, 5, junk),
                                              !.DTS = Take(s, cur + 5, 5, junk)]
      [] TimeFlags(pes) = OnlyPTS -> [pes EXCEPT !.PTS = Take(s, cur, 5, junk)]
      [] OTHER -> pes

\* parse(): how many bytes it read, and the header.  It reads nothing if there is a
\* stream_id from an earlier call, and keeps what this header does not have.
PESparse(pes, s, junk) ==
    LET prefixed == [pes EXCEPT !.packet_start_code_prefix = Take(s, 0, 3, junk)]
        named == [prefixed EXCEPT !.stream_id = At(s, 3, junk),
                                  !.PES_packet_length = Short(s, 4, 65536, junk)]
        flagged == [named EXCEPT !.flags1 = At(s, 6, junk), !.flags2 = At(s, 7, junk),
                                 !.PES_header_data_length = At(s, 8, junk)]
    IN  CASE pes.stream_id # 0 -> [read |-> 0, pes |-> pes]
          [] pes.stream_id = 0 /\ ~hasPacketStartCodePrefix(prefixed) ->
               [read |-> 0, pes |-> prefixed]
          [] pes.stream_id = 0 /\ hasPacketStartCodePrefix(prefixed) /\ named.stream_id \in Bare ->
               [read |-> 6, pes |-> named]
          [] OTHER -> [read |-> 9 + flagged.PES_header_data_length,
                       pes |-> parsePTS(flagged, s, 9, junk)]

\* Mutant: the stamps are cleared, and the stream_id is not.
Bug_reset(pes) == [pes EXCEPT !.PTS = <<0, 0, 0, 0, 0>>, !.DTS = <<0, 0, 0, 0, 0>>]

reset(pes) == [pes EXCEPT !.stream_id = 0]

pts(pes) == IF TimeFlags(pes) \in {Both, OnlyPTS} THEN decodeTimestamp(pes.PTS) ELSE {}
dts(pes) == IF TimeFlags(pes) = Both THEN decodeTimestamp(pes.DTS) ELSE {}

setPTS(pes, ts) ==
    [pes EXCEPT !.PES_header_data_length = 5, !.flags2 = 128, !.PTS = encodeTimestamp(ts)]

setDTS(pes, ts) ==
    [pes EXCEPT !.PES_header_data_length = 10, !.flags2 = 192, !.DTS = encodeTimestamp(ts)]

\* serialize(): the bytes it writes, whatever kind of header was parsed; stuffing is
\* not among them.
PESserialize(pes) ==
    pes.packet_start_code_prefix \o <<pes.stream_id>> \o Bytes2(pes.PES_packet_length)
      \o <<pes.flags1, pes.flags2, pes.PES_header_data_length>>
      \o (CASE TimeFlags(pes) = Both -> pes.PTS \o pes.DTS
            [] TimeFlags(pes) = OnlyPTS -> pes.PTS
            [] OTHER -> <<>>)
=============================================================================
