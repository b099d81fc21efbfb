----------------------------- MODULE MCTSPacker -----------------------------
(* TSPacker with the access units whose lengths are around a multiple of a  *)
(* packet's payload, with every combination of time stamps, and one whose   *)
(* PES_packet_length would not fit into 16 bits.                            *)
EXTENDS TSPacker

CONSTANT Lengths

\* Every length at which a branch is taken or left, with a clock reference or
\* without: one packet or two (163..175), two or three (342..370).
MCLengths == {0, 1} \cup 161..176 \cup 342..362

MCAccessUnits ==
    [length : Lengths, pts : BOOLEAN, dts : BOOLEAN, video : {FALSE}]
      \cup [length : {529}, pts : {TRUE}, dts : {FALSE}, video : BOOLEAN]
      \cup [length : {65530}, pts : {TRUE}, dts : {FALSE}, video : {FALSE}]
=============================================================================
