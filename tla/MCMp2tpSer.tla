----------------------------- MODULE MCMp2tpSer -----------------------------
(* The program on packets of 4 bytes, blocks of two packets and time codes   *)
(* of 2 bytes: every stream of at most 8 bytes, and streams of up to six     *)
(* packets with and without time codes, cut short in every way, with sync    *)
(* bytes in payloads and time codes.                                         *)
EXTENDS Mp2tpSer

ShortFiles == UNION {[size : {n}, sync : SUBSET (0..(n - 1))] : n \in 0..8}

\* Periodic streams: r holds the offsets of sync bytes in a period.
Periodic(period, n, r) == [size |-> n, sync |-> {p \in 0..(n - 1) : p % period \in r}]

MCFiles ==
    ShortFiles
      \cup {Periodic(4, n, r) : n \in 10..25, r \in {{0}, {0, 1}, {0, 2}, {0, 3}}}
      \cup {Periodic(6, n, r) : n \in 10..37, r \in {{2} \cup x : x \in SUBSET {1, 3, 4, 5}}}
=============================================================================
