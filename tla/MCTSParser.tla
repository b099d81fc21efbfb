----------------------------- MODULE MCTSParser -----------------------------
(* TSParser on packets of 3 bytes and an array of 8, the caller choosing how *)
(* much to read each time, for every stream of at most 8 bytes and for       *)
(* aligned streams of up to 12 bytes with sync bytes inside the packets.     *)
EXTENDS TSParser, FiniteSets

ShortFiles == UNION {[size : {n}, sync : SUBSET (0..(n - 1))] : n \in 0..8}

AlignedFiles ==
    {[size |-> n, sync |-> {p \in 0..(n - 1) : p % TS_SIZE \in r}] :
        n \in 9..12, r \in {{0}, {0, 1}, {0, 2}}}

MCFiles == ShortFiles \cup AlignedFiles
=============================================================================
