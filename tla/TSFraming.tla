------------------------------ MODULE TSFraming ------------------------------
(***************************************************************************)
(* What lcss::TSParser promises (mp2tp/include/mp2tp/tsprsr.h): it         *)
(* decomposes a byte stream into transport packets.  Every packet handed   *)
(* to onPacket is a run of TS_SIZE consecutive bytes of the stream that    *)
(* begins at a sync byte, and packets come in stream order and never       *)
(* overlap.  Nothing is promised here of the bytes between two packets.    *)
(*                                                                         *)
(* The stream is a record: its size, and the set of positions that hold    *)
(* the sync byte 0x47.  A packet is the sequence of the positions of its   *)
(* bytes, so a byte that is duplicated, stale or out of place shows.       *)
(***************************************************************************)
EXTENDS Integers, Sequences

CONSTANTS
    TS_SIZE,    \* bytes of a transport packet: 188 in the code
    Files       \* the streams considered

VARIABLES
    file,       \* the stream: [size |-> Nat, sync |-> set of positions]
    packets     \* the packets handed to onPacket so far, oldest first

vars == <<file, packets>>

\* The packet that begins at position a of the stream.
Frame(a) == [x \in 1..TS_SIZE |-> a + x - 1]

\* The first position after the last packet handed over.
Mark == IF packets = <<>> THEN 0 ELSE packets[Len(packets)][1] + TS_SIZE

Init ==
    /\ file \in Files
    /\ packets = <<>>

\* One onPacket call.
OnPacket(a) ==
    /\ a >= Mark
    /\ a + TS_SIZE <= file.size
    /\ packets' = Append(packets, Frame(a))
    /\ UNCHANGED file

Next == \E a \in file.sync : OnPacket(a)

Spec == Init /\ [][Next]_vars
=============================================================================
