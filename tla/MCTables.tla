------------------------------ MODULE MCTables ------------------------------
(* Tables with packets whose payload is 24 bytes: a table of one element    *)
(* takes one packet, of two or three elements two or three.                 *)
EXTENDS Tables

Default == <<0, 2, 176, 13, 0, 1, 193, 0, 0, 225, 0, 240, 0, 0, 0, 0, 0>>

\* The same table with a descriptor of the program, and with it twice.
WithInfo(n) ==
    <<0, 2, 176, 13 + 3 * n, 0, 1, 193, 0, 0, 225, 0, 240, 3 * n>>
      \o FlattenSeq([k \in 1..n |-> <<5, 1, 7>>]) \o <<0, 0, 0, 0>>

MCSeeds == {Default, WithInfo(1), WithInfo(2)}

Desc(tag, n) == [tag |-> tag, value |-> [k \in 1..n |-> tag]]
Video == [type |-> 27, pid |-> 257, descs |-> <<>>]
Klv == [type |-> 6, pid |-> 258, descs |-> <<Desc(5, 1)>>]
Audio == [type |-> 15, pid |-> 259, descs |-> <<Desc(10, 4), Desc(5, 0)>>]

\* With these a section states 1023 bytes, the most it can, and 1046.
Large(n) == [type |-> 6, pid |-> 260,
             descs |-> [k \in 1..3 |-> Desc(k, 255)] \o <<Desc(4, n)>>]
MCSizes == 0..62 \cup {1027, 1050}
MCElements == {Video, Klv, Audio, Large(232), Large(255)}
MCExtra == {Desc(5, 1)}
MCPrograms == {[program |-> 1, pid |-> 16 * k] : k \in 1..4}
=============================================================================
