----------------------------- MODULE MCReceivers -----------------------------
(* Receivers with packets whose payload is 24 bytes, and four streams.      *)
EXTENDS Receivers

Bytes24(b) == SubSeq(b \o [k \in 1..48 |-> 255], 1, 24)

Default == <<0, 2, 176, 13, 0, 1, 193, 0, 0, 225, 0, 240, 0, 0, 0, 0, 0>>

\* The packets of a section of up to 48 bytes.
Psi(start, bytes, elmts, fair) ==
    [start |-> start, data |-> Bytes24(bytes), pes |-> FALSE, id |-> 0,
     table |-> elmts, fair |-> fair]

Pmt(elmts) ==
    LET b == serialize(FoldLeft(addProgramElement,
                                parse(Add(NewTable, Default), 0).table, elmts))
    IN  <<Psi(TRUE, b, elmts, TRUE)>>
          \o (IF Len(b) > 24 THEN <<Psi(FALSE, SubSeq(b, 25, Len(b)), <<>>, FALSE)>> ELSE <<>>)

\* With a pointer_field of 1, and a byte of stuffing.
PmtAt1(elmts) == <<Psi(TRUE, <<1, 255>> \o Tail(Pmt(elmts)[1].data), elmts, FALSE)>>

Pat(programs) ==
    LET add(t, p) == addProgram(t, p[1], p[2])
    IN  <<Psi(TRUE, PATserialize(FoldLeft(add, NewPAT, programs)), <<>>, FALSE)>>

\* A network information table of two packets.
Nit == <<Psi(TRUE, <<0, 64, 240, 40>>, <<>>, FALSE), Psi(FALSE, <<>>, <<>>, FALSE)>>

\* A unit of n packets, of which the first holds the PES header and nothing else
\* if n is 0.
Unit(pid, u, n, id) ==
    IF n = 0
    THEN <<[start |-> TRUE, data |-> <<>>, pes |-> TRUE, id |-> id,
            table |-> <<>>, fair |-> FALSE]>>
    ELSE [k \in 1..n |-> [start |-> k = 1, data |-> <<[pid |-> pid, unit |-> u, part |-> k]>>,
                          pes |-> k = 1, id |-> id, table |-> <<>>, fair |-> FALSE]]

Units(pid, sizes, ids) ==
    FlattenSeq([u \in 1..Len(sizes) |-> Unit(pid, u, sizes[u], ids[u])])

Video(pid) == [type |-> 27, pid |-> pid, descs |-> <<>>]
Audio(pid) == [type |-> 15, pid |-> pid, descs |-> <<>>]
Klv(pid) == [type |-> 6, pid |-> pid, descs |-> <<[tag |-> 5, value |-> <<75>>]>>]
SyncKlv(pid) == [type |-> 21, pid |-> pid, descs |-> <<[tag |-> 38, value |-> <<1, 2, 3, 75>>]>>]
Exi(pid) == [type |-> 6, pid |-> pid, descs |-> <<[tag |-> 5, value |-> <<69>>]>>]
Hdmv(pid) == [type |-> 27, pid |-> pid, descs |-> <<[tag |-> 5, value |-> <<72>>]>>]
Mpeg2(pid) == [type |-> 2, pid |-> pid, descs |-> <<>>]

\* One program with video and metadata, whose table takes two packets and is sent
\* twice; one of the units is empty.
OneProgram ==
    0 :> Pat(<<<<1, 16>>>>)
    @@ 16 :> Pmt(<<Video(40), SyncKlv(41)>>) \o Pmt(<<Video(40), SyncKlv(41)>>)
    @@ 40 :> Units(40, <<2, 0, 1, 2>>, <<224, 224, 224, 224>>)
    @@ 41 :> Units(41, <<1, 2, 1>>, <<252, 252, 252>>)

\* Two programs with tables of two packets and a network information table, and
\* audio in both, which goes to one file.
TwoPrograms ==
    0 :> Pat(<<<<1, 16>>, <<0, 17>>>>) \o Pat(<<<<1, 16>>, <<2, 32>>>>)
    @@ 16 :> Pmt(<<Klv(40), Audio(41)>>) \o Pmt(<<Klv(40), Audio(41)>>)
    @@ 32 :> Pmt(<<Mpeg2(50), Audio(51), Hdmv(52)>>)
    @@ 17 :> Nit
    @@ 41 :> Units(41, <<2, 1>>, <<192, 192>>)
    @@ 51 :> Units(51, <<1, 2>>, <<192, 192>>)

\* A table of 181 bytes (here 21), one with a pointer_field, and one that changes
\* the type of a PID; metadata that is sent in both ways.
Changing ==
    0 :> Pat(<<<<1, 16>>, <<2, 32>>>>)
    @@ 16 :> Pmt(<<Exi(40)>>) \o Pmt(<<Audio(40)>>) \o PmtAt1(<<Video(41)>>)
    @@ 32 :> Pmt(<<Klv(41)>>) \o Pmt(<<Klv(41)>>)
    @@ 40 :> Units(40, <<1, 2, 1>>, <<189, 189, 189>>)
    @@ 41 :> Units(41, <<1, 1, 1>>, <<252, 189, 252>>)

\* A private section, on a PID of no table, besides.
Private ==
    0 :> Pat(<<<<1, 16>>>>)
    @@ 16 :> Pmt(<<Hdmv(40)>>)
    @@ 40 :> Units(40, <<2, 2>>, <<224, 224>>)
    @@ 60 :> <<Psi(TRUE, <<0, 252, 48, 17>>, <<>>, FALSE)>>

MCFeeds == {OneProgram, TwoPrograms, Changing, Private}
=============================================================================
