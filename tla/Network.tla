------------------------------ MODULE Network -------------------------------
(***************************************************************************)
(* lcss::NetworkInformationTable (mp2tp/src/tsnit.cpp): what parse() finds *)
(* in a payload.  Bytes, cursors and descriptors are as in ProgramMap.     *)
(***************************************************************************)
EXTENDS ProgramMap

\* The streams of the loop from "from" to "to".
StreamsFrom(v, from, to, junk) ==
    LET inner(c) == Descriptors(v, c + 6, c + 6 + Short(v, c + 4, 1024, junk), junk)
    IN  Walk([c \in Nat |-> [transport_stream_id |-> Short(v, c, 65536, junk),
                             original_network_id |-> Short(v, c + 2, 65536, junk),
                             descs |-> inner(c).list]],
             [c \in Nat |-> inner(c).end], from, to).list

\* Mutant: descriptors are added although there is one of the tag.
Bug_KeepFirst(ds) == ds

\* Lines 143-146.  The descriptors of a stream are all kept.
KeepFirst(ds) == FoldLeft(addDescriptor, <<>>, ds)

\* The getter, which counts from a pointer_field that is not 0 like from one that is.
network_id(v, junk) == Short(v, v[1] + 4, 65536, junk)

\* parse(), of which section_length only finds the CRC.
NITparse(v, junk) ==
    LET offset == TableAt(v)
        ds == Descriptors(v, offset + 10, offset + 10 + Short(v, offset + 8, 1024, junk), junk)
        loopEnd == ds.end + 2 + Short(v, ds.end, 1024, junk)
    IN  IF At(v, offset, junk) # 64
        THEN [ok |-> FALSE, network_id |-> 0, descs |-> <<>>, streams |-> <<>>]
        ELSE [ok |-> TRUE,
              network_id |-> network_id(v, junk),
              descs |-> KeepFirst(ds.list),
              streams |-> StreamsFrom(v, ds.end + 2, loopEnd, junk)]
=============================================================================
