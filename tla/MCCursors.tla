----------------------------- MODULE MCCursors ------------------------------
(***************************************************************************)
(* The descriptors, wrappers and tables for TLC.                           *)
(***************************************************************************)
EXTENDS Cursors

Descriptor(kind, bytes) == [kind |-> kind, bytes |-> bytes]
Counting(n) == [k \in 1..n |-> k]
With(bytes, place, value) ==
    [k \in DOMAIN bytes |-> IF k = place + 1 THEN value ELSE bytes[k]]

\* Flags at each place where they are looked for; lengths that end between the fields,
\* inside each of them and after all.
MCPointers ==
    { Descriptor("pointer", With(With(With(Counting(n), 2, f), 5, 32 * c), 8, 32 * c)) :
        n \in 0..18, f \in {63, 255}, c \in 0..3 }

\* A configuration of 0 to 2 bytes makes the loop come back to the places 7 and 8.
MCMetadata ==
    { Descriptor("metadata",
                 With(With(With(With(With(Counting(n), 2, f), 5, 32 * d), 6, k), 8, 32 * d), 9, k)) :
        n \in 0..13, f \in {63, 255}, d \in {0, 1, 4}, k \in 0..2 }

MCPlain ==
    { Descriptor("STD", Counting(n)) : n \in 0..11 }
        \cup { Descriptor("registration", Counting(n)) : n \in {0, 4, 5, 7} }

\* Cells of a metadata access unit: service_id, sequence_number, flags, length, data.
MCCell(n, data) == <<15, n, 223, 0, Len(data)>> \o data

Wrapper(cells) ==
    [kind |-> "wrapper", cells |-> cells, bytes |-> FoldLeft(LAMBDA a, b : a \o b, <<>>, cells)]

MCWrappers ==
    { Wrapper(<<MCCell(0, <<1, 2>>)>>), Wrapper(<<MCCell(0, <<>>)>>),
      Wrapper(<<MCCell(0, <<1>>), MCCell(1, <<2>>)>>),
      Wrapper(<<MCCell(0, <<>>), MCCell(1, <<>>)>>),
      Wrapper(<<MCCell(0, <<1>>), MCCell(1, <<2, 3, 4>>)>>),
      Wrapper(<<MCCell(0, <<1, 2>>), MCCell(1, <<>>), MCCell(2, <<3>>)>>) }

Two(n) == <<n \div 256, n % 256>>
MCDescs(ds) == FoldLeft(LAMBDA a, d : a \o <<d.tag, Len(d.value)>> \o d.value, <<>>, ds)
MCStream(s) ==
    Two(s.transport_stream_id) \o Two(s.original_network_id)
        \o <<240, Len(MCDescs(s.descs))>> \o MCDescs(s.descs)

\* A network information table behind a pointer_field: the table begins where the
\* parser looks for it or, behind <<1, 255>>, where ISO/IEC 13818-1 has it.
MCNIT(pointer, network, ds, streams) ==
    LET loop == FoldLeft(LAMBDA a, s : a \o MCStream(s), <<>>, streams)
        body == Two(network) \o <<193, 0, 0, 240, Len(MCDescs(ds))>> \o MCDescs(ds)
                    \o <<240, Len(loop)>> \o loop \o <<9, 9, 9, 9>>
    IN  [kind |-> "NIT", network_id |-> network, descs |-> ds, streams |-> streams,
         bytes |-> pointer \o <<64, 240, Len(body)>> \o body]

MCDesc(t, v) == [tag |-> t, value |-> v]
MCDescLists ==
    { <<>>, <<MCDesc(64, <<78>>)>>, <<MCDesc(64, <<78>>), MCDesc(65, <<>>), MCDesc(64, <<79, 80>>)>> }
MCTransport(ds) == [transport_stream_id |-> 258, original_network_id |-> 65533, descs |-> ds]

MCTablesOfNetworks ==
    { MCNIT(p, 12345, ds, ss) :
        p \in {<<0>>, <<1>>, <<1, 255>>, <<2, 255>>}, ds \in MCDescLists,
        ss \in {<<>>} \cup { <<MCTransport(a)>> : a \in MCDescLists }
                 \cup { <<MCTransport(a), MCTransport(<<>>)>> : a \in MCDescLists } }

MCInputs == MCPointers \cup MCMetadata \cup MCPlain \cup MCWrappers \cup MCTablesOfNetworks
=============================================================================
