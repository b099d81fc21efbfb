------------------------------ MODULE Cursors -------------------------------
(***************************************************************************)
(* The loops that go over bytes with a cursor and a chain of "if cur ==":  *)
(* those of TsWriter (src/TsWriter.cpp) over a descriptor, one turn a      *)
(* step, and MetadataAUWrapper::parse (mp2tp/src/tsmetadata.cpp) over the  *)
(* cells of a unit.  Together with them, one step for each table,          *)
(* NetworkInformationTable::parse.                                         *)
(*                                                                         *)
(* "out" is what was found: the names of fields, each with its place;      *)
(* cells; or the table.  The values and their wording are left out.        *)
(***************************************************************************)
EXTENDS Network

CONSTANTS
    Inputs,         \* records of kind, bytes, and what they were made from
    MaxCells        \* bound: cells that fit into memory

\* A cell: three bytes, the length of its data, the data; the length is a short.
IsCell(c) ==
    /\ c \in Seq(0..255)
    /\ Len(c) >= 5 /\ Len(c) < 32768
    /\ 256 * c[4] + c[5] = Len(c) - 5

\* The bytes of v from the place k on begin with those of c.
Holds(v, k, c) ==
    /\ k + Len(c) <= Len(v)
    /\ \A j \in 1..Len(c) : v[k + j] = c[j]

\* Descriptors and streams of a network information table whose lengths are such as
\* ten bits, and those of a value such as a byte, can state.
Desc == [tag : 0..255, value : Seq(0..255)]
Loop(ds) ==
    /\ ds \in Seq(Desc)
    /\ \A k \in 1..Len(ds) : Len(ds[k].value) <= 255
    /\ Len(DescBytes(ds)) < 1024

Number == 0..65535
IsStream(s) ==
    /\ s \in [transport_stream_id : Number, original_network_id : Number, descs : Seq(Desc)]
    /\ Loop(s.descs)

StreamBytes(s) ==
    Bytes2(s.transport_stream_id) \o Bytes2(s.original_network_id)
        \o Bytes2(61440 + Len(DescBytes(s.descs))) \o DescBytes(s.descs)

StreamsBytes(ss) == FlattenSeq([k \in 1..Len(ss) |-> StreamBytes(ss[k])])

\* The table of which the table_id is at the place "at": the numbers and the loops that
\* it states are those it was made from.
HoldsNIT(in, at) ==
    LET v == in.bytes
        end == at + 10 + Len(DescBytes(in.descs))
    IN  /\ Short(v, at + 3, 65536, 0) = in.network_id
        /\ Short(v, at + 8, 1024, 0) = Len(DescBytes(in.descs))
        /\ Holds(v, at + 10, DescBytes(in.descs))
        /\ Short(v, end, 1024, 0) = Len(StreamsBytes(in.streams))
        /\ Holds(v, end + 2, StreamsBytes(in.streams))

\* The bytes of a table are where the parser looks for it; it finds none at all behind
\* some pointer_fields, but behind one of 0.
ASSUME InputsAssumption ==
    \A in \in Inputs :
        /\ in.bytes \in Seq(0..255)
        /\ in.kind = "wrapper" =>
             /\ in.cells \in Seq(Seq(0..255))
             /\ \A k \in 1..Len(in.cells) : IsCell(in.cells[k])
             /\ Len(in.cells) = 0 => in.bytes = <<>>
             /\ Len(in.cells) = 1 => in.bytes = in.cells[1]
             /\ Len(in.cells) > 0 => Holds(in.bytes, 0, in.cells[1])
             /\ Len(in.cells) > 1 => Holds(in.bytes, Len(in.cells[1]), in.cells[2])
        /\ in.kind = "NIT" =>
             /\ Len(in.bytes) > 0
             /\ Loop(in.descs)
             /\ in.streams \in Seq([transport_stream_id : Number, original_network_id : Number,
                                    descs : Seq(Desc)])
             /\ \A k \in 1..Len(in.streams) : IsStream(in.streams[k])
             /\ in.bytes[1] = 0 => At(in.bytes, 1, 0) = 64
             /\ At(in.bytes, TableAt(in.bytes), 0) = 64 => HoldsNIT(in, TableAt(in.bytes))

VARIABLES
    input,          \* which of them, it does not change
    cur,
    format,         \* metadata_format
    carriage,       \* MPEG_carriage_flag, 0 to 3
    out,
    running,        \* the loop was not left
    idle            \* history: a turn of it changed nothing, and all turns after it

vars == <<input, cur, format, carriage, out, running, idle>>

\* The bytes of a descriptor are followed by zeros in val; behind those of a wrapper
\* is other memory.
Junk == 255
Byte(k) == At(input.bytes, k, 0)

Init ==
    /\ input \in Inputs
    /\ cur = 0
    /\ format = 0
    /\ carriage = 0
    /\ out = <<>>
    /\ running = TRUE
    /\ idle = FALSE

\* Mutant: the loop goes on until the cursor is where the bytes end.
Bug_More == running /\ cur # Len(input.bytes)

\* while (cur < desc.length()), while (pos < len)
More == running /\ cur < Len(input.bytes)

Of(kinds) == input.kind \in kinds

\* Mutant: the cursor is moved before the field is read.
Bug_Prints(name, n) ==
    /\ cur' = cur + n
    /\ out' = Append(out, <<name, cur + n>>)

Prints(name, n) ==
    /\ cur' = cur + n
    /\ out' = Append(out, <<name, cur>>)

\* The places of fields, if metadata_format is not 0xFF and if it is.
Place(short, long) == (cur = short /\ format # 255) \/ cur = long
AtService == Place(4, 7)
AtFlags == Place(5, 8)
AtProgram == Place(6, 9)

-----------------------------------------------------------------------------
\* The branches that printMetadataPointerDescriptor and printMetadataDescriptor have
\* in common.  The byte before the service_id is skipped if there is no identifier.
Identify ==
    /\ More
    /\ \/ cur = 0 /\ Prints("application_format", 2) /\ UNCHANGED format
       \/ cur = 2 /\ Prints("format", 1) /\ format' = Byte(2)
       \/ cur = 3 /\ format = 255 /\ Prints("format_identifier", 4) /\ UNCHANGED format
       \/ cur = 3 /\ format # 255 /\ cur' = 4 /\ UNCHANGED <<format, out>>
       \/ AtService /\ Prints("service_id", 1) /\ UNCHANGED format
    /\ UNCHANGED <<input, carriage, running, idle>>

PointerIdentify == Of({"pointer"}) /\ Identify
MetadataIdentify == Of({"metadata"}) /\ Identify

PointerFlags ==
    /\ Of({"pointer"})
    /\ More
    /\ AtFlags
    /\ Prints("flags", 1)
    /\ carriage' = (Byte(cur) \div 32) % 4
    /\ UNCHANGED <<input, format, running, idle>>

PointerProgram ==
    /\ Of({"pointer"})
    /\ More
    /\ AtProgram
    /\ IF carriage \in 0..2 THEN Prints("program_number", 2)
       ELSE cur' = cur + 2 /\ UNCHANGED out
    /\ UNCHANGED <<input, format, carriage, running, idle>>

PointerLocation ==
    /\ Of({"pointer"})
    /\ More
    /\ cur = 11
    /\ carriage = 1
    /\ Prints("location", 4)
    /\ UNCHANGED <<input, format, carriage, running, idle>>

PointerPrivate ==
    /\ Of({"pointer"})
    /\ More
    /\ cur > 11
    /\ Prints("private_data", Len(input.bytes) - cur)
    /\ UNCHANGED <<input, format, carriage, running, idle>>

\* decoder_config_flags; a configuration is printed by its length, whatever that of
\* the descriptor is.
MetadataFlags ==
    /\ Of({"metadata"})
    /\ More
    /\ AtFlags
    /\ Prints("flags", IF Byte(cur) \div 32 = 1 THEN 2 + Byte(cur + 1) ELSE 1)
    /\ UNCHANGED <<input, format, carriage, running, idle>>

STDField ==
    /\ Of({"STD"})
    /\ More
    /\ \/ cur = 0 /\ Prints("input_leak_rate", 3)
       \/ cur = 3 /\ Prints("buffer_size", 3)
       \/ cur = 6 /\ Prints("output_leak_rate", 3)
    /\ UNCHANGED <<input, format, carriage, running, idle>>

Registration ==
    /\ Of({"registration"})
    /\ More
    /\ IF cur = 0 THEN Prints("format_identifier", 4) ELSE Prints("additional", 1)
    /\ UNCHANGED <<input, format, carriage, running, idle>>

\* None of the branches of a loop is taken, or one that does nothing.
Stuck ==
    \/ Of({"pointer"}) /\ cur = 11 /\ carriage # 1
    \/ Of({"metadata"}) /\ cur \notin {0, 2, 3} /\ ~AtService /\ ~AtFlags
    \/ Of({"STD"}) /\ cur \notin {0, 3, 6}

Spin ==
    /\ More
    /\ Stuck
    /\ idle' = TRUE
    /\ UNCHANGED <<input, cur, format, carriage, out, running>>

Finish ==
    /\ running
    /\ ~More
    /\ running' = FALSE
    /\ UNCHANGED <<input, cur, format, carriage, out, idle>>

-----------------------------------------------------------------------------
\* Mutant: the length is taken to include the header.
Bug_CellSize(v, from, len) ==
    LET n == Short(v, from + 3, 65536, Junk)
        signed == IF n < 32768 THEN n ELSE n - 65536
    IN  IF len > 5 /\ signed \in 0..len THEN signed ELSE 0

\* MetadataAUCell::parse of the bytes at "from", with the length of all bytes.  The
\* length of a cell is a short: that of -5 or more gives a size, too.
CellSize(v, from, len) ==
    LET n == Short(v, from + 3, 65536, Junk)
        signed == IF n < 32768 THEN n ELSE n - 65536
    IN  IF len > 5 /\ signed + 5 \in 0..len THEN signed + 5 ELSE 0

\* The next cell is looked for where a unit that begins with this one would have it.
\* No size is an error, and parse() returns 0.
WrapperCell ==
    /\ Of({"wrapper"})
    /\ More
    /\ Len(out) < MaxCells
    /\ LET n == CellSize(input.bytes, cur, Len(input.bytes))
       IN  IF n > 0
           THEN /\ cur' = n
                /\ out' = Append(out, Take(input.bytes, cur, n, Junk))
                /\ UNCHANGED running
           ELSE /\ running' = FALSE
                /\ UNCHANGED <<cur, out>>
    /\ UNCHANGED <<input, format, carriage, idle>>

ParseNIT ==
    /\ Of({"NIT"})
    /\ running
    /\ out' = NITparse(input.bytes, Junk)
    /\ running' = FALSE
    /\ UNCHANGED <<input, cur, format, carriage, idle>>

Next ==
    \/ PointerIdentify
    \/ MetadataIdentify
    \/ PointerFlags
    \/ PointerProgram
    \/ PointerLocation
    \/ PointerPrivate
    \/ MetadataFlags
    \/ STDField
    \/ Registration
    \/ Spin
    \/ Finish
    \/ WrapperCell
    \/ ParseNIT

Spec == Init /\ [][Next]_vars /\ WF_vars(Next)

-----------------------------------------------------------------------------
(***************************************************************************)
(* Correctness.                                                            *)
(***************************************************************************)
length == Len(input.bytes)

\* Where printMetadataDescriptor is after flags that it takes from a place.
AfterFlags(place) ==
    IF Byte(place) \div 32 = 1 THEN place + 2 + Byte(place + 1) ELSE place + 1

\* The descriptors and wrappers over which a loop turns for ever: a pointer with private
\* data; metadata with anything after the flags, as a DSM-CC or private part is; an STD
\* descriptor that is too long; and a wrapper whose first cells are of one size.
Endless ==
    \/ /\ Of({"pointer"})
       /\ length > 11
       /\ (Byte(8) \div 32) % 4 # 1
    \/ /\ Of({"metadata"})
       /\ LET once == AfterFlags(IF Byte(2) = 255 THEN 8 ELSE 5)
          IN  /\ length > once
              /\ once \in {7, 8} => length > AfterFlags(8)
    \/ /\ Of({"STD"})
       /\ length > 9
    \/ /\ Of({"wrapper"})
       /\ Len(input.cells) > 1
       /\ Len(input.cells[1]) = Len(input.cells[2])

\* A wrapper whose first cells are of two sizes is read from a place inside a cell:
\* nothing is said of it.
Misread ==
    /\ Of({"wrapper"})
    /\ Len(input.cells) > 1
    /\ Len(input.cells[1]) # Len(input.cells[2])

\* Each loop comes to its end, whatever the descriptor, also if it ends inside a field;
\* but for those that are Endless, and over these it never does.
Ends ==
    /\ (~Endless /\ ~Misread) ~> ~running
    /\ [](Endless => running)

\* The fields of the descriptors as the tables of ISO/IEC 13818-1 place them, with a
\* metadata_format of 0xFF and no locator record.
Fields ==
    CASE Of({"pointer"}) /\ (Byte(8) \div 32) % 4 = 1 ->
           <<<<"application_format", 0>>, <<"format", 2>>, <<"format_identifier", 3>>,
             <<"service_id", 7>>, <<"flags", 8>>, <<"program_number", 9>>, <<"location", 11>>,
             <<"private_data", 15>>>>
      [] Of({"pointer"}) /\ (Byte(8) \div 32) % 4 # 1 ->
           <<<<"application_format", 0>>, <<"format", 2>>, <<"format_identifier", 3>>,
             <<"service_id", 7>>, <<"flags", 8>>, <<"program_number", 9>>, <<"private_data", 11>>>>
      [] Of({"metadata"}) ->
           <<<<"application_format", 0>>, <<"format", 2>>, <<"format_identifier", 3>>,
             <<"service_id", 7>>, <<"flags", 8>>>>
      [] Of({"STD"}) ->
           <<<<"input_leak_rate", 0>>, <<"buffer_size", 3>>, <<"output_leak_rate", 6>>>>
      [] Of({"registration"}) ->
           [k \in 1..length |-> IF k = 1 THEN <<"format_identifier", 0>> ELSE <<"additional", k + 2>>]
      [] OTHER -> <<>>

\* When a descriptor is printed, the fields that begin in it were, each once, from its
\* place and in order, and no other.  Named exceptions: another metadata_format, where the service_id and what is
\* after it are read one place too late; carriage 3, which has no program_number.
PrintsFields ==
    Of({"pointer", "metadata", "STD", "registration"}) /\ ~running =>
        \/ Of({"pointer", "metadata"}) /\ length > 2 /\ Byte(2) # 255
        \/ Of({"pointer"}) /\ (Byte(8) \div 32) % 4 = 3
        \/ /\ IsPrefix(out, Fields)
           /\ \A k \in DOMAIN Fields : k <= Len(out) <=> Fields[k][2] < length

\* The first two cells of a wrapper are found as they are, and a wrapper of one cell is
\* that cell and no other; but for one without data, which is refused.
FindsCells ==
    Of({"wrapper"}) =>
        /\ \A k \in 1..2 : k <= Len(out) => k <= Len(input.cells) /\ out[k] = input.cells[k]
        /\ ~running /\ Len(input.cells) = 1 =>
             (Len(input.cells[1]) > 5 <=> out = input.cells)

\* The descriptors before which there is none of the same tag.
Firsts(ds) == {k \in DOMAIN ds : \A j \in 1..(k - 1) : ds[j].tag # ds[k].tag}

\* "kept" has these and no others, in their order.
KeepsFirsts(kept, ds) ==
    \E at \in [1..Len(kept) -> Firsts(ds)] :
        /\ \A k \in Firsts(ds) : \E i \in 1..Len(kept) : at[i] = k
        /\ \A i, j \in 1..Len(kept) : i < j => at[i] < at[j]
        /\ \A i \in 1..Len(kept) : kept[i] = ds[at[i]]

\* A network information table without a pointer_field is found with its network; any
\* that is found has the network's descriptors, of each tag the first, and its streams
\* with all of theirs.
NetworkArrives ==
    Of({"NIT"}) /\ ~running =>
        /\ Byte(0) = 0 => out.ok /\ out.network_id = input.network_id
        /\ out.ok =>
             /\ KeepsFirsts(out.descs, input.descs)
             /\ out.streams = input.streams
=============================================================================
