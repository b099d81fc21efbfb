# A verification development for mp2tp

mp2tp is a C++ library that reads and writes MPEG-2 transport streams, with a
command line program (`mp2tpser`) that reports on a stream and a few programs
that try the library out. Everything runs in one thread and nothing is
persisted: what is hard here is not concurrency but state that is carried from
one call to the next while the input is cut in arbitrary places, sizes that are
computed in several places and have to agree, unsigned arithmetic at
boundaries, and loops that must advance.

## Inventory

| Part | Code | State | Operations | Interacts with |
|---|---|---|---|---|
| TSParser | `mp2tp/src/tsprsr.cpp` | `_buffer`, `_packetSize`, `_count` | `parse`, `setPacketSize`, `packetCount` | calls `onPacket` of its subclass |
| mp2tpser | `src/main.cpp` | block array, bytes read, limit | the read loop | feeds a TsDecoder (a TSParser) block by block |
| TsDecoder | `src/TsDecoder.cpp` | `_pat`, one `_pmt` for all programs | `onPacket` | reads PAT and PMT, drives TsWriter |
| TsWriter | `src/TsWriter.cpp` | the output stream | one printer per table, packet, descriptor | cursors over descriptors |
| TransportPacket | `mp2tp/src/tspckt.cpp`, `tsadptfd.cpp` | 188 bytes and a length | field getters and setters, `insert`, `push_back`, `getData`, `setPayload` | wraps what TSParser and TSPacker cut |
| TSPacker | `mp2tp/src/tspacker.cpp` | none; the caller's continuity counter | `packetize` (twice), `packetizePES` | AccessUnit in, TransportPackets out |
| AccessUnit | `mp2tp/src/AccessUnit.cpp` | bytes, time stamps, stream id | container operations | |
| PESPacket | `mp2tp/src/tspes.cpp` | header fields, kept from packet to packet | `parse`, `reset`, `serialize`, PTS and DTS | |
| PAT, PMT | `mp2tp/src/tspat.cpp`, `tspmt.cpp` | programs; elements and descriptors; partial section | `parse`, `add`/`canParse`, `addProgram...`, `remove...`, `serialize` | TsDecoder, demultiplexer |
| Metadata | `mp2tp/src/tsmetadata.cpp` | a cursor over cells | `parse` | TsWriter |
| NIT | `mp2tp/src/tsnit.cpp` | a cursor over a table | `parse` | |
| mp2tdmux | `tests/mp2tdmux/src` | `pat_`, `pmt_`, PID to stream type; one sample per kind of stream | `onPacket` | TSParser, PAT, PMT, PES |
| modifytest, packtest | `tests/...` | | read loops, time stamps changed in place, one call of `packetizePES` | TSParser, TSPacker, PESPacket |

What is hard in each part, and the property that makes it correct:

* **TSParser.** A packet may be cut by a block boundary anywhere; then it is
  completed in `_buffer` and delivered later. Whatever the cuts: whole packets
  from sync bytes, in order, no byte twice, none from an earlier read. On a
  stream without defects: all of them. A strict verdict must mean something.
* **mp2tpser.** When the input ends on a block boundary one more, empty block
  is parsed; the verdict of a block decides whether the program goes on.
* **TSPacker.** Five shapes of packet, three sizes of header and two measures of
  "fits" must agree at every length; what a reader finds by the adaptation
  field's length must be the bytes that were written. For sections there are two
  more forms, with measures of their own.
* **PAT, PMT.** Lengths and CRC follow every change; sections over several
  packets are put together in order; what is written and read is what was built.
* **TsDecoder, mp2tdmux.** Packets of several tables and streams interleave, and
  the state that collects them is shared: one table for all programs, one sample
  for all streams of a kind. Tables are reported as sent, and each stream's
  access units come back whole, in order, with that stream's type.
* **PESPacket, TransportPacket.** Fields share bytes, an object is used again for
  the next packet, and setters are called in any order: nothing changes but what
  was asked for. A 33-bit time stamp survives being cut into 3, 15 and 15 bits.
* **Metadata, NIT, TsWriter's descriptors.** A cursor advances, ends, and finds
  every field although the lengths come from the data.

## Modules

| Module | What it is |
|---|---|
| `TSFraming` | abstract: what TSParser promises, in one action |
| `TSParser` | `parse` with its state, one action per turn of its loops, and any caller that reads block by block into one array |
| `Mp2tpSer` | the program's loop; it extends TSParser and is the caller there |
| `TSPacker` | `packetizePES`, one action per branch of its loop, and a multiplexer that calls it again and again with one counter |
| `Payloads` | bytes, cursors over them, reads beyond their end |
| `ProgramMap`, `ProgramAssociation` | the PMT and the PAT as records, their methods as operators |
| `SectionPacker` | both `packetize` functions, and `getData` of what they make |
| `Tables` | composes these: a multiplexer builds tables and sends them, a receiver reads them |
| `ElementaryStreams` | abstract: what a demultiplexer promises |
| `Decoder`, `Demux` | `TsDecoder::onPacket` and `MP2TFileDemux::onPacket`, one action per branch |
| `Receivers` | one stream given to both, the packets of its PIDs in any order |
| `TimeStamps` | time stamps and clock references as sets of bits, with each encoder and decoder in the code |
| `PESHeader`, `TransportPacket` | the two classes as records, their methods as operators |
| `Fields` | a program like modifytest that calls those methods in any order |
| `Network` | `NetworkInformationTable::parse` |
| `Cursors` | the loops over descriptors, one turn a step, and over metadata cells |
| `TSParserProofs`, `Mp2tpSerProofs`, `TSPackerProofs`, `TablesProofs`, `ReceiversProofs`, `FieldsProofs`, `CursorsProofs` | theorems |
| `DataProofs` | lemmas about sums, flattened sequences and `Walk`, for the others |
| `MC...` | constants for TLC |

### TSParser

A byte is modelled by its **position in the stream**. So `_buffer` and the
packets handed over are sequences of positions, and whether a byte was lost,
doubled or left over from an earlier read is visible. A stream is its size and
the set of positions that hold the sync byte; no other value of a byte matters
to `parse`. `memblock` is the caller's array, which is reused: cells beyond the
last read keep what they held, which matters because the loop of lines 48-51
reads past the block when the block is too short.

| Action | `tsprsr.cpp` |
|---|---|
| `Call` | the caller's read and the entry of `parse` (`main.cpp` 101-105; the same loop is in the two test programs) |
| `Enter` | 45-52, completing a packet |
| `Skip` | 57-68, no sync byte here |
| `DeliverInPlace`, `DeliverBuffered` | 70-96, by whether `_buffer` is empty; both include the strict check of 72-83 |
| `Carry` | 97-102 |
| `Return` | 105-113 |

The `else if` of line 98 is the negation of line 70, so the turns are
exhaustive. `_count` is the length of `packets`. The caller reads at least
`minRead` bytes at a time unless the input ends; properties that need long
reads say so. `SetPacketSize` happens before the first read, as every caller in
the repository does it. `h` and `i` are never reset when parse returns, being
locals: `Call` sets them.

### Mp2tpSer

`Start`, `ReadBlock`, `EndOfInput`, `Reject` and `Continue` are `main.cpp` 95-125;
`Parsing` lets the parser run. `errors` collects the values of `bytesRead` with
which a "Parsing error" was printed.

### TSPacker

A packet under construction is described by what was written to it: `front`,
the bytes before the access unit's; `afLen`, what its adaptation field length
byte says; `pesHeader`, `pesLen`, `pcr`; and the range `from`..`to` of the access
unit. `PayloadStart` is `TransportPacket::data_byte`, that is, where a *reader*
looks for the payload, which knows nothing of `front`. `Exact` compares the two.
One action is one branch of the loop of 237-507; `Fill` takes the byte-by-byte
branch for as long as it would be taken. Sizes are those of the code (188), the
lengths of access units are a parameter, and the 16-bit computations are taken
modulo 65536.

### Tables: ProgramMap, ProgramAssociation, SectionPacker

A byte is a number here, as the lengths in the data steer the code. A class is a
record of its members and a method an operator from records to records: `parse`
gives the table after it and its verdict, and what it leaves behind when it
refuses is part of that (`Refused`). `Walk` is the loop with a cursor that these
classes share; it takes the place of the loops' assignments to `cur`. A CRC is
four constant bytes on the wire, and `crc` has the bytes that it was computed
over: whether it is up to date is visible, its value is not. A read beyond the
end of a vector gives `junk`, which the runs choose.

`Tables` begins with any seed section, adds, removes and edits elements in any
order, and at any time serializes, packetizes in either form and lets the
receiver read the packets, each followed by a call of `parse` as in
`TsDecoder::onPacket`. The three properties besides the types: `Coherent` (length
and CRC after any sequence of changes), `TableArrives` and `ProgramsArrive` (what
is read is what was built; the sizes for which that does not hold are named in
`Carried`, among them those for which line 160 of `tspacker.cpp` would write
until memory ends, a state of its own, "endless"). A table is `Readable` if it states
its length, which one changed in place does not, and those of its values: the length
of a descriptor is one byte, and of a value of 256 bytes and more what `serialize`
writes is cut to that length modulo 256.

### Receivers: Decoder, Demux

`Receivers` gives one stream to both programs. `feed` has the packets of each PID
in order, and the next packet may be of any PID, so every interleaving of tables
and streams is a behaviour. The two receivers are instances of their modules
over the variables of `Receivers`; neither knows what the stream means. What it
means is in the packets for the properties' sake only: `table` (the elements a
section is about) and `fair` (its pointer_field is 0).

| Action | Code |
|---|---|
| `Decoder`: `OnPAT`, `OnTable`, `OnRestOfTable`, `OnOther` | `TsDecoder.cpp` 23-77 |
| `Demux`: `OnPAT`, `OnTable`, `OnUnit`, `OnRest`, `OnOther` | `MP2TFileDemux.cpp` 40-163 |
| `Demux`: `initTypeMap`, `TypeOf`, `FormatOf`, `IsHDMV` | `MP2TFileDemux.cpp` 166-243 |

The branches of `OnUnit` for the kinds of stream are one action, as they differ in
the file only (`FileOf`), and in `Finish` for metadata. `decSeen` and `dmxSeen`
are history: which tables each receiver was in a position to see whole. They are
two, because the two ask different questions of a packet that starts a unit (the
demultiplexer lets program number 0, a network information table, clear the
table under construction).

`WritesUnits` is the refinement: the files of `Demux`, as `Written` reads them,
are the files of `ElementaryStreams`, for every file to which one stream belongs.
Where two streams share a file, `KeepsOrder` says what is left of the promise.

### Fields: TransportPacket, PESHeader, TimeStamps

Here too a class is a record. `Fields` calls `parse`, `reset`, `setPTS`, `setDTS`,
`setPayload` (`WriteBack`), `setPID`, `incrementCC` and `push_back` in any order,
modifytest's being one; every call is an action. Time stamps are sets of bit
positions, so that 33 bits need no large numbers, and an encoder is where each
bit goes. The code has three encoders (`tspes.cpp`, the packer's `writePTS` and
`writePcrBits`) and two decoders (`pts()`, TsWriter's `printPCR`), which do not
agree on every bit: `StampsValue` and `ClockArrives` name the bits on which they
do not.

### Cursors and Network

The loops of TsWriter over a descriptor are chains of `if (cur == ...)` in a
`while`; each branch is an action, and `Spin` is a turn in which none of them
changes anything. `WrapperCell` is a turn of the loop over metadata cells, which
sets its cursor to the size of the cell found instead of moving it on; there the
vector grows until memory ends, for which `MaxCells` stands. `Endless` names
the inputs over which a loop has no end: `Ends` says that it is those and no
others. Among them are descriptors that ISO/IEC 13818-1 allows, such as a
metadata pointer descriptor with private data and no locator record. `ParseNIT` is
one step, as nothing can come between.

## What is checked

| Run | Result | What it shows |
|---|---|---|
| `MCTSParser` | holds | `Decomposes`: every behaviour is one of `TSFraming`. `NoLoss`: a defect-free stream loses nothing if blocks hold 2 `TS_SIZE` - 1 bytes. `StrictSpacing`: a strict *true* means packets `_packetSize` apart, up to the end of the block. `StrictAccepts`: a defect-free block is accepted. `ParseReturns`. |
| `MCMp2tpSer` | holds | `AcceptsStreams`, `GivesEveryPacket`, `AVCHDGivesAllButLast`, `StopsAtLimit`, `Terminates` |
| `MCTSPacker` | holds | `RebuildsUnit`: a reader gets the access unit back. `AllOrNothing`, `KeepsCounter`, `StatesLength`, `CarriesClock`, `Returns` |
| `MCTables` | holds | `Coherent`, `TableArrives`, `ProgramsArrive` |
| `MCReceivers` | holds | `ReportsTables`: tables are reported as they were sent, in order, unless the rest of one comes after another. `ReportsWhole`: a table that arrives in one piece is reported, whatever came before. `LearnsTypes`, `WritesUnits` (implements `ElementaryStreams`), `KeepsOrder`, `UnwrapsCells` |
| `MCFields` | holds | `HeaderHolds`, `PayloadStays`, `KeepsUnit`: calls change what they name and nothing else. `StampsArrive`, `StampsValue`, `ClockArrives`: what was written is read. `ReadsLikeNew`: no time stamp of an earlier packet is left after `reset` |
| `MCCursors` | holds | `PrintsFields`, `FindsCells`, `NetworkArrives`; `Ends`: the loops end, but for the inputs `Endless`, over which they do not |
| `MCTSParserStrict` | violated | a strict `parse` accepts a misplaced sync byte after a packet at index 0 |
| `MCMp2tpSerReject` | violated | a valid one-block stream is refused |
| `MCMp2tpSerAVCHD` | violated | the last packet of a stream with time codes may stay in `_buffer` |
| `MCTSPackerClock` | violated | a clock reference is lost when one packet is enough |
| `MCTSPackerCount` | violated | an access unit is dropped after the counter moved |

Where the code departs from its documentation, or from what a reader of it would
expect, the passing properties name the exception, as a definition of its own
where it has a shape (`NeverFull`, `ComesTo183`, `ShortPacket`, `Single` of
TSPacker; `Carried`, `LostInfo` of Tables; `TooEarly` of Receivers; `Kept` of
Fields; `Endless`, `Misread` of Cursors) and in the property's comment where it is
one bit or one byte. The violated properties state the documentation's sentence
without the exception, where there is a sentence that says otherwise in so many
words.

**Bounds.** `MCTSParser` uses packets of 3 bytes and an array of 8: it holds two
packets and two bytes, so blocks end before, in, and after each byte of a
packet, a strict `parse` can meet two misplaced packets in one block of which
neither begins with the block, and reads of 3, 5 and 8 bytes at least are on
either side of one and two packets. All 511 streams of at most 8 bytes are
checked, which includes every misplaced sync byte, and longer aligned streams for
packets over three blocks. `MCMp2tpSer` needs the ratios of the program: an array
of a whole number of packets and time codes (1316 = 7 * 188 = 329 * 4);
8 = 2 * 4 = 4 * 2 is the smallest, and streams of up to six packets are several
blocks long. Positions are bounded by the streams, so no counter needs a cap.
`MCTSPacker` uses every length at which a branch of the loop changes, for one, two
and three packets (the packets between the first and the last two are all alike),
with every combination of time stamps and clock reference, after every counter
value.

`MCTables` and `MCReceivers` have payloads of 24 bytes (`PayloadSize`) in place of
184: a table with one element then takes one packet and with two or three two
or more, so that every size around a packet boundary, `PayloadSize` - 3 and up
included, is reached with small elements. `Sizes` has all of them up to
62 bytes and the two around 1023, where section_length is cut; `MaxElements` = 3.
Beyond a vector there is 0 or 255 in `MCTables`; in `MCReceivers` 255, the byte of
stuffing, only: what is beyond is read there when something else is taken for the
rest of a table, of which no property says more than that whole tables are still
reported. `MCReceivers` has four streams, each for
a question: a table of two packets sent twice between video and metadata with an
empty unit; two programs with a network information table and audio in both; types
that change, with pointer_fields and sections that `parse` accepts too early; a
private section. All interleavings of each are checked. `MCFields` has packets of 28
bytes, with and without adaptation field, payload, PES header, time stamps and
stuffing; time stamps on either side of bits 15 and 30 where the encoders cut; and
up to five calls (`MaxCalls`), one more than modifytest makes. One PID is enough:
two calls of `setPID` do not depend on each other. `MCCursors` has descriptors that
end at every place up to behind their last field with every carriage and both
kinds of format, wrappers of one to three cells, and network information tables
of up to two streams with duplicate descriptors; `MaxCells` = 4 is beyond the
cells of any of them.

**Fairness.** `TSParser` and `TSPacker` assume weak fairness of the steps of the
function that was called, and none of its caller: straight-line code in one
thread runs on. `Mp2tpSer` assumes it of the whole program, whose reads return.
`Cursors` assumes it of the turns of its loops, for the same reason. `Tables`,
`Receivers` and `Fields` have no liveness property and no fairness: what they
are about is what a caller does, who may stop.

**Deadlock** is checked in `MCTSPacker`, which is called for ever. It is not in the
other runs: the input, the stream or the descriptor ends there, `MaxCalls` is
reached, or the program has stopped.

## What is proved

TLAPS proves these for every value of the constants, from the named assumptions
of the modules only, and from `LongReads` (callers ask for at least `TS_SIZE` bytes),
`WholeBlocks` (the program's array is a whole number of packets, two
at least, as 1316 is) or an array of two packets (`N >= 2 * TS_SIZE`) where the theorem
says so. The assumptions say what the inputs are: `PacketsAssumption` that a packet
given to `Fields` has the bytes of a packet, and the bits of a clock reference where it
shows one; `InputsAssumption` that a wrapper is made of cells; `BuildAssumption` that
what is added to a table has numbers in range, and that no table is made longer than
`MaxSize`, the 4099 bytes whose length fits into its 12 bits (the guard of `AddProgram`
says the same of a PAT); `ProgramsAssumption` and `JunkAssumption` that program numbers,
PIDs and bytes have their 16, 13 and 8 bits; `SeedsAssumption` that a
table is begun from bytes with a pointer_field of 0, which `parse` accepts, that no two
descriptors of an element in it are of a tag, and that it states its length unless it
had two such descriptors of the program;
`FieldAssumption` that the length of an adaptation field fits into its byte, as it does
in packets of 188. Of the streams that `Receivers` is given, `FeedsAssumption` says that
they are sequences of packets; `TablesAssumption` that the sections of a PID, if nothing
comes between their packets, are each accepted by parse() as they were sent
(`ReadAsSent`: what `TableFound` proves of those that packetize makes), and that
nothing of the kind is on the PID of program number 0; `StreamsAssumption` that an
elementary stream has a PID of its own, and begins its units with a PES header. TLC
evaluates all of them over the four streams of `MCReceivers`.

| Theorem | States |
|---|---|
| `TSParserProofs!TypeCorrect` | `TypeOK` |
| `TSParserProofs!Implements` | `Decomposes`, if `LongReads` |
| `TSParserProofs!KeepsEveryPacket` | `NoLoss` |
| `TSParserProofs!AcceptsAligned` | `StrictAccepts` |
| `TSParserProofs!TrueMeansSpaced` | `StrictSpacing`, if `LongReads` |
| `Mp2tpSerProofs!StopsInTime` | `StopsAtLimit` |
| `Mp2tpSerProofs!GivesAll` | `GivesEveryPacket`, if `WholeBlocks` |
| `Mp2tpSerProofs!AcceptsAll` | `AcceptsStreams`, if `WholeBlocks` |
| `Mp2tpSerProofs!AVCHDGives` | `AVCHDGivesAllButLast`, if `N >= 2 * TS_SIZE` |
| `TSPackerProofs!TypeCorrect` | `TypeOK` |
| `TSPackerProofs!NeverInPart` | `AllOrNothing` |
| `TSPackerProofs!CountersFollow` | `KeepsCounter` |
| `TSPackerProofs!ReaderGetsUnit` | `RebuildsUnit` |
| `TSPackerProofs!ClockInFirst` | `CarriesClock` |
| `TSPackerProofs!LengthFollows` | `StatesLength` |
| `TablesProofs!Stated` | `Coherent` |
| `TablesProofs!BytesOnly` | `TypeOK` |
| `TablesProofs!ProgramsKnown` | `ProgramsArrive` |
| `TablesProofs!TableFound` | `TableArrives` |
| `FieldsProofs!HeaderStays` | `HeaderHolds` |
| `FieldsProofs!PayloadKept` | `PayloadStays` |
| `FieldsProofs!UnitKept` | `KeepsUnit` |
| `FieldsProofs!StampsKept` | `StampsValue` |
| `FieldsProofs!StampsFound` | `StampsArrive` |
| `FieldsProofs!ClockStays` | `ClockArrives` |
| `FieldsProofs!ReadingAgain` | `ReadsLikeNew` |
| `FieldsProofs!StampRead`, `EncodersAgree`, `ClockRead` | what each decoder makes of what each encoder wrote |
| `ReceiversProofs!LosesNothing` | the demultiplexer's samples only grow, until they are written as they are |
| `ReceiversProofs!SameTables` | `TypeOK` |
| `ReceiversProofs!KeepsTypes` | a PID keeps the type that it was first given |
| `ReceiversProofs!TablesReported` | `ReportsTables` |
| `ReceiversProofs!WholeReported` | `ReportsWhole` |
| `ReceiversProofs!TypesLearned` | `LearnsTypes` |
| `ReceiversProofs!OrderKept` | `KeepsOrder` |
| `ReceiversProofs!CellsUnwrapped` | `UnwrapsCells` |
| `ReceiversProofs!UnitsWritten` | `WritesUnits`: the demultiplexer implements `ElementaryStreams` |
| `CursorsProofs!NeverEnds` | over the inputs `Endless` the loop is never left |
| `CursorsProofs!TurnsElsewhere` | a turn over a descriptor changes something unless it is one of those |
| `CursorsProofs!FieldsPrinted` | `PrintsFields` |
| `CursorsProofs!CellsFound` | `FindsCells` |
| `CursorsProofs!NetworkFound` | `NetworkArrives` |

*TSParser.* `TypeOK` is not inductive: line 91 takes `TS_SIZE` bytes from
`_buffer` whatever is there. `Ready` adds that while the scan is not over
`_buffer` is empty or whole, because an incomplete packet has used up its block.
For the refinement, `BlockInv` says which stretch of the stream the array holds,
and `BufferInv` distinguishes, by phase, whether `_buffer` is empty, holds a part
of a packet or a whole one, that its bytes are consecutive from a sync byte at
or after the last packet's end (`Begins`), and how far the scan has come. Every
step then is an `OnPacket` or a stutter. For `NoLoss`, `StartsInv` says that packet
m began at `TS_SIZE * (m - 1)` and `_buffer` begins where the next one must;
`PositionInv` accounts for every byte read: handed over, in `_buffer`, or still
to be scanned. It is here that long blocks are needed: a second packet is never
carried over on top of a whole one. For the verdicts, `VerdictInv` says what h
remembers at each place of an aligned block (`Remembers`) and that no error was
found; `SpacingInv` says of any stream that, as long as none was found, the
packets that began inside the block are `_packetSize` apart and that h is at the
last of them, if it is not at index 0.

*Mp2tpSer.* The program is a caller of TSParser, so every invariant of the
parser's specification is one of its own (`CallInv`, `BaseInv`). `LimitInv` bounds the
bytes handed over by the limit, the part of the block that was scanned and one
packet from `_buffer`.
For the streams, `ReadInv` says that whole blocks were read as long as the input
has not ended, and `EveryInv` that with blocks of whole packets nothing waits in
`_buffer` between blocks, so all that was read was given; `RefusalInv` then says
when a verdict can be false: on an empty read only. With time codes, `CodesInv` says where
the bytes in `_buffer` and the cursor are within the packets of the stream (`Between` or
`Inside` one), also when the last block is too short and the loop of lines 48-51 takes
bytes of an earlier read, and that at most one whole packet is missing when the input
has ended (`Over`).

*TSPacker.* `TypeInv` adds `CountInv` (how many bytes are written, by phase) to
the types; the adaptation field's length stays in 0..182 because the header
size that line 245 counts is 6 after the first packet. `CoverInv` chains the
ranges of the packets and of the one under construction. `DropInv` keeps track of
an access unit that is too short to fill its packet: no packet of it is made,
and its packet is still under construction at the end. That is the one case in
which the counter is ahead, and `CounterInv` has the counters. `AlignInv` says of
every packet that the reader's payload is the written one, and that what is
left after each packet is where 184-byte steps from the first packet lead
(`AtCut`), which decides whether 183 bytes will ever be left. `LabelInv` follows
the clock reference and the stated length from the packet under construction to
the first packet.

*Fields.* `FieldsInv` relates each field that shares a byte to the packet given:
flags and PID (`Flags`, `Names`), counter and control (`Counts`, `Controls`), and
all bytes after the header (`Rest`); while the packet is put together (`Filling`)
the bytes so far are those given. `PayloadStays` needs `Controls`, because where the
payload begins is read from a byte that `incrementCC` writes.

For the time stamps, the encoders are compared as sets of bits (`StampRead`,
`EncodersAgree`, `ClockRead`); `Numbers` and `Asked` then say that the fields of the PESPacket
are bytes and its stamps those that were asked for. `WrittenInv` follows a header that
was written back into the packet (`InFront`, `Behind`, `Fits`, `Headers`): what is before
and behind it is as given, and a reader finds it to be of its size.

*Tables.* `Coherent` is not inductive: a table must also have the shape that parse()
leaves (`Shape`: thirteen bytes of header with a pointer_field of 0, descriptors and
elements whose numbers are in range) and not be longer than its length can state.
`TableInv` adds both. That the length is right is an equation between two ways to
compute it: calcLen adds up what each element takes, serialize writes them one after the
other (`SizeOf`, from `FlattenLength` and `Total` of `DataProofs`).

`WireInv` says what is on the wire: packets (`Packet`) whose bytes are bytes and that are
full, because what packetize writes is (`OnePacketFacts`, `FullPacketFacts`,
`LastPacketFacts`, one for each branch of its loop). It needs `TableInv`: only a section
that is not too long is written in bytes. For `ProgramsArrive`, `ArriveInv` says that a
PAT that fits into one packet is the one packet on the wire and that what the receiver
has learned agrees with what the table says now (`Agree`), which more programs do not
change. Then `PATBytes` says where each entry is written, `EntriesRead` that the walk of
`PATparse` stops at each of them (`WalkAlong`), and `Learnt` what a map makes of them.

`TableArrives` needs two more. `EditInv`: a table changed in place through an iterator
has grown, so it does not state its length (`EditGrows`); hence one that is `Readable`
has its CRC over what it says. `MapInv`: once a table is sent, either one packet with
all of it but perhaps bytes of the CRC is on its way (`OneOf`), or the receiver has the
bytes up to `cur`, the packets on the wire are those that packetize makes of the rest,
the rest is at least 5 bytes, and what is left for the last packet is not 183 bytes or
more (`Several`). A full packet keeps that (`FullSent`, `LeftOf`), and parse() waits
(`TableWaits`); with the last one (`LastSent`) all the bytes are there, and parse() finds
in them each descriptor and element where serialize put it (`Lies`, `ElementsRead`,
`TableRead`), because the bytes of a table lie one after the other in both.

*DataProofs.* The library's induction theorems take an operator as a parameter, which
the provers here cannot instantiate. What can be cited is that every non-empty set of
naturals has a least element (from `WFMin`): the counterexamples to a statement about
all sequences are named as a set, and a shortest one is refuted (`OnSequences`). In that
way what a fold, `FlattenSeq` or `Walk` computes is proved for every input.

*Receivers.* `TypeInv`: both receivers take the same packets for a PAT and read it in
the same way (`SamePAT`, `SamePrograms`). `SampleInv`: a file's sample is empty as long as none was begun, so
nothing is lost when one is. The first three theorems hold for every stream, also one
that is not well-formed.

The others are about how tables and streams mix. The heart is one invariant, `Rec`,
stated for either receiver (`DecInv`, `DmxInv`) over what it knows: every program it
knows some PAT of the stream gave (`FromTables`); if the history says that a table was
seen whole so far, `_pmt` is as if only the packets of that PID had come (`InPlace`,
which compares it with `Reading`); and what was accepted is what is reported of the
tables that are due, in order, and then a beginning of what is reported of the one under
way (`Reporting`, `IsPart`). The hard case is a table that another one cuts after
parse() accepted its first packet: then a fair table is under way and no longer whole
(`Cut`), so that either its rest comes, which is stray, or the state is not one of those
that the property is about, and `Reporting` only promises that the log includes what
is due. `Moves` says what one packet does to all of this (`StepGoes`), whichever receiver
it is: for the demultiplexer, `SameParse` says that its parse() is the decoder's. From
`Rec`, `ReportsTables` is the case in which nothing is cut and nothing under way
(`RecFinal`), `ReportsWhole` what is left otherwise (`RecIncludes`).

For `LearnsTypes`, `DmxInv` adds that `pid2type_` has of each PID the first type in the
log (`Agrees`, `MapAgrees`), and a table that is accepted twice says nothing new
(`TwiceFirst`). With it a type that is known is that of an element sent (`TypesSent`),
so only packets of streams that belong to a file go there: `CellsInv` for `UnwrapsCells`.
For `KeepsOrder`, `OrderInv` adds that files hold only data of PIDs whose type is known
(`OnlyTyped`), so a stream whose type is learned now has nothing there yet, that `since`
is empty before (`SinceInv`), and `TypeInv`: a stream whose file was not begun has
nothing to keep in order. A packet then appends its data to the sample of one file
(`PacketFills`, `AllGrows`), and to what that file has of its own PID (`OwnOrdered`) and of no
other (`OthersOrdered`).

For the refinement `WritesUnits`, `UnitInv` adds what the sample and the file of one
stream are (`Given`): the sample is the unit that began last, as far as its packets have
come, and the last unit written is the one before it among those that are sent. So what
a file is given when the next unit begins is that unit, whole (`GivenWhole`), and it comes
after the one that was written last. A packet of another PID never goes to that file,
since the PIDs that do are those that it shares (`FileShares`, `OtherFile`). Packets that
do not come to an end of a unit leave the files as they are, and are stutters.

*Cursors.* `LoopInv` lists, for each kind of descriptor, the places where the
cursor can be and what was read before (`PointerAt`, `MetadataAt`, `STDAt`,
`WrapperAt`): enough to see that over an `Endless` one the cursor comes to a place
which no branch takes and which is inside the descriptor. `PrintInv` says that what was
printed is a beginning of `Fields` and which field is next at each place of the cursor;
`WrapperFound` that of a wrapper the first cells are found as they are. A network
information table is read in one step, so `NetworkInv` only has to say that it was read
and from which bytes; the work is in where its numbers and parts are (`Lies`: a
sequence lies at a place of another), and that a loop which steps from part to part
(`WalkParts`) finds each of them: a descriptor (`DescriptorsRead`), a stream with its
descriptors (`StreamRead`, `StreamsRead`). Of descriptors with one tag the
first is kept (`KeptFirsts`).

*Only model-checked.* Liveness (`ParseReturns`, `Terminates`, `Returns`, the first
half of `Ends`), which is outside the prover's reach.

## What is not modelled

* `setPacketSize` with less than 188, for which nothing is promised
  (`PacketSizesAssumption`).
* The command lines, opening files and a read that fails for another reason than
  the end of the input: nothing in the code handles it differently.
* TsWriter's text: formatting, which no property is about. Its loops over
  descriptors, in which the cursor is moved, and its clock reference are modelled.
* The value of a CRC: no reader in the repository compares it.
* AccessUnit's copying and growing, which is a vector's, and the time stamps that
  the demultiplexer keeps with a sample: nothing reads them.
* The setters of PESPacket that take the five bytes of a time stamp as they are,
  and the getters that read one byte at a place of their own.
* 32-bit wrap of `i` and of `_count` truncated to `int` in `canStop`: blocks are
  1316 bytes, and the count would need 2^31 packets.
* Full-size payloads in the runs of `Tables`, `Receivers` and `Fields`: 184 bytes are
  used in TSPacker only, where the sizes are those of the code.
