------------------------------- MODULE Tables -------------------------------
(***************************************************************************)
(* A multiplexer that builds its tables and a receiver that reads them: a  *)
(* ProgramMapTable parsed from a seed, changed by addProgramElement and    *)
(* removeProgramElement, and a ProgramAssociationTable to which programs   *)
(* are added; both are serialized, put into packets by TSPacker::packetize *)
(* and read as TsDecoder::onPacket and MP2TFileDemux::onPacket read them.  *)
(***************************************************************************)
EXTENDS ProgramAssociation, SectionPacker

CONSTANTS
    Seeds,          \* sections a table is begun from, default_seq among them
    Elements,       \* the program elements that may be added
    Extra,          \* descriptors that may be added to an element in the table
    Programs,       \* [program, pid] that may be added to the PAT
    MaxElements,    \* bounds: no table has more elements,
    Sizes,          \* and a table built has so many bytes
    Junk            \* what a read beyond the end of a vector gives

\* Descriptors, program elements and programs whose numbers are in range.  An element
\* has the descriptors that addDescriptor gave it.
PID == 0..8191
Descriptor == [tag : 0..255, value : Seq(0..255)]
Element == {e \in [type : 0..255, pid : PID, descs : Seq(Descriptor)] : DistinctTags(e.descs)}
Program == [program : 0..65535, pid : PID]

\* Bound: a section is not longer than the 12 bits of its length can state, which do not
\* count the bytes up to them, and the pointer_field.
MaxSize == 4 + 4095

ASSUME BuildAssumption ==
    /\ Elements \subseteq Element
    /\ Extra \subseteq Descriptor
    /\ Sizes \subseteq 0..MaxSize

ASSUME ProgramsAssumption == Programs \subseteq Program

ASSUME JunkAssumption == Junk \subseteq 0..255

VARIABLES
    kind,           \* which of the two this behaviour is about, "PMT" or "PAT"
    table,          \* the program map table under construction
    edited,         \* an element was changed in place, after the last add or remove
    assoc,          \* the program association table under construction
    state,          \* "build", "wire", "arrived", or "endless" packetizing
    form,           \* packetize of "one" packet or of "many"
    wire,           \* the packets on their way
    readTable,      \* the receiver's program map table
    verdicts,       \* of its calls of parse()
    readPrograms,   \* the receiver's program association table
    junk            \* what lies beyond the end of a vector of the receiver

buildVars == <<kind, table, edited, assoc>>
sendVars == <<state, form, wire>>
readVars == <<readTable, verdicts, readPrograms, junk>>
vars == <<buildVars, sendVars, readVars>>

Parsed(section) == parse(Add(NewTable, section), 0).table

\* program_info_length was parsed, and a descriptor it counts was a duplicate.
LostInfo(t) == programInfoLength(t) # Len(DescBytes(t.info))

\* The section states its length.
StatesItsLength(t) ==
    Short(t.pmt, t.pmt[1] + 2, 4096, 0) = Len(serialize(t)) - 4

\* A table is begun from a section that parse() accepts: with a pointer_field of 0, which
\* is the one that parse() can do with, and of the length that it says, unless it has two
\* descriptors of a tag, of which parse() drops one.
ASSUME SeedsAssumption ==
    \A s \in Seeds :
        LET read == parse(Add(NewTable, s), 0)
            t == read.table
        IN  /\ s \in Seq(0..255) /\ s[1] = 0
            /\ read.ok
            /\ t.pmt \in Seq(0..255) /\ Len(t.pmt) = 13 /\ t.pmt[1] = 0
            /\ t.info \in Seq(Descriptor) /\ DistinctTags(t.info)
            /\ t.elmts \in Seq(Element)
            /\ Len(serialize(t)) <= MaxSize
            /\ LostInfo(t) \/ StatesItsLength(t)

Init ==
    /\ kind \in {"PMT", "PAT"}
    /\ table \in {Parsed(s) : s \in Seeds}
    /\ edited = FALSE
    /\ assoc = NewPAT
    /\ state = "build"
    /\ form = "many"
    /\ wire = <<>>
    /\ readTable = NewTable
    /\ verdicts = <<>>
    /\ readPrograms = NewPAT
    /\ junk \in Junk

Building == kind = "PMT" /\ state = "build"

AddProgramElement(e) ==
    /\ Building
    /\ Len(table.elmts) < MaxElements
    /\ Len(serialize(table)) + 5 + ES_info_length(e) \in Sizes
    /\ table' = addProgramElement(table, e)
    /\ edited' = FALSE
    /\ UNCHANGED <<kind, assoc, sendVars, readVars>>

RemoveProgramElement(e) ==
    /\ Building
    /\ table' = removeProgramElement(table, e)
    /\ edited' = FALSE
    /\ UNCHANGED <<kind, assoc, sendVars, readVars>>

EditElement(k, d) ==
    /\ Building
    /\ table' = editElement(table, k, d)
    /\ Len(serialize(table')) <= MaxSize
    /\ edited' = (edited \/ table' # table)
    /\ UNCHANGED <<kind, assoc, sendVars, readVars>>

\* The table goes on to be built after it was sent.
AddProgram(p) ==
    /\ kind = "PAT"
    /\ state \in {"build", "arrived"}
    /\ assoc' = addProgram(assoc, p.program, p.pid)
    /\ Len(PATserialize(assoc')) <= MaxSize
    /\ state' = "build"
    /\ UNCHANGED <<kind, table, edited, form, wire, readVars>>

\* serialize and packetize.
Send(f) ==
    LET bytes == IF kind = "PMT" THEN serialize(table) ELSE PATserialize(assoc)
    IN  /\ state = "build"
        /\ form' = f
        /\ IF f = "many" /\ Endless(Len(bytes))
           THEN state' = "endless" /\ wire' = <<>>
           ELSE /\ state' = "wire"
                /\ wire' = IF f = "one" THEN <<packetizeOne(bytes, 0)>>
                           ELSE packetize(bytes, 0)
        /\ UNCHANGED <<buildVars, readVars>>

\* The branches of onPacket for the packets of a program map table, and for the
\* first packet of a program association table; further ones are ignored.
Receive ==
    /\ state = "wire"
    /\ wire' = Tail(wire)
    /\ state' = IF wire' = <<>> THEN "arrived" ELSE "wire"
    /\ LET p == Head(wire)
       IN  IF kind = "PMT"
           THEN /\ \E added \in {Add(IF p.start THEN NewTable ELSE readTable, getData(p))} :
                   \E read \in {parse(added, junk)} :
                     /\ readTable' = read.table
                     /\ verdicts' = Append(verdicts, read.ok)
                /\ UNCHANGED readPrograms
           ELSE /\ readPrograms' = IF p.start THEN PATparse(readPrograms, getData(p), junk)
                                   ELSE readPrograms
                /\ UNCHANGED <<readTable, verdicts>>
    /\ UNCHANGED <<buildVars, form, junk>>

Next ==
    \/ \E e \in Elements : AddProgramElement(e) \/ RemoveProgramElement(e)
    \/ \E k \in 1..Len(table.elmts), d \in Extra : EditElement(k, d)
    \/ \E p \in Programs : AddProgram(p)
    \/ \E f \in {"one", "many"} : Send(f)
    \/ Receive

Spec == Init /\ [][Next]_vars

-----------------------------------------------------------------------------
(***************************************************************************)
(* Correctness.                                                            *)
(***************************************************************************)
\* The values are of their types; whatever is built, every byte is a byte.
TypeOK ==
    /\ state \in {"build", "wire", "arrived", "endless"}
    /\ \A b \in Range(serialize(table)) : b \in 0..255
    /\ \A p \in Range(wire) : p.afLen \in -1..255 /\ Range(p.bytes) \subseteq 0..255
    /\ DOMAIN readPrograms.programs \subseteq PID

\* After any sequence of additions and removals the section states its own length
\* and its CRC is over what it says now, length included.  An element changed in
\* place through an iterator is made good by the next addition or removal; the
\* length of a duplicate descriptor that parse() dropped is not.
Coherent ==
    ~edited =>
        /\ table.crc = Covered(table)
        /\ LostInfo(table) \/ StatesItsLength(table)

\* The bytes left for the last packet of several.
Left(size) == 5 + ((size - 5) % PayloadSize)

\* Sections that packetize and a reader carry.  The one-packet form cuts off
\* what a packet does not hold, of which the reader misses all but the CRC.  The
\* other form has no room for 183 and more bytes in a last packet, and a section
\* of more than 1023 bytes states its length modulo 1024.
Carried(size) ==
    IF form = "one" THEN size <= PayloadSize + 3
    ELSE size <= PayloadSize \/ (Left(size) < PayloadSize - 1 /\ size <= 1023 + 4)

\* No value is longer than its length, a byte, can state.
ShortValues(ds) == \A k \in 1..Len(ds) : Len(ds[k].value) <= 255

Readable(t) ==
    /\ StatesItsLength(t) /\ ~LostInfo(t)
    /\ ShortValues(t.info) /\ \A k \in 1..Len(t.elmts) : ShortValues(t.elmts[k].descs)

\* A program map table that is built, written, put into packets and read is the
\* same table, if it states its length and those of its values: its header, the
\* descriptors and elements in order, each once.  The reader says so with its last
\* packet, and not before.
TableArrives ==
    /\ kind = "PMT" /\ state = "arrived"
    /\ Carried(Len(serialize(table))) /\ Readable(table)
    =>  /\ \A k \in 1..Len(verdicts) : verdicts[k] <=> k = Len(verdicts)
        /\ readTable.elmts = table.elmts
        /\ readTable.info = table.info
        /\ Header(readTable) = Header(table)
        /\ readTable.crc = table.crc

\* The entries for which the first packet of a PAT has room.
InFirstPacket == (PayloadSize - 9) \div 4

\* The receiver knows the programs of the PATs sent, if all fit into one packet,
\* and the CRC of a PAT to which a program was added is over what it says now.
ProgramsArrive ==
    /\ kind = "PAT" /\ state = "arrived" /\ Cardinality(DOMAIN assoc.programs) <= InFirstPacket
       => readPrograms.programs = assoc.programs
    /\ assoc.programs # <<>> => assoc.crc = PATCovered(assoc)
=============================================================================
