-------------------------------- MODULE Demux --------------------------------
(***************************************************************************)
(* MP2TFileDemux (tests/mp2tdmux/src), which writes the access units of    *)
(* the elementary streams of a transport stream to one file for each kind  *)
(* of stream.  A packet is as in Decoder, and                              *)
(*   pes  whether the payload begins with a PES header                     *)
(*   id   the stream_id in it                                              *)
(* and the data of such a packet is what follows the header.  The time     *)
(* stamps that a sample keeps are left out: nothing reads them.            *)
(***************************************************************************)
EXTENDS ProgramAssociation

VARIABLES
    pat,            \* pat_
    pmt,            \* pmt_, one for all programs
    pid2type,       \* pid2type_
    begun,          \* the files whose current sample is not null
    sample,         \* its bytes
    file            \* what was written, sample by sample

Files == {"video", "klv", "exi", "audio"}

Init ==
    /\ pat = NewPAT
    /\ pmt = NewTable
    /\ pid2type = <<>>
    /\ begun = {}
    /\ sample = [f \in Files |-> <<>>]
    /\ file = [f \in Files |-> <<>>]

InPAT(pid) == pid \in DOMAIN pat.programs

\* The identifiers that a descriptor of an element may give it, of which a name
\* is one byte here.
KLVA == 75
EXI == 69
HDMV == 72

\* The format_identifier of lines 175-193: of the first registration_descriptor or
\* metadata_descriptor.
FormatOf(e) ==
    LET ds == SelectSeq(e.descs, LAMBDA d : d.tag \in {5, 38})
    IN  IF ds = <<>> THEN 0
        ELSE At(ds[1].value, IF ds[1].tag = 5 THEN 0 ELSE 3, 0)

\* The registration_descriptor as lines 208-219 compare it.
IsHDMV(e) ==
    \E k \in 1..Len(e.descs) : e.descs[k].tag = 5 /\ e.descs[k].value = <<HDMV>>

\* The type that initTypeMap gives an element, or "UNKNOWN" if it gives none.
TypeOf(e) ==
    CASE e.type \in {6, 21} /\ FormatOf(e) = KLVA -> "KLVA"
      [] e.type \in {6, 21} /\ FormatOf(e) = EXI -> "EXI"
      [] e.type = 27 -> IF IsHDMV(e) THEN "HDMV" ELSE "H264"
      [] e.type = 2 -> "VIDEO"
      [] e.type \in {3, 4, 15} -> "AUDIO"
      [] OTHER -> "UNKNOWN"

\* Mutant: a later table overrides an earlier one.
Bug_initTypeMap(types, elmts) ==
    FoldLeft(LAMBDA m, e : IF TypeOf(e) = "UNKNOWN" THEN m ELSE (e.pid :> TypeOf(e)) @@ m,
             types, elmts)

\* insert() into a std::map: what a PID was given first stays.
initTypeMap(types, elmts) ==
    LET known == {k \in 1..Len(elmts) : TypeOf(elmts[k]) # "UNKNOWN"}
        first(pid) == CHOOSE k \in known :
                        /\ elmts[k].pid = pid
                        /\ \A j \in known : elmts[j].pid = pid => k <= j
    IN  [pid \in DOMAIN types \cup {elmts[k].pid : k \in known} |->
            IF pid \in DOMAIN types THEN types[pid] ELSE TypeOf(elmts[first(pid)])]

packetType(types, pid) == IF pid \in DOMAIN types THEN types[pid] ELSE "UNKNOWN"

\* The file of a type, if it has one.
FileOf(type) ==
    CASE type \in {"H264", "HDMV"} -> "video"
      [] type = "KLVA" -> "klv"
      [] type = "EXI" -> "exi"
      [] type = "AUDIO" -> "audio"
      [] OTHER -> "none"

ParseTable(table, junk) ==
    \E read \in {parse(table, junk)} :
        /\ pmt' = read.table
        /\ pid2type' = IF read.ok THEN initTypeMap(pid2type, read.table.elmts) ELSE pid2type

\* Lines 42-45.
OnPAT(p, junk) ==
    /\ p.start
    /\ p.pid = 0
    /\ pat' = PATparse(pat, p.data, junk)
    /\ UNCHANGED <<pmt, pid2type, begun, sample, file>>

\* Lines 46-53.  The program may be number 0, and the table another one.
OnTable(p, junk) ==
    /\ p.start
    /\ p.pid # 0
    /\ InPAT(p.pid)
    /\ ParseTable(Add(NewTable, p.data), junk)
    /\ UNCHANGED <<pat, begun, sample, file>>

\* Mutant: the stream_id of asynchronous metadata is taken for the other.
Bug_Finish(f, id) ==
    file' = IF f \in begun /\ sample[f] # <<>>
            THEN [file EXCEPT ![f] = Append(@, [data |-> sample[f],
                                                cells |-> f = "klv" /\ id = 189])]
            ELSE file

\* The sample so far is written, if there is one; a sample of metadata as the cells
\* of a wrapper if the packet that ENDS it has that stream_id.
Finish(f, id) ==
    file' = IF f \in begun /\ sample[f] # <<>>
            THEN [file EXCEPT ![f] = Append(@, [data |-> sample[f],
                                                cells |-> f = "klv" /\ id = 252])]
            ELSE file

\* Lines 54-127.
OnUnit(p) ==
    LET f == FileOf(packetType(pid2type, p.pid))
    IN  /\ p.start
        /\ p.pid # 0
        /\ ~InPAT(p.pid)
        /\ p.pes
        /\ f # "none"
        /\ Finish(f, p.id)
        /\ begun' = begun \cup {f}
        /\ sample' = [sample EXCEPT ![f] = p.data]
        /\ UNCHANGED <<pat, pmt, pid2type>>

\* Mutant: whether there is a sample is not asked.
Bug_Continue(f, data) ==
    sample' = IF f \in Files THEN [sample EXCEPT ![f] = @ \o data] ELSE sample

\* Mutant: the rest of a unit takes the place of its beginning.
Bug_Replace(f, data) ==
    sample' = IF f \in begun THEN [sample EXCEPT ![f] = data] ELSE sample

Continue(f, data) ==
    sample' = IF f \in begun THEN [sample EXCEPT ![f] = @ \o data] ELSE sample

\* Lines 133-160: the rest of a table, or of a unit.
OnRest(p, junk) ==
    /\ ~p.start
    /\ IF InPAT(p.pid) /\ pat.programs[p.pid] > 0
       THEN ParseTable(Add(pmt, p.data), junk)
       ELSE UNCHANGED <<pmt, pid2type>>
    /\ Continue(FileOf(packetType(pid2type', p.pid)), p.data)
    /\ UNCHANGED <<pat, begun, file>>

\* A unit of no interest, or that is not a PES packet.
OnOther(p) ==
    /\ p.start
    /\ p.pid # 0
    /\ ~InPAT(p.pid)
    /\ ~p.pes \/ FileOf(packetType(pid2type, p.pid)) = "none"
    /\ UNCHANGED <<pat, pmt, pid2type, begun, sample, file>>

onPacket(p, junk) ==
    \/ OnPAT(p, junk)
    \/ OnTable(p, junk)
    \/ OnUnit(p)
    \/ OnRest(p, junk)
    \/ OnOther(p)
=============================================================================
