------------------------------ MODULE Receivers ------------------------------
(***************************************************************************)
(* One transport stream, and the two programs that take it apart by PIDs:  *)
(* mp2tpser, whose TsDecoder reports its tables, and mp2tdmux, whose       *)
(* MP2TFileDemux writes its access units to files.  The packets of a PID   *)
(* come in their order; those of different PIDs in any.                    *)
(*                                                                         *)
(* A packet that starts a program map table also has                       *)
(*   table  the elements that the section is about                         *)
(*   fair   its pointer_field is 0, as it must be for parse()              *)
(***************************************************************************)
EXTENDS ProgramAssociation

CONSTANTS
    Feeds,          \* the streams considered, each a function from PIDs to packets
    Junk            \* what a read beyond the end of a vector gives

VARIABLES
    feed,           \* the stream, which does not change
    carries,        \* the PIDs whose units belong to each file, and the units that
    units,          \*   the files of one PID should be given: see SharesOf, UnitsOf
    at,             \* how many packets of each PID have come
    junk,
    decPat, decPmt, reports,
    dmxPat, dmxPmt, pid2type, begun, sample, file,
    \* history
    decSeen,        \* of the tables, as either receiver is in a position to see
    dmxSeen,        \*   them: see Track
    since           \* the data of each PID since the first unit of a known type

Dec == INSTANCE Decoder WITH pat <- decPat, pmt <- decPmt
Dmx == INSTANCE Demux WITH pat <- dmxPat, pmt <- dmxPmt

decVars == <<decPat, decPmt, reports>>
dmxVars == <<dmxPat, dmxPmt, pid2type, begun, sample, file>>
vars == <<feed, carries, units, at, junk, decVars, dmxVars, decSeen, dmxSeen, since>>

\* The packets at which units begin, where the unit of the n-th began, and the data
\* of packets.
Starts(packets) == {k \in DOMAIN packets : packets[k].start}
Begins(packets, k, n) ==
    k \in 1..n /\ packets[k].start /\ \A i \in (k + 1)..n : ~packets[i].start
Data(packets) == FlattenSeq([k \in DOMAIN packets |-> packets[k].data])

\* The last packet of a table, or a unit: what follows it is a start.
IsLast(packets, k) == k = Len(packets) \/ packets[k + 1].start

\* The access units that are sent: from one start to the last packet before the next, if
\* not empty.
UnitAt(packets, k) ==
    LET end == CHOOSE n \in k..Len(packets) : Begins(packets, k, n) /\ IsLast(packets, n)
    IN  Data(SubSeq(packets, k, end))

UnitIn(packets, k) ==
    IF packets[k].start /\ UnitAt(packets, k) # <<>> THEN <<UnitAt(packets, k)>> ELSE <<>>

UnitsIn(packets) == FlattenSeq([k \in DOMAIN packets |-> UnitIn(packets, k)])

\* The tables of a stream, and the elements that they are about.
TablesOf(sent) == UNION {{sent[pid][k].table : k \in DOMAIN sent[pid]} : pid \in DOMAIN sent}
ElementsOf(sent) == UNION {Range(t) : t \in TablesOf(sent)}

\* The PIDs that a stream sends and that some table of it gives to a file.
SharesOf(sent) ==
    [f \in Dmx!Files |->
       {pid \in DOMAIN sent :
          \E e \in ElementsOf(sent) : e.pid = pid /\ Dmx!FileOf(Dmx!TypeOf(e)) = f}]

UnitsOf(sent, shares) ==
    [f \in {g \in Dmx!Files : \E pid \in shares[g] : shares[g] = {pid}} |->
       UnitsIn(sent[CHOOSE pid \in shares[f] : TRUE])]

\* A packet as it comes to the receivers.
Coming(pid, k) ==
    LET p == feed[pid][k]
    IN  [pid |-> pid, start |-> p.start, data |-> p.data, pes |-> p.pes, id |-> p.id]

More(pid) == at[pid] < Len(feed[pid])

Ends(pid, k) == IsLast(feed[pid], k)

\* "whole" has the PIDs of tables of which each packet so far was seen, none of
\* another table being in between; "due" the tables seen whole, "stray" whether
\* the rest of a table came that was not.
Unseen == [whole |-> {}, due |-> <<>>, stray |-> FALSE]

Track(seen, pid, isTable, known, disturbs) ==
    LET p == Coming(pid, at[pid] + 1)
        first == CHOOSE k \in 1..(at[pid] + 1) : Begins(feed[pid], k, at[pid] + 1)
        whole == IF p.start /\ disturbs THEN (IF isTable THEN {pid} ELSE {})
                 ELSE IF known THEN seen.whole \cap {pid} ELSE seen.whole
        got == known /\ pid \in whole /\ Ends(pid, at[pid] + 1) /\ feed[pid][first].fair
    IN  [whole |-> whole,
         due |-> IF got THEN Append(seen.due, feed[pid][first].table) ELSE seen.due,
         stray |-> seen.stray \/ (known /\ ~p.start /\ pid \notin whole)]

Init ==
    /\ feed \in Feeds
    /\ carries = SharesOf(feed)
    /\ units = UnitsOf(feed, carries)
    /\ at = [pid \in DOMAIN feed |-> 0]
    /\ junk \in Junk
    /\ Dec!Init
    /\ Dmx!Init
    /\ decSeen = Unseen
    /\ dmxSeen = Unseen
    /\ since = [pid \in DOMAIN feed |-> <<>>]

\* The next packet of a PID comes to both.
Receive(pid) ==
    LET p == Coming(pid, at[pid] + 1)
        known(pat) == pid \in DOMAIN pat.programs /\ pat.programs[pid] # 0
    IN  /\ More(pid)
        /\ at' = [at EXCEPT ![pid] = @ + 1]
        /\ Dec!onPacket(p, junk)
        /\ Dmx!onPacket(p, junk)
        /\ decSeen' = Track(decSeen, pid, TRUE, known(decPat), known(decPat))
        /\ dmxSeen' = Track(dmxSeen, pid, known(dmxPat), known(dmxPat),
                            pid \in DOMAIN dmxPat.programs)
        /\ since' = IF since[pid] # <<>> \/ (p.start /\ p.pes /\ pid \in DOMAIN pid2type)
                    THEN [since EXCEPT ![pid] = @ \o p.data] ELSE since
        /\ UNCHANGED <<feed, carries, units, junk>>

Next == \E pid \in DOMAIN feed : Receive(pid)

Spec == Init /\ [][Next]_vars

-----------------------------------------------------------------------------
(***************************************************************************)
(* What the streams are: of their tables, each for itself.                 *)
(***************************************************************************)
\* The section states 181 to 183 bytes, of which the first packet has all but bytes
\* of the CRC: parse() accepts it, and accepts it once more when the rest is there.
TooEarly(table) ==
    13 + Len(ElemBytes(table)) \in (PayloadSize - 3)..(PayloadSize - 1)

Reported(table) == IF TooEarly(table) THEN <<table, table \o table>> ELSE <<table>>

\* What becomes of the packets of one PID if all of them are taken for those of tables,
\* and nothing comes between: _pmt after the n-th, and what parse() accepted since the
\* table began.
Unread == [table |-> Dec!NewTable, accepted |-> <<>>]

Read(r, data, j) ==
    LET parsed == Dec!parse(Dec!Add(r.table, data), j)
    IN  [table |-> parsed.table,
         accepted |-> IF parsed.ok THEN Append(r.accepted, parsed.table.elmts)
                                   ELSE r.accepted]

Reading(packets, j) ==
    LET read[n \in 0..Len(packets)] ==
          IF n = 0 THEN Unread
          ELSE Read(IF packets[n].start THEN Unread ELSE read[n - 1], packets[n].data, j)
    IN  read

\* A fair table is reported when its last packet comes, at the latest, and another one not.
ToReport(p) == IF p.fair THEN Reported(p.table) ELSE <<>>

AcceptedAsSent(packets, j, k, n) ==
    LET accepted == Reading(packets, j)[n].accepted
        due == ToReport(packets[k])
    IN  /\ \E m \in 0..Len(due) : accepted = SubSeq(due, 1, m)
        /\ IsLast(packets, n) => accepted = due

ReadAsSent(packets, j) ==
    \A n \in DOMAIN packets : \A k \in 1..n :
        Begins(packets, k, n) => AcceptedAsSent(packets, j, k, n)

\* What the program association tables of a stream say, and the PIDs that they name.
ProgramsOf(sent, j) ==
    {Dec!PATparse(Dec!NewPAT, sent[0][k].data, j).programs :
        k \in IF 0 \in DOMAIN sent THEN Starts(sent[0]) ELSE {}}
TablePids(sent, j) == UNION {DOMAIN programs : programs \in ProgramsOf(sent, j)}

\* The packets of a PID are a sequence, and their data and tables are.
ASSUME FeedsAssumption ==
    \A sent \in Feeds : \A pid \in DOMAIN sent :
        /\ sent[pid] \in Seq(Range(sent[pid]))
        /\ \A k \in DOMAIN sent[pid] : LET p == sent[pid][k]
                                       IN  /\ p.data \in Seq(Range(p.data))
                                           /\ p.table \in Seq(Range(p.table))

\* A section is fit to be read; on the PID of the network information table, that of
\* program number 0, there is none of the other kind.
ASSUME TablesAssumption ==
    \A sent \in Feeds : \A j \in Junk :
        /\ 0 \notin TablePids(sent, j)
        /\ \A pid \in TablePids(sent, j) \cap DOMAIN sent : ReadAsSent(sent[pid], j)
        /\ \A programs \in ProgramsOf(sent, j) : \A pid \in DOMAIN programs :
            /\ programs[pid] \in Nat
            /\ programs[pid] = 0 /\ pid \in DOMAIN sent =>
                   \A k \in DOMAIN sent[pid] : ~sent[pid][k].fair

\* An elementary stream has a PID of its own, its units begin with a PES header, and its
\* data says whose it is.
ASSUME StreamsAssumption ==
    \A sent \in Feeds : \A e \in ElementsOf(sent) :
        /\ e.pid # 0
        /\ \A j \in Junk : e.pid \notin TablePids(sent, j)
        /\ e.pid \in DOMAIN sent =>
               \A k \in DOMAIN sent[e.pid] : LET p == sent[e.pid][k]
                                             IN  /\ p.start => p.pes
                                                 /\ \A d \in Range(p.data) : d.pid = e.pid

-----------------------------------------------------------------------------
(***************************************************************************)
(* Correctness.                                                            *)
(***************************************************************************)
\* Types, and what the receivers have in common: the two tables of programs, and that
\* a sample is not written to, nor to its file, before it was begun.
TypeOK ==
    /\ \A pid \in DOMAIN feed : at[pid] \in 0..Len(feed[pid])
    /\ decPat = dmxPat
    /\ begun \subseteq Dmx!Files
    /\ Range(pid2type) \subseteq {"H264", "HDMV", "VIDEO", "AUDIO", "KLVA", "EXI"}
    /\ \A f \in Dmx!Files : f \notin begun => sample[f] = <<>> /\ file[f] = <<>>

\* A table of which some packets, and not all, have come.
UnderWay ==
    \E pid \in DOMAIN feed : /\ at[pid] > 0
                             /\ ~Ends(pid, at[pid])
                             /\ \E k \in 1..at[pid] : /\ Begins(feed[pid], k, at[pid])
                                                     /\ feed[pid][k].fair

\* TsDecoder reports the tables that were sent, in order, each once and with its own
\* elements, although it puts them together in one place for all programs; unless
\* the rest of a table comes after the packets of another, or of one not known.
\* Named exceptions: a pointer_field, and sections of 181 to 183 bytes.
ReportsTables ==
    ~decSeen.stray /\ ~UnderWay =>
        reports = FlattenSeq([k \in 1..Len(decSeen.due) |-> Reported(decSeen.due[k])])

\* One sequence has the members of the other, in their order, and maybe more.
Includes(log, due) ==
    \E m \in [1..Len(due) -> 1..Len(log)] :
        \A i \in 1..Len(due) : log[m[i]] = due[i] /\ \A k \in 1..(i - 1) : m[k] < m[i]

\* Whatever came between, a table of which all packets come one after the other
\* is reported as it was sent.
ReportsWhole == Includes(reports, decSeen.due)

\* The PIDs that the elements give a type have the type of the first element that gives
\* one, and no other PID has.
GivesTypes(types, elmts) ==
    LET known == {k \in 1..Len(elmts) : Dmx!TypeOf(elmts[k]) # "UNKNOWN"}
    IN  /\ DOMAIN types = {elmts[k].pid : k \in known}
        /\ \A k \in known : \/ types[elmts[k].pid] = Dmx!TypeOf(elmts[k])
                            \/ \E i \in known : i < k /\ elmts[i].pid = elmts[k].pid

\* The demultiplexer knows the type of every PID that the tables it could see gave
\* it, that of the first of them, and of no other PID.  To it, packets that start a
\* network information table come between the packets of a table, too.
LearnsTypes ==
    ~dmxSeen.stray /\ ~UnderWay => GivesTypes(pid2type, FlattenSeq(dmxSeen.due))

-----------------------------------------------------------------------------
Written(f) == [k \in 1..Len(file[f]) |-> file[f][k].data]

\* Every file to which one stream belongs is given that stream's access units, as
\* ElementaryStreams says.
Streams == INSTANCE ElementaryStreams WITH
    file <- [f \in DOMAIN units |-> Written(f)],
    reliable <- ~dmxSeen.stray

WritesUnits == Streams!Spec

\* What a sequence has of one stream, and that it ends with another.
OfPid(s, pid) == FlattenSeq([k \in 1..Len(s) |-> IF s[k].pid = pid THEN <<s[k]>> ELSE <<>>])
EndsWith(s, t) == \E n \in 0..Len(s) : t = SubSeq(s, n + 1, Len(s))

\* Also where streams of one type share a file and the samples in it mix them: of
\* each stream, the file and the current sample have all data since the first unit
\* of a known type, in order, none twice, and before it nothing but what came
\* immediately before.
KeepsOrder ==
    ~dmxSeen.stray =>
        \A f \in Dmx!Files : \A pid \in carries[f] :
            Dmx!FileOf(Dmx!packetType(pid2type, pid)) = f =>
                LET got == OfPid(FlattenSeq(Written(f)) \o sample[f], pid)
                IN  /\ EndsWith(Data(SubSeq(feed[pid], 1, at[pid])), got)
                    /\ EndsWith(got, since[pid])

\* The stream_ids of the PES packets of a file's streams.
IdsOf(f) ==
    UNION {{feed[pid][k].id : k \in Starts(feed[pid])} : pid \in carries[f]}

\* Metadata is taken out of its cells if it was sent in cells, if all that goes to the
\* file is sent in one way: the demultiplexer asks the packet after the unit.
UnwrapsCells ==
    ~dmxSeen.stray =>
        \A id \in IdsOf("klv") :
            IdsOf("klv") = {id} =>
                \A k \in 1..Len(file["klv"]) : file["klv"][k].cells <=> id = 252
=============================================================================
