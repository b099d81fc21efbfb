--------------------------- MODULE ReceiversProofs ---------------------------
(***************************************************************************)
(* What the demultiplexer never does, whatever the stream is, well-formed  *)
(* or not; what both receivers make of a stream of which each table is fit *)
(* to be read and each elementary stream has a PID of its own.  All of it  *)
(* in whatever order the packets of the PIDs come.                         *)
(***************************************************************************)
EXTENDS Receivers, DataProofs

\* Both are functions on the files, and only a sample that was begun holds data:
\* there is nothing to lose when a sample is begun.
SampleInv ==
    /\ sample = [f \in Dmx!Files |-> sample[f]]
    /\ file = [f \in Dmx!Files |-> file[f]]
    /\ \A f \in Dmx!Files : f \notin begun => sample[f] = <<>>

\* What happens to a file when a packet comes: nothing; or data is appended to its
\* sample; or a sample is begun, and the one before it is written if it had data.
Keeps(f) ==
    \/ sample'[f] = sample[f] /\ file'[f] = file[f]
    \/ (\E data : sample'[f] = sample[f] \o data) /\ file'[f] = file[f]
    \/ sample[f] = <<>> /\ file'[f] = file[f]
    \/ \E c : file'[f] = Append(file[f], [data |-> sample[f], cells |-> c])

KeepsType(pid) == pid \in DOMAIN pid2type' /\ pid2type'[pid] = pid2type[pid]

-----------------------------------------------------------------------------
\* One packet, by the branch of onPacket that takes it.
LEMMA BeginsUnit ==
    ASSUME SampleInv, NEW p, Dmx!OnUnit(p)
    PROVE  SampleInv' /\ \A g \in Dmx!Files : Keeps(g)
<1> DEFINE f == Dmx!FileOf(Dmx!packetType(pid2type, p.pid))
<1>1. /\ f \in Dmx!Files
      /\ Dmx!Finish(f, p.id)
      /\ begun' = begun \cup {f}
      /\ sample' = [sample EXCEPT ![f] = p.data]
  <2>1. f \in Dmx!Files \/ f = "none"
    BY DEF Dmx!FileOf, Dmx!Files
  <2>2. QED
    BY <2>1 DEF Dmx!OnUnit
<1> HIDE DEF f
<1>2. \/ file' = file /\ (f \in begun => sample[f] = <<>>)
      \/ file' = [file EXCEPT ![f] = Append(@, [data |-> sample[f],
                                                cells |-> f = "klv" /\ p.id = 252])]
  BY <1>1 DEF Dmx!Finish
<1>3. SampleInv'
  BY <1>1, <1>2 DEF SampleInv
<1>4. ASSUME NEW g \in Dmx!Files PROVE Keeps(g)
  <2>1. CASE g # f
    BY <1>1, <1>2, <2>1 DEF SampleInv, Keeps
  <2>2. CASE g = f /\ file' = file /\ (f \in begun => sample[f] = <<>>)
    <3>1. sample[f] = <<>>
      BY <1>1, <2>2 DEF SampleInv
    <3>2. QED
      BY <2>2, <3>1 DEF Keeps
  <2>3. ASSUME NEW c, g = f,
               file' = [file EXCEPT ![f] = Append(@, [data |-> sample[f], cells |-> c])]
        PROVE  Keeps(g)
    <3>1. file'[f] = Append(file[f], [data |-> sample[f], cells |-> c])
      BY <1>1, <2>3 DEF SampleInv
    <3>2. QED
      BY <2>3, <3>1 DEF Keeps
  <2>4. QED
    BY <1>2, <2>1, <2>2, <2>3
<1>5. QED
  BY <1>3, <1>4

LEMMA ContinuesUnit ==
    ASSUME SampleInv, NEW p, NEW j, Dmx!OnRest(p, j)
    PROVE  SampleInv' /\ \A g \in Dmx!Files : Keeps(g)
<1>1. PICK f : Dmx!Continue(f, p.data)
  BY DEF Dmx!OnRest
<1>2. begun' = begun /\ file' = file
  BY DEF Dmx!OnRest
<1>3. \/ f \in begun /\ sample' = [sample EXCEPT ![f] = @ \o p.data]
      \/ sample' = sample
  BY <1>1 DEF Dmx!Continue
<1>4. SampleInv'
  BY <1>2, <1>3 DEF SampleInv
<1>5. ASSUME NEW g \in Dmx!Files PROVE Keeps(g)
  <2>1. file'[g] = file[g]
    BY <1>2
  <2>2. CASE sample' = sample
    BY <2>1, <2>2 DEF Keeps
  <2>3. CASE sample' = [sample EXCEPT ![f] = @ \o p.data] /\ g # f
    <3>1. sample'[g] = sample[g]
      BY <2>3
    <3>2. QED
      BY <2>1, <3>1 DEF Keeps
  <2>4. CASE sample' = [sample EXCEPT ![f] = @ \o p.data] /\ g = f
    <3>1. sample = [h \in Dmx!Files |-> sample[h]]
      BY DEF SampleInv
    <3>2. sample'[g] = sample[g] \o p.data
      BY <2>4, <3>1
    <3>3. QED
      BY <2>1, <3>2 DEF Keeps
  <2>5. QED
    BY <1>3, <2>2, <2>3, <2>4
<1>6. QED
  BY <1>4, <1>5

LEMMA OtherPackets ==
    ASSUME SampleInv, UNCHANGED <<begun, sample, file>>
    PROVE  SampleInv' /\ \A g \in Dmx!Files : Keeps(g)
BY DEF SampleInv, Keeps

LEMMA OnePacket ==
    ASSUME SampleInv, NEW p, NEW j, Dmx!onPacket(p, j)
    PROVE  SampleInv' /\ \A g \in Dmx!Files : Keeps(g)
<1>1. CASE Dmx!OnPAT(p, j)
  BY <1>1, OtherPackets DEF Dmx!OnPAT
<1>2. CASE Dmx!OnTable(p, j)
  BY <1>2, OtherPackets DEF Dmx!OnTable
<1>3. CASE Dmx!OnUnit(p)
  BY <1>3, BeginsUnit
<1>4. CASE Dmx!OnRest(p, j)
  BY <1>4, ContinuesUnit
<1>5. CASE Dmx!OnOther(p)
  BY <1>5, OtherPackets DEF Dmx!OnOther
<1>6. QED
  BY <1>1, <1>2, <1>3, <1>4, <1>5 DEF Dmx!onPacket

LEMMA InitSamples == Init => SampleInv
BY DEF Init, Dmx!Init, SampleInv

LEMMA StepSamples ==
    ASSUME SampleInv, [Next]_vars
    PROVE  SampleInv' /\ \A f \in Dmx!Files : Keeps(f)
<1>1. CASE UNCHANGED vars
  BY <1>1, OtherPackets DEF vars, dmxVars
<1>2. CASE Next
  BY <1>2, OnePacket DEF Next, Receive
<1>3. QED
  BY <1>1, <1>2

\* The demultiplexer loses no data of a sample and writes none twice: a sample only
\* grows, until the packet that begins the next one, and then it is written as it is,
\* after what was written before.  (The branches of MP2TFileDemux::onPacket for
\* each type, and that of packets that do not start a unit.)
THEOREM LosesNothing == Spec => [][\A f \in Dmx!Files : Keeps(f)]_vars
<1>1. Init => SampleInv
  BY InitSamples
<1>2. SampleInv /\ [Next]_vars => SampleInv' /\ \A f \in Dmx!Files : Keeps(f)
  BY StepSamples
<1>3. QED
  BY <1>1, <1>2, PTL DEF Spec

-----------------------------------------------------------------------------
LEMMA MapKeeps ==
    ASSUME NEW types, NEW elmts, NEW pid \in DOMAIN types
    PROVE  /\ pid \in DOMAIN Dmx!initTypeMap(types, elmts)
           /\ Dmx!initTypeMap(types, elmts)[pid] = types[pid]
BY DEF Dmx!initTypeMap

LEMMA TableKeeps ==
    ASSUME NEW t, NEW j, Dmx!ParseTable(t, j)
    PROVE  \A pid \in DOMAIN pid2type : KeepsType(pid)
<1>1. PICK read : pid2type' = IF read.ok
                              THEN Dmx!initTypeMap(pid2type, read.table.elmts)
                              ELSE pid2type
  BY DEF Dmx!ParseTable
<1>2. QED
  BY <1>1, MapKeeps DEF KeepsType

LEMMA StepTypes ==
    ASSUME [Next]_vars
    PROVE  \A pid \in DOMAIN pid2type : KeepsType(pid)
<1>1. CASE UNCHANGED vars
  BY <1>1 DEF vars, dmxVars, KeepsType
<1>2. ASSUME NEW p, NEW j, Dmx!onPacket(p, j)
      PROVE  \A pid \in DOMAIN pid2type : KeepsType(pid)
  <2>1. CASE pid2type' = pid2type
    BY <2>1 DEF KeepsType
  <2>2. CASE \E t : Dmx!ParseTable(t, j)
    BY <2>2, TableKeeps
  <2>3. pid2type' = pid2type \/ \E t : Dmx!ParseTable(t, j)
    BY <1>2 DEF Dmx!onPacket, Dmx!OnPAT, Dmx!OnTable, Dmx!OnUnit, Dmx!OnRest, Dmx!OnOther
  <2>4. QED
    BY <2>1, <2>2, <2>3
<1>3. QED
  BY <1>1, <1>2 DEF Next, Receive

\* A PID keeps the type that the first table gave it, and with it its file: no later
\* version of a table, and no packet taken for the rest of one, moves a stream to
\* another file or takes it from its own.  (initTypeMap inserts, and never clears.)
THEOREM KeepsTypes == Spec => [][\A pid \in DOMAIN pid2type : KeepsType(pid)]_vars
<1>1. [Next]_vars => \A pid \in DOMAIN pid2type : KeepsType(pid)
  BY StepTypes
<1>2. QED
  BY <1>1, PTL DEF Spec

-----------------------------------------------------------------------------
StreamTypes == {"H264", "HDMV", "VIDEO", "AUDIO", "KLVA", "EXI"}

\* initTypeMap gives the types that there are.
LEMMA MapTypes ==
    ASSUME NEW types, NEW elmts, Range(types) \subseteq StreamTypes
    PROVE  Range(Dmx!initTypeMap(types, elmts)) \subseteq StreamTypes
<1> DEFINE known == {k \in 1..Len(elmts) : Dmx!TypeOf(elmts[k]) # "UNKNOWN"}
           is(pid, k) == k \in known /\ elmts[k].pid = pid
                           /\ \A j \in known : elmts[j].pid = pid => k <= j
           first(pid) == CHOOSE k \in known :
                           /\ elmts[k].pid = pid
                           /\ \A j \in known : elmts[j].pid = pid => k <= j
           map == Dmx!initTypeMap(types, elmts)
<1>1. \A k \in known : Dmx!TypeOf(elmts[k]) \in StreamTypes
  BY DEF Dmx!TypeOf, StreamTypes
<1>2. map = [pid \in DOMAIN types \cup {elmts[k].pid : k \in known} |->
               IF pid \in DOMAIN types THEN types[pid] ELSE Dmx!TypeOf(elmts[first(pid)])]
  BY DEF Dmx!initTypeMap
<1>3. ASSUME NEW k \in known PROVE first(elmts[k].pid) \in known
  <2> DEFINE pid == elmts[k].pid
             T == {j \in known : elmts[j].pid = pid}
  <2>1. T \subseteq Nat /\ k \in T
    OBVIOUS
  <2>2. \E j \in T : \A i \in T : j <= i
    <3> HIDE DEF T
    <3> QED BY <2>1, LeastNat
  <2>3. \E j \in known : is(pid, j)
    BY <2>2
  <2> HIDE DEF known
  <2> QED BY <2>3
<1> HIDE DEF first, known
<1>4. ASSUME NEW pid \in DOMAIN map PROVE map[pid] \in StreamTypes
  <2>1. CASE pid \in DOMAIN types
    <3>1. map[pid] = types[pid]
      BY <1>2, <2>1
    <3>2. types[pid] \in Range(types)
      BY <2>1 DEF Range
    <3> QED BY <3>1, <3>2
  <2>2. CASE pid \notin DOMAIN types
    <3>1. PICK k \in known : pid = elmts[k].pid
      BY <1>2, <2>2
    <3>2. map[pid] = Dmx!TypeOf(elmts[first(pid)])
      BY <1>2, <2>2
    <3>3. first(pid) \in known
      BY <1>3, <3>1
    <3> QED BY <1>1, <3>2, <3>3
  <2> QED BY <2>1, <2>2
<1> HIDE DEF map
<1>5. Range(map) \subseteq StreamTypes
  BY <1>4 DEF Range
<1> QED
  BY <1>5 DEF map

\* What is learned from a table are types, and nothing else of the demultiplexer
\* depends on what it says.
LEMMA TableTypes ==
    ASSUME NEW t, NEW j, Dmx!ParseTable(t, j), Range(pid2type) \subseteq StreamTypes
    PROVE  Range(pid2type') \subseteq StreamTypes
<1>1. PICK read : pid2type' = IF read.ok
                              THEN Dmx!initTypeMap(pid2type, read.table.elmts)
                              ELSE pid2type
  BY DEF Dmx!ParseTable
<1>2. CASE read.ok
  BY <1>1, <1>2, MapTypes
<1>3. CASE ~read.ok
  BY <1>1, <1>3
<1> QED
  BY <1>2, <1>3

\* Both receivers read a program association table in the same way.
LEMMA SamePAT ==
    ASSUME NEW t, NEW v, NEW j
    PROVE  Dec!PATparse(t, v, j) = Dmx!PATparse(t, v, j)
BY DEF Dec!PATparse, Dmx!PATparse, Dec!TableAt, Dmx!TableAt, Dec!Short, Dmx!Short, Dec!At, Dmx!At,
       Dec!Walk, Dmx!Walk, Dec!Take, Dmx!Take, Dec!last, Dmx!last, Dec!Learn, Dmx!Learn,
       Dec!FoldLeft, Dmx!FoldLeft, Dec!MapThenFoldSet, Dmx!MapThenFoldSet, Dec!Max, Dmx!Max

\* And both of them take the same packets for one.
LEMMA SamePrograms ==
    ASSUME NEW p, NEW j, decPat = dmxPat, Dec!onPacket(p, j), Dmx!onPacket(p, j)
    PROVE  decPat' = dmxPat'
<1>1. CASE p.start /\ p.pid = 0
  <2>1. decPat' = Dec!PATparse(decPat, p.data, j)
    BY <1>1 DEF Dec!onPacket, Dec!OnPAT, Dec!OnTable, Dec!OnRestOfTable, Dec!OnOther
  <2>2. dmxPat' = Dmx!PATparse(dmxPat, p.data, j)
    BY <1>1 DEF Dmx!onPacket, Dmx!OnPAT, Dmx!OnTable, Dmx!OnUnit, Dmx!OnRest, Dmx!OnOther
  <2> QED BY <2>1, <2>2, SamePAT
<1>2. CASE ~(p.start /\ p.pid = 0)
  <2>1. decPat' = decPat
    BY <1>2 DEF Dec!onPacket, Dec!OnPAT, Dec!OnTable, Dec!OnRestOfTable, Dec!OnOther
  <2>2. dmxPat' = dmxPat
    BY <1>2 DEF Dmx!onPacket, Dmx!OnPAT, Dmx!OnTable, Dmx!OnUnit, Dmx!OnRest, Dmx!OnOther
  <2> QED BY <2>1, <2>2
<1> QED
  BY <1>1, <1>2

\* What a packet does to the demultiplexer's files and types.
LEMMA PacketTypes ==
    ASSUME SampleInv, NEW p, NEW j, Dmx!onPacket(p, j),
           begun \subseteq Dmx!Files, Range(pid2type) \subseteq StreamTypes,
           \A f \in Dmx!Files : f \notin begun => file[f] = <<>>
    PROVE  /\ begun' \subseteq Dmx!Files /\ Range(pid2type') \subseteq StreamTypes
           /\ \A f \in Dmx!Files : f \notin begun' => file'[f] = <<>>
<1>1. CASE Dmx!OnPAT(p, j)
  BY <1>1 DEF Dmx!OnPAT
<1>2. CASE Dmx!OnTable(p, j)
  BY <1>2, TableTypes DEF Dmx!OnTable
<1>3. CASE Dmx!OnUnit(p)
  <2> DEFINE f == Dmx!FileOf(Dmx!packetType(pid2type, p.pid))
  <2>1. f \in Dmx!Files \/ f = "none"
    BY DEF Dmx!FileOf, Dmx!Files
  <2>2. /\ f \in Dmx!Files /\ begun' = begun \cup {f} /\ pid2type' = pid2type
        /\ Dmx!Finish(f, p.id)
    BY <1>3, <2>1 DEF Dmx!OnUnit
  <2> HIDE DEF f
  <2>3. \A g \in Dmx!Files : g # f => file'[g] = file[g]
    BY <2>2 DEF Dmx!Finish, SampleInv
  <2> QED BY <2>2, <2>3
<1>4. CASE Dmx!OnRest(p, j)
  <2>1. begun' = begun /\ file' = file
    BY <1>4 DEF Dmx!OnRest
  <2>2. pid2type' = pid2type \/ \E t : Dmx!ParseTable(t, j)
    BY <1>4 DEF Dmx!OnRest
  <2>3. Range(pid2type') \subseteq StreamTypes
    BY <2>2, TableTypes
  <2> QED BY <2>1, <2>3
<1>5. CASE Dmx!OnOther(p)
  BY <1>5 DEF Dmx!OnOther
<1> QED
  BY <1>1, <1>2, <1>3, <1>4, <1>5 DEF Dmx!onPacket

\* The type invariant, with the domains of the functions.
TypeInv ==
    /\ TypeOK
    /\ feed \in Feeds
    /\ at = [pid \in DOMAIN feed |-> at[pid]]
    /\ SampleInv

LEMMA InitTypes == Init => TypeInv
<1> SUFFICES ASSUME Init PROVE TypeInv
  OBVIOUS
<1>1. feed \in Feeds /\ at = [pid \in DOMAIN feed |-> at[pid]]
  BY DEF Init
<1>2. SampleInv
  BY InitSamples
<1>3. \A pid \in DOMAIN feed : at[pid] \in 0..Len(feed[pid])
  <2>1. \A pid \in DOMAIN feed : at[pid] = 0 /\ Len(feed[pid]) \in Nat
    BY FeedsAssumption, LenProperties DEF Init
  <2> QED BY <2>1
<1>4. decPat = dmxPat
  BY DEF Init, Dec!Init, Dmx!Init, Dec!NewPAT, Dmx!NewPAT
<1>5. /\ begun \subseteq Dmx!Files /\ pid2type = <<>>
      /\ \A f \in Dmx!Files : sample[f] = <<>> /\ file[f] = <<>>
  BY DEF Init, Dmx!Init
<1>6. Range(pid2type) = {}
  BY <1>5 DEF Range
<1> QED
  BY <1>1, <1>2, <1>3, <1>4, <1>5, <1>6 DEF TypeInv, TypeOK

LEMMA StepAt ==
    ASSUME NEW pid \in DOMAIN feed, Receive(pid), feed \in Feeds,
           at = [q \in DOMAIN feed |-> at[q]],
           \A q \in DOMAIN feed : at[q] \in 0..Len(feed[q])
    PROVE  /\ feed' = feed /\ at' = [q \in DOMAIN feed |-> at'[q]]
           /\ \A q \in DOMAIN feed : at'[q] \in 0..Len(feed[q])
<1>1. feed' = feed /\ at' = [at EXCEPT ![pid] = @ + 1] /\ at[pid] < Len(feed[pid])
  BY DEF Receive, More
<1>2. at' = [q \in DOMAIN feed |-> at'[q]]
  BY <1>1
<1>3. ASSUME NEW q \in DOMAIN feed PROVE at'[q] \in 0..Len(feed[q])
  <2>1. Len(feed[q]) \in Nat /\ at[q] \in 0..Len(feed[q])
    BY FeedsAssumption, LenProperties
  <2>2. CASE q = pid
    <3>1. at'[q] = at[q] + 1
      BY <1>1, <2>2
    <3> QED BY <1>1, <2>1, <2>2, <3>1
  <2>3. CASE q # pid
    <3>1. at'[q] = at[q]
      BY <1>1, <2>3
    <3> QED BY <2>1, <3>1
  <2> QED BY <2>2, <2>3
<1> QED
  BY <1>1, <1>2, <1>3

LEMMA StepTypeInv == TypeInv /\ [Next]_vars => TypeInv'
<1> SUFFICES ASSUME TypeInv, [Next]_vars PROVE TypeInv'
  OBVIOUS
<1>1. CASE UNCHANGED vars
  BY <1>1 DEF vars, decVars, dmxVars, TypeInv, TypeOK, SampleInv
<1>2. ASSUME NEW pid \in DOMAIN feed, Receive(pid) PROVE TypeInv'
  <2> DEFINE p == Coming(pid, at[pid] + 1)
  <2>1. Dec!onPacket(p, junk) /\ Dmx!onPacket(p, junk)
    BY <1>2 DEF Receive
  <2> HIDE DEF p
  <2>2. SampleInv'
    BY <1>2, StepSamples DEF Next, TypeInv
  <2>3. /\ feed' = feed /\ at' = [q \in DOMAIN feed |-> at'[q]]
        /\ \A q \in DOMAIN feed : at'[q] \in 0..Len(feed[q])
    BY <1>2, StepAt DEF TypeInv, TypeOK
  <2>4. decPat' = dmxPat'
    BY <2>1, SamePrograms DEF TypeInv, TypeOK
  <2>5. /\ begun' \subseteq Dmx!Files /\ Range(pid2type') \subseteq StreamTypes
        /\ \A f \in Dmx!Files : f \notin begun' => file'[f] = <<>>
    BY <2>1, PacketTypes DEF TypeInv, TypeOK, StreamTypes
  <2> QED BY <2>2, <2>3, <2>4, <2>5 DEF TypeInv, TypeOK, StreamTypes, SampleInv
<1> QED
  BY <1>1, <1>2 DEF Next

\* Both receivers know the same programs, whatever the packets are, and in whatever
\* order they come; no PID has a type that is not one, and nothing is written to a
\* file before a unit for it began.  (TsDecoder::onPacket and MP2TFileDemux::onPacket
\* read the program association table each for itself.)
THEOREM SameTables == Spec => []TypeOK
<1>1. Init => TypeInv
  BY InitTypes
<1>2. TypeInv /\ [Next]_vars => TypeInv'
  BY StepTypeInv
<1>3. TypeInv => TypeOK
  BY DEF TypeInv
<1> QED
  BY <1>1, <1>2, <1>3, PTL DEF Spec

-----------------------------------------------------------------------------
LEMMA SameAt == ASSUME NEW v, NEW k, NEW j PROVE Dmx!At(v, k, j) = Dec!At(v, k, j)
BY DEF Dec!At, Dmx!At

LEMMA SameShort ==
    ASSUME NEW v, NEW k, NEW m, NEW j
    PROVE  Dmx!Short(v, k, m, j) = Dec!Short(v, k, m, j)
BY DEF Dec!At, Dmx!At, Dec!Short, Dmx!Short

LEMMA SameTake ==
    ASSUME NEW v, NEW k, NEW n, NEW j
    PROVE  Dmx!Take(v, k, n, j) = Dec!Take(v, k, n, j)
BY DEF Dec!At, Dmx!At, Dec!Take, Dmx!Take

LEMMA SameDescriptors ==
    ASSUME NEW v, NEW a, NEW b, NEW j
    PROVE  Dmx!Descriptors(v, a, b, j) = Dec!Descriptors(v, a, b, j)
BY DEF Dec!Descriptors, Dmx!Descriptors, Dec!Walk, Dmx!Walk, Dec!Take, Dmx!Take, Dec!At, Dmx!At

LEMMA SameKept ==
    ASSUME NEW b, NEW s
    PROVE  Dmx!FoldLeft(Dmx!addDescriptor, b, s) = Dec!FoldLeft(Dec!addDescriptor, b, s)
BY DEF Dec!FoldLeft, Dmx!FoldLeft, Dec!MapThenFoldSet, Dmx!MapThenFoldSet, Dec!Max, Dmx!Max,
       Dec!addDescriptor, Dmx!addDescriptor

LEMMA SameElements ==
    ASSUME NEW v, NEW a, NEW b, NEW j
    PROVE  Dmx!ElementsFrom(v, a, b, j) = Dec!ElementsFrom(v, a, b, j)
BY DEF Dec!Descriptors, Dmx!Descriptors, Dec!Walk, Dmx!Walk, Dec!Take, Dmx!Take, Dec!At, Dmx!At,
       Dec!ElementsFrom, Dmx!ElementsFrom, Dec!ElementInfo, Dmx!ElementInfo, Dec!Short, Dmx!Short,
       Dec!FoldLeft, Dmx!FoldLeft, Dec!MapThenFoldSet, Dmx!MapThenFoldSet, Dec!Max, Dmx!Max,
       Dec!addDescriptor, Dmx!addDescriptor

LEMMA SameDescBytes == ASSUME NEW s PROVE Dmx!DescBytes(s) = Dec!DescBytes(s)
BY DEF Dec!FlattenSeq, Dmx!FlattenSeq, Dec!DescBytes, Dmx!DescBytes, Dec!DescLength, Dmx!DescLength

LEMMA SameElemBytes == ASSUME NEW s PROVE Dmx!ElemBytes(s) = Dec!ElemBytes(s)
BY DEF Dec!FlattenSeq, Dmx!FlattenSeq, Dec!DescBytes, Dmx!DescBytes, Dec!DescLength, Dmx!DescLength,
       Dec!ElemBytes, Dmx!ElemBytes, Dec!Bytes2, Dmx!Bytes2, Dec!Total, Dmx!Total,
       Dec!ES_info_length, Dmx!ES_info_length, Dec!FoldLeft, Dmx!FoldLeft,
       Dec!MapThenFoldSet, Dmx!MapThenFoldSet, Dec!Max, Dmx!Max

LEMMA SameCRC == ASSUME NEW t PROVE Dmx!calcCRC(t) = Dec!calcCRC(t)
<1>1. Dmx!DescBytes(t.info) = Dec!DescBytes(t.info) /\ Dmx!ElemBytes(t.elmts) = Dec!ElemBytes(t.elmts)
  BY SameDescBytes, SameElemBytes
<1>2. Dmx!programInfoLength(t) = Dec!programInfoLength(t)
  BY SameShort DEF Dec!programInfoLength, Dmx!programInfoLength
<1>3. Dmx!Covered(t) = Dec!Covered(t)
  BY <1>1, <1>2 DEF Dec!Covered, Dmx!Covered
<1> QED BY <1>3 DEF Dec!calcCRC, Dmx!calcCRC

LEMMA SameCanParse == ASSUME NEW t, NEW j PROVE Dmx!canParse(t, j) <=> Dec!canParse(t, j)
BY DEF Dec!canParse, Dmx!canParse, Dec!section_length, Dmx!section_length,
       Dec!Short, Dmx!Short, Dec!At, Dmx!At

Found(t, h, info, e) == [t EXCEPT !.pmt = @ \o h, !.info = info, !.elmts = @ \o e]

HeaderOf(t, to, j) ==
    [Dec!Take(t.buffer, 0, to, j) EXCEPT ![to - 1] = Dec!InfoLengthByte(@)]

LEMMA AcceptedDec ==
    ASSUME NEW t, NEW j, NEW cur, cur = Dec!TableAt(t.buffer),
           NEW a, a = cur + 12,
           NEW ds, ds = Dec!Descriptors(t.buffer, a, a + Dec!Short(t.buffer, cur + 10, 1024, j), j),
           NEW es, es = Dec!ElementsFrom(t.buffer, ds.end, cur + 3 + Dec!Short(t.buffer, cur + 1, 1024, j) - 4, j),
           NEW info, info = Dec!FoldLeft(Dec!addDescriptor, t.info, ds.list)
    PROVE  Dec!Accepted(t, j) = Dec!calcCRC(Found(t, HeaderOf(t, a, j), info, es))
BY DEF Dec!Accepted, Found, HeaderOf

LEMMA HeaderDmx ==
    ASSUME NEW t, NEW to, NEW j
    PROVE  [Dmx!Take(t.buffer, 0, to, j) EXCEPT ![to - 1] = Dmx!InfoLengthByte(@)] = HeaderOf(t, to, j)
BY SameTake DEF HeaderOf, Dec!InfoLengthByte, Dmx!InfoLengthByte

LEMMA AcceptedOwn ==
    ASSUME NEW t, NEW j, NEW cur, cur = Dmx!TableAt(t.buffer),
           NEW a, a = cur + 12,
           NEW ds, ds = Dmx!Descriptors(t.buffer, a, a + Dmx!Short(t.buffer, cur + 10, 1024, j), j),
           NEW es, es = Dmx!ElementsFrom(t.buffer, ds.end, cur + 3 + Dmx!Short(t.buffer, cur + 1, 1024, j) - 4, j),
           NEW info, info = Dmx!FoldLeft(Dmx!addDescriptor, t.info, ds.list)
    PROVE  Dmx!Accepted(t, j) =
             Dmx!calcCRC(Found(t, [Dmx!Take(t.buffer, 0, a, j) EXCEPT ![a - 1] = Dmx!InfoLengthByte(@)], info, es))
BY DEF Dmx!Accepted, Found

LEMMA AcceptedDmx ==
    ASSUME NEW t, NEW j, NEW cur, cur = Dec!TableAt(t.buffer),
           NEW a, a = cur + 12,
           NEW ds, ds = Dec!Descriptors(t.buffer, a, a + Dec!Short(t.buffer, cur + 10, 1024, j), j),
           NEW es, es = Dec!ElementsFrom(t.buffer, ds.end, cur + 3 + Dec!Short(t.buffer, cur + 1, 1024, j) - 4, j),
           NEW info, info = Dec!FoldLeft(Dec!addDescriptor, t.info, ds.list)
    PROVE  Dmx!Accepted(t, j) = Dec!calcCRC(Found(t, HeaderOf(t, a, j), info, es))
<1>1. cur = Dmx!TableAt(t.buffer)
  BY DEF Dec!TableAt, Dmx!TableAt
<1>2. ds = Dmx!Descriptors(t.buffer, a, a + Dmx!Short(t.buffer, cur + 10, 1024, j), j)
  BY SameDescriptors, SameShort
<1>3. es = Dmx!ElementsFrom(t.buffer, ds.end, cur + 3 + Dmx!Short(t.buffer, cur + 1, 1024, j) - 4, j)
  BY SameElements, SameShort
<1>4. info = Dmx!FoldLeft(Dmx!addDescriptor, t.info, ds.list)
  BY SameKept
<1> DEFINE h == [Dmx!Take(t.buffer, 0, a, j) EXCEPT ![a - 1] = Dmx!InfoLengthByte(@)]
<1>5. h = HeaderOf(t, a, j)
  BY HeaderDmx
<1>6. Dmx!Accepted(t, j) = Dmx!calcCRC(Found(t, h, info, es))
  BY <1>1, <1>2, <1>3, <1>4, AcceptedOwn
<1> HIDE DEF h
<1>7. Dmx!Accepted(t, j) = Dmx!calcCRC(Found(t, HeaderOf(t, a, j), info, es))
  BY <1>5, <1>6
<1> QED BY <1>7, SameCRC

LEMMA SameAccepted == ASSUME NEW t, NEW j PROVE Dmx!Accepted(t, j) = Dec!Accepted(t, j)
BY AcceptedDec, AcceptedDmx

LEMMA SameParse == ASSUME NEW t, NEW j PROVE Dmx!parse(t, j) = Dec!parse(t, j)
<1>1. Dmx!Accepted(t, j) = Dec!Accepted(t, j)
  BY SameAccepted
<1>2. Dmx!canParse(t, j) <=> Dec!canParse(t, j)
  BY SameCanParse
<1>3. Dmx!TableAt(t.buffer) = Dec!TableAt(t.buffer) /\ Dmx!Refused(t) = Dec!Refused(t)
  BY DEF Dec!TableAt, Dmx!TableAt, Dec!Refused, Dmx!Refused
<1>4. Dmx!At(t.buffer, Dec!TableAt(t.buffer), j) = Dec!At(t.buffer, Dec!TableAt(t.buffer), j)
  BY SameAt
<1> QED BY <1>1, <1>2, <1>3, <1>4 DEF Dec!parse, Dmx!parse

LEMMA SameNew ==
    ASSUME NEW t, NEW v
    PROVE  Dmx!Add(t, v) = Dec!Add(t, v) /\ Dmx!NewTable = Dec!NewTable
BY DEF Dec!Add, Dmx!Add, Dec!NewTable, Dmx!NewTable

-----------------------------------------------------------------------------
\* Reading, from packet to packet.
Reads(f, packets, j, n) ==
    /\ f[0] = Unread
    /\ \A i \in 1..n :
         f[i] = Read(IF packets[i].start THEN Unread ELSE f[i - 1], packets[i].data, j)

LEMMA SomeReads ==
    ASSUME NEW packets, NEW j, NEW n \in Nat
    PROVE  \E f : Reads(f, packets, j, n)
<1> DEFINE bad == {m \in Nat : ~\E f : Reads(f, packets, j, m)}
<1>1. SUFFICES ASSUME bad # {} PROVE FALSE
  OBVIOUS
<1>2. PICK m \in bad : \A k \in bad : m <= k
  <2>1. bad \subseteq Nat
    OBVIOUS
  <2> HIDE DEF bad
  <2> QED BY <1>1, <2>1, LeastNat
<1>3. m \in Nat /\ ~\E f : Reads(f, packets, j, m)
  OBVIOUS
<1>4. m # 0
  <2>1. Reads([i \in {0} |-> Unread], packets, j, 0)
    BY DEF Reads
  <2> QED BY <1>3, <2>1
<1>5. PICK f : Reads(f, packets, j, m - 1)
  <2>1. m - 1 \in Nat /\ ~(m <= m - 1)
    BY <1>3, <1>4
  <2> QED BY <1>2, <2>1
<1> HIDE DEF bad
<1> DEFINE next == Read(IF packets[m].start THEN Unread ELSE f[m - 1], packets[m].data, j)
           g == [i \in 0..m |-> IF i < m THEN f[i] ELSE next]
<1>6. ASSUME NEW i \in 1..m
      PROVE  g[i] = Read(IF packets[i].start THEN Unread ELSE g[i - 1], packets[i].data, j)
  <2>1. g[i - 1] = f[i - 1]
    BY <1>3
  <2>2. CASE i < m
    <3>1. i \in 1..(m - 1)
      BY <2>2, <1>3
    <3>2. f[i] = Read(IF packets[i].start THEN Unread ELSE f[i - 1], packets[i].data, j)
      BY <1>5, <3>1 DEF Reads
    <3>3. g[i] = f[i]
      BY <2>2, <1>3
    <3> HIDE DEF g
    <3> QED BY <2>1, <3>2, <3>3
  <2>3. CASE i = m
    <3>1. g[i] = next
      BY <2>3, <1>3
    <3> HIDE DEF g
    <3> QED BY <2>1, <2>3, <3>1
  <2> QED BY <1>3, <2>2, <2>3
<1>7. g[0] = Unread
  <2>1. g[0] = f[0]
    BY <1>3, <1>4
  <2> QED BY <1>5, <2>1 DEF Reads
<1>8. Reads(g, packets, j, m)
  <2> HIDE DEF g
  <2> QED BY <1>6, <1>7 DEF Reads
<1> QED
  BY <1>3, <1>8, Zenon

LEMMA ReadingStep ==
    ASSUME NEW packets, NEW j, Len(packets) \in Nat
    PROVE  Reads(Reading(packets, j), packets, j, Len(packets))
<1> DEFINE n == Len(packets)
           Is(g) == g = [i \in 0..n |->
                           IF i = 0 THEN Unread
                           ELSE Read(IF packets[i].start THEN Unread ELSE g[i - 1],
                                     packets[i].data, j)]
           g == CHOOSE g : Is(g)
<1>1. Reading(packets, j) = g
  BY DEF Reading
<1>2. PICK f : Reads(f, packets, j, n)
  BY SomeReads
<1> DEFINE h == [i \in 0..n |-> f[i]]
<1>3. Is(h)
  <2>1. ASSUME NEW i \in 0..n
        PROVE  h[i] = IF i = 0 THEN Unread
                      ELSE Read(IF packets[i].start THEN Unread ELSE h[i - 1],
                                packets[i].data, j)
    <3>1. h[i] = f[i] /\ (i # 0 => i \in 1..n /\ h[i - 1] = f[i - 1])
      OBVIOUS
    <3> HIDE DEF h
    <3> QED BY <1>2, <3>1 DEF Reads
  <2>2. h = [i \in 0..n |-> h[i]]
    BY Zenon
  <2> HIDE DEF h
  <2> QED BY <2>1, <2>2
<1>4. Is(g)
  BY <1>3, Zenon
<1> HIDE DEF g, h
<1>5. g[0] = Unread
  BY <1>4
<1>6. ASSUME NEW i \in 1..n
      PROVE  g[i] = Read(IF packets[i].start THEN Unread ELSE g[i - 1], packets[i].data, j)
  <2>1. i \in 0..n /\ i # 0
    OBVIOUS
  <2> QED BY <1>4, <2>1
<1> QED
  BY <1>1, <1>5, <1>6 DEF Reads

-----------------------------------------------------------------------------
\* What is known of the streams.
Stream(sent, n) ==
    /\ sent \in Feeds
    /\ n = [q \in DOMAIN sent |-> n[q]]
    /\ \A q \in DOMAIN sent : n[q] \in 0..Len(sent[q])

Known(pat) == {pid \in DOMAIN pat.programs : pat.programs[pid] # 0}

\* What a receiver has learned of the programs is what some table said.
FromTables(sent, j, pat) ==
    \A pid \in DOMAIN pat.programs :
        \E programs \in ProgramsOf(sent, j) :
            pid \in DOMAIN programs /\ pat.programs[pid] = programs[pid]

LEMMA Packets ==
    ASSUME NEW sent \in Feeds, NEW q \in DOMAIN sent
    PROVE  /\ Len(sent[q]) \in Nat /\ DOMAIN sent[q] = 1..Len(sent[q])
           /\ sent[q] \in Seq(Range(sent[q]))
<1>1. sent[q] \in Seq(Range(sent[q]))
  BY FeedsAssumption
<1> QED
  BY <1>1, LenProperties

LEMMA Sections ==
    ASSUME NEW sent \in Feeds, NEW j \in Junk, NEW pat, FromTables(sent, j, pat),
           NEW q \in DOMAIN pat.programs
    PROVE  /\ q # 0
           /\ pat.programs[q] \in Nat
           /\ q \in DOMAIN sent => ReadAsSent(sent[q], j)
           /\ q \in DOMAIN sent /\ pat.programs[q] = 0 =>
                 \A k \in DOMAIN sent[q] : ~sent[q][k].fair
<1>1. PICK programs \in ProgramsOf(sent, j) :
        q \in DOMAIN programs /\ pat.programs[q] = programs[q]
  BY DEF FromTables
<1>2. q \in TablePids(sent, j)
  BY <1>1 DEF TablePids
<1>3. 0 \notin TablePids(sent, j)
  BY TablesAssumption
<1>4. q \in DOMAIN sent => ReadAsSent(sent[q], j)
  BY <1>2, TablesAssumption
<1>5. /\ programs[q] \in Nat
      /\ programs[q] = 0 /\ q \in DOMAIN sent => \A k \in DOMAIN sent[q] : ~sent[q][k].fair
  BY <1>1, TablesAssumption
<1> QED
  BY <1>1, <1>2, <1>3, <1>4, <1>5

\* Where the unit of a packet began.
LEMMA BeginsOnce ==
    ASSUME NEW packets, NEW n \in Nat, NEW k, NEW i, Begins(packets, k, n), Begins(packets, i, n)
    PROVE  i = k
<1>1. i \in 1..n /\ k \in 1..n
  BY DEF Begins
<1>2. i < k => k \in (i + 1)..n
  BY <1>1
<1>3. k < i => i \in (k + 1)..n
  BY <1>1
<1> QED
  BY <1>1, <1>2, <1>3 DEF Begins

LEMMA BeginsHere ==
    ASSUME NEW packets, NEW n \in Nat, packets[n + 1].start
    PROVE  Begins(packets, n + 1, n + 1)
BY DEF Begins

LEMMA BeginsBefore ==
    ASSUME NEW packets, NEW n \in Nat, ~packets[n + 1].start, NEW k, Begins(packets, k, n)
    PROVE  Begins(packets, k, n + 1)
BY DEF Begins

\* The packets of a table that is fair, of which not all have come.
FairAt(sent, n, q) ==
    /\ n[q] > 0
    /\ ~IsLast(sent[q], n[q])
    /\ \E k \in 1..n[q] : Begins(sent[q], k, n[q]) /\ sent[q][k].fair

\* What the rest of a table will disturb.
Cut(sent, n, pat, seen) ==
    \E q \in Known(pat) \cap DOMAIN sent : q \notin seen.whole /\ FairAt(sent, n, q)

\* _pmt is as if only the packets of the table had come of which each was seen.
InPlace(sent, j, n, pat, pmt, seen) ==
    \/ seen.whole = {}
    \/ \E q \in Known(pat) \cap DOMAIN sent :
          /\ seen.whole = {q}
          /\ \E k \in 1..n[q] : Begins(sent[q], k, n[q])
          /\ pmt = Reading(sent[q], j)[n[q]].table

\* What was accepted of the table that is under way.
IsPart(sent, j, n, seen, part) ==
    /\ seen.whole = {} => part = <<>>
    /\ \A q \in seen.whole :
          part = IF IsLast(sent[q], n[q]) THEN <<>> ELSE Reading(sent[q], j)[n[q]].accepted

\* Beginnings of what is reported of a table.
GivenPart(sent, part) ==
    part = <<>> \/ \E t \in TablesOf(sent) : part = <<t>> \/ part = Reported(t)

\* What happens when a packet comes: it is the rest of a table that was not seen whole; or
\* what is accepted of it comes after what was accepted before of the same table, and
\* that is all, or not; or it belongs to another table, which cuts the one before.
Moves(sent, seen, part, seen2, part2, new, cut2) ==
    \/ seen2.stray /\ seen2.due = seen.due /\ part2 = <<>>
    \/ \E base :
          /\ base = part \/ (base = <<>> /\ cut2)
          /\ (seen2.stray <=> seen.stray)
          /\ GivenPart(sent, base \o new)
          /\ \/ part2 = base \o new /\ seen2.due = seen.due
             \/ part2 = <<>> /\ \E t \in TablesOf(sent) :
                                   base \o new = Reported(t) /\ seen2.due = Append(seen.due, t)

LEMMA ReportedParts ==
    ASSUME NEW t, NEW m \in 0..Len(Reported(t))
    PROVE  SubSeq(Reported(t), 1, m) \in {<<>>, <<t>>, Reported(t)}
<1> DEFINE s == Reported(t)
           S == {t, t \o t}
<1>1. s = <<t>> \/ s = <<t, t \o t>>
  BY DEF Reported
<1>2. s \in Seq(S) /\ Len(s) \in {1, 2} /\ s[1] = t
  <2>1. CASE s = <<t>>
    BY <2>1
  <2>2. CASE s = <<t, t \o t>>
    BY <2>2
  <2> HIDE DEF s
  <2> QED BY <1>1, <2>1, <2>2
<1> HIDE DEF s
<1>0. m \in 0..Len(s)
  BY DEF s
<1>3. m = 0 \/ m = 1 \/ m = Len(s)
  <2>1. Len(s) = 1 \/ Len(s) = 2
    BY <1>2
  <2>2. ASSUME Len(s) = 1 PROVE m = 0 \/ m = 1
    <3>1. m \in 0..1
      BY <1>0, <2>2
    <3> QED BY <3>1
  <2>3. ASSUME Len(s) = 2 PROVE m = 0 \/ m = 1 \/ m = 2
    <3>1. m \in 0..2
      BY <1>0, <2>3
    <3> QED BY <3>1
  <2> QED BY <2>1, <2>2, <2>3
<1>4. CASE m = 0
  BY <1>4, SubSeqEmpty DEF s
<1>5. CASE m = 1
  <2>0. /\ SubSeq(s, 1, 1) \in Seq(S) /\ Len(SubSeq(s, 1, 1)) = 1
        /\ SubSeq(s, 1, 1)[1] = s[1]
    <3>1. \A i \in 1..1 : s[i] \in S
      BY <1>2
    <3> HIDE DEF S
    <3>2. \A i \in 1..(1 - 1 + 1) : SubSeq(s, 1, 1)[i] = s[1 + i - 1]
      BY <3>1, SubSeqProperties
    <3> QED BY <3>1, <3>2, SubSeqProperties
  <2>1. SubSeq(s, 1, 1) = <<t>>
    <3>1. <<t>> \in Seq(S) /\ Len(<<t>>) = 1 /\ <<t>>[1] = t
      OBVIOUS
    <3>2. \A i \in 1..1 : SubSeq(s, 1, 1)[i] = <<t>>[i]
      BY <1>2, <2>0, <3>1
    <3> HIDE DEF S
    <3> QED BY <2>0, <3>1, <3>2, SeqEqual
  <2> QED BY <1>5, <2>1 DEF s
<1>6. CASE m = Len(s)
  BY <1>2, <1>6, SubSeqFull DEF s
<1> QED
  BY <1>3, <1>4, <1>5, <1>6

\* What is accepted of a table.
LEMMA AcceptedPart ==
    ASSUME NEW sent \in Feeds, NEW j, NEW q \in DOMAIN sent, ReadAsSent(sent[q], j),
           NEW m \in 1..Len(sent[q]), NEW k, Begins(sent[q], k, m)
    PROVE  LET a == Reading(sent[q], j)[m].accepted
               p == sent[q][k]
           IN  /\ GivenPart(sent, a)
               /\ ~p.fair => a = <<>>
               /\ IsLast(sent[q], m) => a = ToReport(p)
               /\ p.table \in TablesOf(sent)
<1> DEFINE a == Reading(sent[q], j)[m].accepted
           p == sent[q][k]
<1>1. DOMAIN sent[q] = 1..Len(sent[q]) /\ Len(sent[q]) \in Nat /\ k \in 1..m
  BY Packets DEF Begins
<1>2. k \in DOMAIN sent[q] /\ m \in DOMAIN sent[q]
  BY <1>1
<1>3. p.table \in TablesOf(sent)
  BY <1>2 DEF TablesOf
<1>4. /\ \E i \in 0..Len(ToReport(p)) : a = SubSeq(ToReport(p), 1, i)
      /\ IsLast(sent[q], m) => a = ToReport(p)
  <2>1. AcceptedAsSent(sent[q], j, k, m)
    BY <1>1, <1>2 DEF ReadAsSent
  <2> QED BY <2>1, Zenon DEF AcceptedAsSent
<1> HIDE DEF a
<1>5. CASE p.fair
  <2>1. ToReport(p) = Reported(p.table)
    BY <1>5 DEF ToReport
  <2> DEFINE t == p.table
  <2>2. PICK i \in 0..Len(Reported(t)) : a = SubSeq(Reported(t), 1, i)
    BY <1>4, <2>1
  <2>3. a \in {<<>>, <<t>>, Reported(t)}
    BY <2>2, ReportedParts
  <2>4. GivenPart(sent, a)
    BY <1>3, <2>3 DEF GivenPart
  <2> QED BY <1>3, <1>4, <1>5, <2>4 DEF a
<1>6. CASE ~p.fair
  <2>1. ToReport(p) = <<>>
    BY <1>6 DEF ToReport
  <2>2. PICK i \in 0..Len(<<>>) : a = SubSeq(<<>>, 1, i)
    BY <1>4, <2>1
  <2>3. a = <<>>
    BY <2>2
  <2> QED BY <1>3, <1>4, <2>3 DEF a, GivenPart
<1> QED
  BY <1>5, <1>6

\* What a packet does to "seen" when it is of a table, and each before it of that table
\* was seen: k is the packet with which the table began.
Sees(sent, q, k, m, seen, seen2) ==
    /\ seen2.whole = {q}
    /\ (seen2.stray <=> seen.stray)
    /\ seen2.due = IF IsLast(sent[q], m) /\ sent[q][k].fair
                   THEN Append(seen.due, sent[q][k].table) ELSE seen.due

\* What holds after a packet.
Goes(sent, j, n, pat, pmt, seen, part, seen2, new) ==
    \E part2 : /\ InPlace(sent, j, n, pat, pmt, seen2)
               /\ IsPart(sent, j, n, seen2, part2)
               /\ Moves(sent, seen, part, seen2, part2, new, Cut(sent, n, pat, seen2))

\* That of a new table is the beginning, after which that of another is cut.
Base(base, part, cut) == base = part \/ (base = <<>> /\ cut)

\* A packet of a table each packet of which was seen: the m-th of its PID.
LEMMA TableGoesOn ==
    ASSUME NEW sent \in Feeds, NEW j \in Junk, NEW pat, FromTables(sent, j, pat),
           NEW q \in Known(pat), q \in DOMAIN sent, NEW m \in 1..Len(sent[q]),
           NEW k, Begins(sent[q], k, m), NEW n, n[q] = m, NEW pmt,
           pmt = Reading(sent[q], j)[m].table, NEW seen, NEW seen2,
           Sees(sent, q, k, m, seen, seen2),
           NEW part, NEW base, NEW new, Base(base, part, Cut(sent, n, pat, seen2)),
           Cat(base, new) = Reading(sent[q], j)[m].accepted
    PROVE  Goes(sent, j, n, pat, pmt, seen, part, seen2, new)
<1> DEFINE a == Reading(sent[q], j)[m].accepted
           p == sent[q][k]
           part2 == IF IsLast(sent[q], m) THEN <<>> ELSE a
           cut2 == Cut(sent, n, pat, seen2)
<1>0. /\ seen2.whole = {q} /\ (seen2.stray <=> seen.stray)
      /\ seen2.due = IF IsLast(sent[q], m) /\ p.fair THEN Append(seen.due, p.table) ELSE seen.due
  BY DEF Sees
<1>1. InPlace(sent, j, n, pat, pmt, seen2)
  <2>1. k \in 1..n[q] /\ Begins(sent[q], k, n[q])
    BY DEF Begins
  <2> QED BY <1>0, <2>1 DEF InPlace
<1>2. IsPart(sent, j, n, seen2, part2)
  BY <1>0 DEF IsPart
<1>3. ReadAsSent(sent[q], j)
  BY Sections DEF Known
<1>4. /\ GivenPart(sent, a)
      /\ ~p.fair => a = <<>>
      /\ IsLast(sent[q], m) => a = ToReport(p)
      /\ p.table \in TablesOf(sent)
  BY <1>3, AcceptedPart
<1> HIDE DEF a, p, cut2
<1>5. base \o new = a /\ (base = part \/ (base = <<>> /\ cut2))
  BY DEF a, Cat, Base, cut2
<1>6. CASE ~IsLast(sent[q], m)
  <2>1. part2 = base \o new /\ seen2.due = seen.due
    BY <1>0, <1>5, <1>6
  <2>2. GivenPart(sent, base \o new)
    BY <1>4, <1>5
  <2> HIDE DEF part2
  <2>3. Moves(sent, seen, part, seen2, part2, new, cut2)
    BY <1>0, <1>5, <2>1, <2>2 DEF Moves
  <2> QED BY <1>1, <1>2, <2>3 DEF Goes, cut2
<1>7. CASE IsLast(sent[q], m) /\ ~p.fair
  <2>1. part2 = base \o new /\ seen2.due = seen.due
    BY <1>0, <1>4, <1>5, <1>7
  <2>2. GivenPart(sent, base \o new)
    BY <1>4, <1>5
  <2> HIDE DEF part2
  <2>3. Moves(sent, seen, part, seen2, part2, new, cut2)
    BY <1>0, <1>5, <2>1, <2>2 DEF Moves
  <2> QED BY <1>1, <1>2, <2>3 DEF Goes, cut2
<1>8. CASE IsLast(sent[q], m) /\ p.fair
  <2>1. part2 = <<>> /\ seen2.due = Append(seen.due, p.table)
    BY <1>0, <1>8
  <2>2. GivenPart(sent, base \o new) /\ base \o new = Reported(p.table)
    BY <1>4, <1>5, <1>8 DEF ToReport
  <2> HIDE DEF part2
  <2>3. Moves(sent, seen, part, seen2, part2, new, cut2)
    BY <1>0, <1>4, <1>5, <2>1, <2>2 DEF Moves
  <2> QED BY <1>1, <1>2, <2>3 DEF Goes, cut2
<1> QED
  BY <1>6, <1>7, <1>8

\* A table of which some was accepted is fair.
LEMMA PartIsFair ==
    ASSUME NEW sent \in Feeds, NEW j \in Junk, NEW pat, FromTables(sent, j, pat),
           NEW n, Stream(sent, n), NEW pmt, NEW seen, InPlace(sent, j, n, pat, pmt, seen),
           NEW part, IsPart(sent, j, n, seen, part), part # <<>>
    PROVE  \E q \in Known(pat) \cap DOMAIN sent :
              seen.whole = {q} /\ FairAt(sent, n, q)
<1>1. PICK q \in Known(pat) \cap DOMAIN sent :
          /\ seen.whole = {q}
          /\ \E k \in 1..n[q] : Begins(sent[q], k, n[q])
          /\ pmt = Reading(sent[q], j)[n[q]].table
  BY DEF InPlace, IsPart
<1>2. PICK k \in 1..n[q] : Begins(sent[q], k, n[q])
  BY <1>1
<1>3. ~IsLast(sent[q], n[q]) /\ part = Reading(sent[q], j)[n[q]].accepted
  BY <1>1 DEF IsPart
<1>4. n[q] \in 1..Len(sent[q]) /\ n[q] > 0
  <2>1. n[q] \in 0..Len(sent[q]) /\ Len(sent[q]) \in Nat
    BY Packets DEF Stream
  <2> QED BY <1>2, <2>1
<1>5. ReadAsSent(sent[q], j)
  BY Sections DEF Known
<1>6. sent[q][k].fair
  BY <1>2, <1>3, <1>4, <1>5, AcceptedPart
<1> QED
  BY <1>1, <1>2, <1>3, <1>4, <1>6 DEF FairAt

\* One more packet of a PID.
Next1(n, pid) == [n EXCEPT ![pid] = @ + 1]

LEMMA NextPacket ==
    ASSUME NEW sent, NEW n, Stream(sent, n), NEW pid \in DOMAIN sent, n[pid] < Len(sent[pid])
    PROVE  /\ Stream(sent, Next1(n, pid))
           /\ n[pid] \in Nat
           /\ Next1(n, pid)[pid] = n[pid] + 1 /\ n[pid] + 1 \in 1..Len(sent[pid])
           /\ \A q \in DOMAIN sent : q # pid => Next1(n, pid)[q] = n[q]
<1>1. \A q \in DOMAIN sent : n[q] \in 0..Len(sent[q]) /\ Len(sent[q]) \in Nat
  BY Packets DEF Stream
<1>2. /\ DOMAIN Next1(n, pid) = DOMAIN sent /\ Next1(n, pid)[pid] = n[pid] + 1
      /\ \A q \in DOMAIN sent : q # pid => Next1(n, pid)[q] = n[q]
  BY DEF Stream, Next1
<1>3. n[pid] \in Nat /\ n[pid] + 1 \in 1..Len(sent[pid]) /\ n[pid] + 1 \in 0..Len(sent[pid])
  BY <1>1
<1>4. Next1(n, pid) = [q \in DOMAIN sent |-> Next1(n, pid)[q]]
  BY DEF Stream, Next1
<1>5. \A q \in DOMAIN sent : Next1(n, pid)[q] \in 0..Len(sent[q])
  BY <1>1, <1>2, <1>3
<1> QED
  BY <1>2, <1>3, <1>4, <1>5 DEF Stream

\* A table that was cut stays so until the rest of it comes.
LEMMA CutStays ==
    ASSUME NEW sent, NEW n, Stream(sent, n), NEW pid \in DOMAIN sent, n[pid] < Len(sent[pid]),
           NEW pat, NEW pat2, Known(pat) \subseteq Known(pat2), NEW seen, NEW seen2,
           seen2.whole \subseteq seen.whole \cup {pid},
           pid \in Known(pat) /\ ~sent[pid][n[pid] + 1].start /\ pid \notin seen.whole =>
              seen2.stray,
           Cut(sent, n, pat, seen)
    PROVE  seen2.stray \/ Cut(sent, Next1(n, pid), pat2, seen2)
<1>1. PICK q \in Known(pat) \cap DOMAIN sent : q \notin seen.whole /\ FairAt(sent, n, q)
  BY DEF Cut
<1>2. CASE q = pid
  <2>1. ~sent[pid][n[pid] + 1].start
    BY <1>1, <1>2 DEF FairAt, IsLast
  <2> QED BY <1>1, <1>2, <2>1
<1>3. CASE q # pid
  <2>1. Next1(n, pid)[q] = n[q]
    BY <1>3, NextPacket
  <2>2. FairAt(sent, Next1(n, pid), q)
    BY <1>1, <2>1 DEF FairAt
  <2>3. q \in Known(pat2) \cap DOMAIN sent /\ q \notin seen2.whole
    BY <1>1, <1>3
  <2> QED BY <2>2, <2>3 DEF Cut
<1> QED
  BY <1>2, <1>3

\* And one of which some was accepted is cut when another takes its place.
LEMMA PartIsCut ==
    ASSUME NEW sent \in Feeds, NEW j \in Junk, NEW pat, FromTables(sent, j, pat),
           NEW n, Stream(sent, n), NEW pmt, NEW seen, InPlace(sent, j, n, pat, pmt, seen),
           NEW part, IsPart(sent, j, n, seen, part), part # <<>>,
           NEW pid \in DOMAIN sent, n[pid] < Len(sent[pid]), sent[pid][n[pid] + 1].start,
           NEW seen2, seen2.whole \subseteq {pid}
    PROVE  Cut(sent, Next1(n, pid), pat, seen2)
<1>1. PICK q \in Known(pat) \cap DOMAIN sent : seen.whole = {q} /\ FairAt(sent, n, q)
  BY PartIsFair
<1>2. q # pid
  BY <1>1 DEF FairAt, IsLast
<1>3. Next1(n, pid)[q] = n[q]
  BY <1>2, NextPacket
<1>4. FairAt(sent, Next1(n, pid), q)
  BY <1>1, <1>3 DEF FairAt
<1> QED
  BY <1>1, <1>2, <1>4 DEF Cut

-----------------------------------------------------------------------------
\* What holds of a receiver whose table of programs is pat, whose _pmt is pmt, and that
\* saw the tables that "seen" says.
Follows(sent, j, n, pat, pmt, seen, part) ==
    /\ InPlace(sent, j, n, pat, pmt, seen)
    /\ IsPart(sent, j, n, seen, part)
    /\ GivenPart(sent, part)

\* What parse() accepts.
NewOf(parsed) == IF parsed.ok THEN <<parsed.table.elmts>> ELSE <<>>

LEMMA GivenSeq ==
    ASSUME NEW sent, NEW part, GivenPart(sent, part)
    PROVE  /\ \E S : part \in Seq(S)
           /\ part \o <<>> = part /\ <<>> \o part = part
<1>1. \E S : part \in Seq(S)
  <2>1. CASE part = <<>>
    BY <2>1, EmptySeq
  <2>2. ASSUME NEW t, part = <<t>> PROVE \E S : part \in Seq(S)
    <3>1. part \in Seq({t})
      BY <2>2
    <3> QED BY <3>1
  <2>3. ASSUME NEW t, part = Reported(t) PROVE \E S : part \in Seq(S)
    <3>1. part \in Seq({t, t \o t})
      <4>1. part = <<t>> \/ part = <<t, t \o t>>
        BY <2>3 DEF Reported
      <4>2. ASSUME part = <<t>> PROVE part \in Seq({t, t \o t})
        BY <4>2
      <4>3. ASSUME part = <<t, t \o t>> PROVE part \in Seq({t, t \o t})
        BY <4>3
      <4> QED BY <4>1, <4>2, <4>3
    <3> QED BY <3>1
  <2> QED BY <2>1, <2>2, <2>3 DEF GivenPart
<1> QED
  BY <1>1, ConcatEmptySeq

LEMMA ReadAccepts ==
    ASSUME NEW sent, NEW r, GivenPart(sent, r.accepted), NEW data, NEW j
    PROVE  Read(r, data, j).accepted =
             r.accepted \o NewOf(Dec!parse(Dec!Add(r.table, data), j))
<1> DEFINE parsed == Dec!parse(Dec!Add(r.table, data), j)
           a == r.accepted
           e == parsed.table.elmts
<1>1. Read(r, data, j).accepted = IF parsed.ok THEN Append(a, e) ELSE a
  BY DEF Read
<1>2. PICK S : a \in Seq(S)
  BY GivenSeq
<1>3. a \o <<>> = a
  BY GivenSeq
<1>4. Append(a, e) = a \o <<e>>
  <2> DEFINE T == S \cup {e}
  <2>1. e \in T /\ S \subseteq T
    OBVIOUS
  <2> HIDE DEF T, e, a
  <2>2. a \in Seq(T)
    BY <1>2, <2>1, SeqMonotonic
  <2> QED BY <2>1, <2>2, AppendIsConcat
<1> HIDE DEF parsed, a, e
<1>5. a \o NewOf(parsed) = IF parsed.ok THEN Append(a, e) ELSE a
  BY <1>3, <1>4 DEF NewOf, e
<1> QED
  BY <1>1, <1>5 DEF parsed, a

\* A PID that is known to be of a table stays so.
Grows(pat, pat2) == Known(pat) \subseteq Known(pat2)

\* A packet that is not of a table.
LEMMA OtherGoes ==
    ASSUME NEW sent \in Feeds, NEW j, NEW n, Stream(sent, n), NEW pid \in DOMAIN sent,
           n[pid] < Len(sent[pid]), NEW pat, NEW pmt, NEW seen, NEW part,
           Follows(sent, j, n, pat, pmt, seen, part), pid \notin Known(pat),
           NEW pat2, Grows(pat, pat2), NEW seen2, seen2.whole = seen.whole,
           seen2.due = seen.due, (seen2.stray <=> seen.stray),
           NEW new, new = <<>>
    PROVE  Goes(sent, j, Next1(n, pid), pat2, pmt, seen, part, seen2, new)
<1> DEFINE m == Next1(n, pid)
<1>1. \A q \in seen.whole : q \in Known(pat) \cap DOMAIN sent /\ m[q] = n[q]
  <2>1. \A q \in seen.whole : q \in Known(pat) \cap DOMAIN sent
    BY DEF Follows, InPlace
  <2> QED BY <2>1, NextPacket
<1> HIDE DEF m
<1>2. InPlace(sent, j, m, pat2, pmt, seen2)
  <2>1. CASE seen.whole = {}
    BY <2>1 DEF InPlace
  <2>2. CASE seen.whole # {}
    <3>1. PICK q \in Known(pat) \cap DOMAIN sent :
             /\ seen.whole = {q}
             /\ \E k \in 1..n[q] : Begins(sent[q], k, n[q])
             /\ pmt = Reading(sent[q], j)[n[q]].table
      BY <2>2 DEF Follows, InPlace
    <3>2. m[q] = n[q] /\ q \in Known(pat2) \cap DOMAIN sent
      BY <1>1, <3>1 DEF Grows
    <3> QED BY <3>1, <3>2 DEF InPlace
  <2> QED BY <2>1, <2>2
<1>3. IsPart(sent, j, m, seen2, part)
  BY <1>1 DEF Follows, IsPart
<1>4. part \o <<>> = part /\ GivenPart(sent, part)
  BY GivenSeq DEF Follows
<1>5. Moves(sent, seen, part, seen2, part, <<>>, Cut(sent, m, pat2, seen2))
  BY <1>4 DEF Moves
<1> QED
  BY <1>2, <1>3, <1>5 DEF Goes, m

\* A packet that starts the network information table, for the demultiplexer.
LEMMA DisturbGoes ==
    ASSUME NEW sent \in Feeds, NEW j \in Junk, NEW n, Stream(sent, n), NEW pid \in DOMAIN sent,
           n[pid] < Len(sent[pid]), sent[pid][n[pid] + 1].start,
           NEW pat, FromTables(sent, j, pat), NEW pmt, NEW seen, NEW part,
           Follows(sent, j, n, pat, pmt, seen, part), NEW pmt2, NEW seen2, seen2.whole = {},
           seen2.due = seen.due, (seen2.stray <=> seen.stray),
           NEW new, new = <<>>
    PROVE  Goes(sent, j, Next1(n, pid), pat, pmt2, seen, part, seen2, new)
<1> DEFINE m == Next1(n, pid)
           none == <<>>
<1>1. InPlace(sent, j, m, pat, pmt2, seen2) /\ IsPart(sent, j, m, seen2, <<>>)
  BY DEF InPlace, IsPart
<1>2. part = <<>> \/ Cut(sent, m, pat, seen2)
  BY PartIsCut DEF Follows
<1>3. none \o <<>> = none /\ GivenPart(sent, none) /\ none = <<>>
  BY DEF GivenPart
<1> HIDE DEF m, none
<1>4. Moves(sent, seen, part, seen2, none, <<>>, Cut(sent, m, pat, seen2))
  BY <1>2, <1>3, Zenon DEF Moves
<1> QED
  BY <1>1, <1>3, <1>4 DEF Goes, m

\* The rest of a table that was not seen whole.
LEMMA StrayGoes ==
    ASSUME NEW sent, NEW j, NEW n, NEW pat, NEW pmt, NEW seen, NEW part, NEW new,
           NEW seen2, seen2.whole = {}, seen2.due = seen.due, seen2.stray
    PROVE  Goes(sent, j, n, pat, pmt, seen, part, seen2, new)
<1>1. InPlace(sent, j, n, pat, pmt, seen2) /\ IsPart(sent, j, n, seen2, <<>>)
  BY DEF InPlace, IsPart
<1>2. Moves(sent, seen, part, seen2, <<>>, new, Cut(sent, n, pat, seen2))
  BY DEF Moves
<1> QED
  BY <1>1, <1>2 DEF Goes

\* A packet that starts a table.
LEMMA StartGoes ==
    ASSUME NEW sent \in Feeds, NEW j \in Junk, NEW n, Stream(sent, n), NEW pid \in DOMAIN sent,
           n[pid] < Len(sent[pid]), NEW p, p = sent[pid][n[pid] + 1], p.start,
           NEW pat, FromTables(sent, j, pat), NEW pmt, NEW seen, NEW part,
           Follows(sent, j, n, pat, pmt, seen, part), pid \in Known(pat),
           NEW parsed, parsed = Dec!parse(Dec!Add(Dec!NewTable, p.data), j),
           NEW seen2, Sees(sent, pid, n[pid] + 1, n[pid] + 1, seen, seen2)
    PROVE  Goes(sent, j, Next1(n, pid), pat, parsed.table, seen, part, seen2, NewOf(parsed))
<1> DEFINE m == n[pid] + 1
           n2 == Next1(n, pid)
           new == NewOf(parsed)
           cut2 == Cut(sent, n2, pat, seen2)
           base == <<>>
<1>1. m \in 1..Len(sent[pid]) /\ n2[pid] = m /\ n[pid] \in Nat
  BY NextPacket
<1>2. Begins(sent[pid], m, m)
  BY <1>1, BeginsHere
<1>3. Reading(sent[pid], j)[m] = Read(Unread, p.data, j)
  <2>1. Len(sent[pid]) \in Nat
    BY Packets
  <2>2. Reads(Reading(sent[pid], j), sent[pid], j, Len(sent[pid]))
    BY <2>1, ReadingStep
  <2> HIDE DEF m
  <2> QED BY <1>1, <2>2 DEF Reads, m
<1>4. /\ Reading(sent[pid], j)[m].table = parsed.table
      /\ Reading(sent[pid], j)[m].accepted = Cat(base, new)
  <2>1. GivenPart(sent, Unread.accepted) /\ Unread.accepted = <<>> /\ Unread.table = Dec!NewTable
    BY DEF GivenPart, Unread
  <2> DEFINE data == p.data
             u == Unread
             x == Dec!parse(Dec!Add(u.table, data), j)
  <2>2. Read(u, data, j).accepted = Cat(base, new)
    <3>1. GivenPart(sent, u.accepted)
      BY <2>1
    <3> HIDE DEF u, data, new, base
    <3>2. Read(u, data, j).accepted = u.accepted \o NewOf(x)
      BY <3>1, ReadAccepts
    <3> HIDE DEF x
    <3>3. x = parsed /\ u.accepted = base
      BY <2>1 DEF x, u, data, base
    <3> QED BY <3>2, <3>3 DEF new, Cat
  <2>3. Read(Unread, p.data, j).table = parsed.table
    BY <2>1 DEF Read
  <2> HIDE DEF new
  <2> QED BY <1>3, <2>2, <2>3
<1>5. Base(base, part, cut2)
  <2>1. seen2.whole \subseteq {pid}
    BY DEF Sees
  <2>2. part = <<>> \/ cut2
    BY <2>1, PartIsCut DEF Follows
  <2> HIDE DEF cut2
  <2> QED BY <2>2 DEF Base
<1>6. Sees(sent, pid, m, m, seen, seen2) /\ parsed.table = Reading(sent[pid], j)[m].table
  BY <1>4
<1> HIDE DEF m, n2, new, base
<1>7. Base(base, part, Cut(sent, n2, pat, seen2))
  BY <1>5
<1> HIDE DEF cut2
<1>8. Goes(sent, j, n2, pat, parsed.table, seen, part, seen2, new)
  BY <1>1, <1>2, <1>4, <1>6, <1>7, TableGoesOn
<1> QED
  BY <1>8 DEF n2, new

\* One that goes on with a table.
LEMMA RestGoes ==
    ASSUME NEW sent \in Feeds, NEW j \in Junk, NEW n, Stream(sent, n), NEW pid \in DOMAIN sent,
           n[pid] < Len(sent[pid]), NEW p, p = sent[pid][n[pid] + 1], ~p.start,
           NEW pat, FromTables(sent, j, pat), NEW pmt, NEW seen, NEW part,
           Follows(sent, j, n, pat, pmt, seen, part), pid \in Known(pat), pid \in seen.whole,
           NEW parsed, parsed = Dec!parse(Dec!Add(pmt, p.data), j),
           NEW seen2, NEW k, Begins(sent[pid], k, n[pid] + 1),
           Sees(sent, pid, k, n[pid] + 1, seen, seen2)
    PROVE  Goes(sent, j, Next1(n, pid), pat, parsed.table, seen, part, seen2, NewOf(parsed))
<1> DEFINE m == n[pid] + 1
           n2 == Next1(n, pid)
           new == NewOf(parsed)
           cut2 == Cut(sent, n2, pat, seen2)
           r == Reading(sent[pid], j)[n[pid]]
<1>1. m \in 1..Len(sent[pid]) /\ n2[pid] = m /\ n[pid] \in Nat /\ m - 1 = n[pid]
  BY NextPacket
<1>2. ~IsLast(sent[pid], n[pid])
  BY <1>1 DEF IsLast
<1>3. pmt = r.table /\ part = r.accepted
  BY <1>2 DEF Follows, InPlace, IsPart
<1>4. Reading(sent[pid], j)[m] = Read(r, p.data, j)
  <2>1. Len(sent[pid]) \in Nat
    BY Packets
  <2>2. Reads(Reading(sent[pid], j), sent[pid], j, Len(sent[pid]))
    BY <2>1, ReadingStep
  <2> HIDE DEF m
  <2> QED BY <1>1, <2>2 DEF Reads, m
<1> HIDE DEF r
<1>5. /\ Reading(sent[pid], j)[m].table = parsed.table
      /\ Reading(sent[pid], j)[m].accepted = Cat(part, new)
  <2>1. GivenPart(sent, r.accepted)
    BY <1>3 DEF Follows
  <2> DEFINE data == p.data
             x == Dec!parse(Dec!Add(r.table, data), j)
  <2>2. Read(r, data, j).accepted = Cat(part, new)
    <3> HIDE DEF data, new
    <3>2. Read(r, data, j).accepted = r.accepted \o NewOf(x)
      BY <2>1, ReadAccepts
    <3> HIDE DEF x
    <3>3. x = parsed
      BY <1>3 DEF x, data
    <3> QED BY <1>3, <3>2, <3>3 DEF new, Cat
  <2>3. Read(r, p.data, j).table = parsed.table
    BY <1>3 DEF Read
  <2> HIDE DEF new
  <2> QED BY <1>3, <1>4, <2>2, <2>3
<1>6. /\ Sees(sent, pid, k, m, seen, seen2) /\ parsed.table = Reading(sent[pid], j)[m].table
      /\ Begins(sent[pid], k, m)
  BY <1>5
<1>7. Base(part, part, Cut(sent, n2, pat, seen2))
  BY DEF Base
<1> HIDE DEF m, n2, new, cut2
<1>8. Goes(sent, j, n2, pat, parsed.table, seen, part, seen2, new)
  BY <1>1, <1>5, <1>6, <1>7, TableGoesOn
<1> QED
  BY <1>8 DEF n2, new

-----------------------------------------------------------------------------
\* TsDecoder's reports: those of the tables that are due, and of what is under way.
ReportsOf(due) == FlattenSeq([k \in 1..Len(due) |-> Reported(due[k])])

Reporting(log, due, part, loose) ==
    \E S : \E r \in Seq(S) :
        /\ part \in Seq(S)
        /\ log = r \o part
        /\ Includes(r, due)
        /\ loose \/ r = ReportsOf(due)

LEMMA ReportsAppend ==
    ASSUME NEW T, NEW due \in Seq(T), NEW t \in T
    PROVE  ReportsOf(Append(due, t)) = ReportsOf(due) \o Reported(t)
<1> DEFINE S == T \cup {u \o u : u \in T}
           list(d) == [k \in 1..Len(d) |-> Reported(d[k])]
           u == Append(due, t)
           n == Len(due)
<1>1. n \in Nat /\ u \in Seq(T) /\ Len(u) = n + 1 /\ u[n + 1] = t /\ \A k \in 1..n : u[k] = due[k]
  BY AppendProperties, LenProperties
<1>2. \A x \in T : Reported(x) \in Seq(S)
  <2>1. ASSUME NEW x \in T PROVE Reported(x) \in Seq(S)
    <3>1. x \in S /\ x \o x \in S
      OBVIOUS
    <3> HIDE DEF S
    <3>2. <<x>> \in Seq(S) /\ <<x, x \o x>> \in Seq(S)
      BY <3>1
    <3> QED BY <3>2 DEF Reported
  <2> QED BY <2>1
<1>3. \A d \in Seq(T) : list(d) \in Seq(Seq(S)) /\ Len(list(d)) = Len(d)
  <2>1. ASSUME NEW d \in Seq(T) PROVE list(d) \in Seq(Seq(S)) /\ Len(list(d)) = Len(d)
    <3>1. Len(d) \in Nat /\ \A k \in 1..Len(d) : d[k] \in T
      BY LenProperties, ElementOfSeq
    <3>2. \A k \in 1..Len(d) : list(d)[k] \in Seq(S)
      BY <1>2, <3>1
    <3>3. DOMAIN list(d) = 1..Len(d) /\ list(d) = [k \in DOMAIN list(d) |-> list(d)[k]]
      OBVIOUS
    <3> HIDE DEF list, S
    <3> QED BY <3>1, <3>2, <3>3, IsSeq
  <2> QED BY <2>1
<1>4. list(u) = Append(list(due), Reported(t))
  <2>1. list(due) \in Seq(Seq(S)) /\ Len(list(due)) = n /\ list(u) \in Seq(Seq(S))
        /\ Len(list(u)) = n + 1 /\ Reported(t) \in Seq(S)
    BY <1>1, <1>2, <1>3
  <2> DEFINE v == Append(list(due), Reported(t))
  <2>2. v \in Seq(Seq(S)) /\ Len(v) = n + 1 /\ v[n + 1] = Reported(t)
        /\ \A k \in 1..n : v[k] = list(due)[k]
    <3> HIDE DEF list, S, n
    <3> QED BY <2>1, AppendProperties
  <2>3. /\ \A k \in 1..n : list(due)[k] = Reported(due[k]) /\ list(u)[k] = Reported(u[k])
        /\ list(u)[n + 1] = Reported(u[n + 1])
    BY <1>1
  <2> HIDE DEF list, v, S, u, n
  <2>4. \A k \in 1..(n + 1) : list(u)[k] = v[k]
    <3>1. \A k \in 1..(n + 1) : k \in 1..n \/ k = n + 1
      BY <1>1
    <3> QED BY <1>1, <2>2, <2>3, <3>1
  <2> QED BY <2>1, <2>2, <2>4, SeqEqual DEF v
<1>5. list(due) \in Seq(Seq(S)) /\ Reported(t) \in Seq(S)
  BY <1>2, <1>3
<1> HIDE DEF S
<1>6. FlattenSeq(Append(list(due), Reported(t))) = FlattenSeq(list(due)) \o Reported(t)
  <2> HIDE DEF list
  <2> QED BY <1>5, FlattenAppend
<1> QED
  BY <1>4, <1>6 DEF ReportsOf

LEMMA IncludesMore ==
    ASSUME NEW S, NEW r \in Seq(S), NEW x \in Seq(S), NEW due, Includes(r, due)
    PROVE  Includes(r \o x, due)
<1>1. PICK m \in [1..Len(due) -> 1..Len(r)] :
         \A i \in 1..Len(due) : r[m[i]] = due[i] /\ \A k \in 1..(i - 1) : m[k] < m[i]
  BY DEF Includes
<1> DEFINE u == r \o x
<1>2. /\ Len(r) \in Nat /\ Len(x) \in Nat /\ Len(u) = Len(r) + Len(x)
      /\ \A i \in 1..Len(r) : u[i] = r[i]
  BY ConcatProperties, LenProperties
<1> HIDE DEF u
<1>3. m \in [1..Len(due) -> 1..Len(u)]
  BY <1>2
<1>4. \A i \in 1..Len(due) : u[m[i]] = due[i]
  BY <1>1, <1>2
<1>5. Includes(u, due)
  BY <1>1, <1>3, <1>4 DEF Includes
<1> QED
  BY <1>5 DEF u

LEMMA IncludesNew ==
    ASSUME NEW S, NEW r \in Seq(S), NEW T, NEW due \in Seq(T), NEW t \in T, Includes(r, due),
           NEW x \in Seq(S), x = Reported(t)
    PROVE  Includes(r \o x, Append(due, t))
<1>1. PICK m \in [1..Len(due) -> 1..Len(r)] :
         \A i \in 1..Len(due) : r[m[i]] = due[i] /\ \A k \in 1..(i - 1) : m[k] < m[i]
  BY DEF Includes
<1> DEFINE u == r \o x
           d == Append(due, t)
           n == Len(due)
           g == [i \in 1..(n + 1) |-> IF i = n + 1 THEN Len(r) + 1 ELSE m[i]]
<1>2. Len(x) \in Nat /\ Len(x) > 0 /\ x[1] = t
  <2>1. x = <<t>> \/ x = <<t, t \o t>>
    BY DEF Reported
  <2>2. ASSUME x = <<t>> PROVE Len(x) \in Nat /\ Len(x) > 0 /\ x[1] = t
    BY <2>2
  <2>3. ASSUME x = <<t, t \o t>> PROVE Len(x) \in Nat /\ Len(x) > 0 /\ x[1] = t
    BY <2>3
  <2> QED BY <2>1, <2>2, <2>3
<1>3. /\ Len(r) \in Nat /\ Len(u) = Len(r) + Len(x)
      /\ \A i \in 1..Len(r) : u[i] = r[i]
      /\ u[Len(r) + 1] = t
  <2>1. /\ Len(r) \in Nat /\ Len(u) = Len(r) + Len(x)
        /\ \A i \in 1..(Len(r) + Len(x)) : u[i] = IF i <= Len(r) THEN r[i] ELSE x[i - Len(r)]
    BY ConcatProperties, LenProperties
  <2>2. Len(r) + 1 \in 1..(Len(r) + Len(x)) /\ ~(Len(r) + 1 <= Len(r)) /\ (Len(r) + 1) - Len(r) = 1
    BY <1>2, <2>1
  <2> HIDE DEF u
  <2>3. u[Len(r) + 1] = x[1]
    BY <2>1, <2>2
  <2>4. \A i \in 1..Len(r) : u[i] = r[i]
    BY <1>2, <2>1
  <2> QED BY <1>2, <2>1, <2>3, <2>4
<1>4. n \in Nat /\ Len(d) = n + 1 /\ d[n + 1] = t /\ \A i \in 1..n : d[i] = due[i]
  BY AppendProperties, LenProperties
<1> HIDE DEF u, d, n
<1>5. m \in [1..n -> 1..Len(r)]
  BY DEF n
<1>6. /\ g \in [1..(n + 1) -> 1..Len(u)] /\ g[n + 1] = Len(r) + 1
      /\ \A i \in 1..n : g[i] = m[i] /\ m[i] \in 1..Len(r)
  <2>1. \A i \in 1..n : i \in 1..(n + 1) /\ i # n + 1 /\ m[i] \in 1..Len(r)
    BY <1>4, <1>5
  <2>2. Len(r) + 1 \in 1..Len(u) /\ 1..Len(r) \subseteq 1..Len(u) /\ n + 1 \in 1..(n + 1)
    BY <1>2, <1>3, <1>4
  <2>3. \A i \in 1..(n + 1) : i \in 1..n \/ i = n + 1
    BY <1>4
  <2> QED BY <2>1, <2>2, <2>3
<1> HIDE DEF g
<1>7. \A i \in 1..(n + 1) : u[g[i]] = d[i] /\ \A k \in 1..(i - 1) : g[k] < g[i]
  <2>1. ASSUME NEW i \in 1..n
        PROVE  u[g[i]] = d[i] /\ \A k \in 1..(i - 1) : g[k] < g[i]
    <3>1. \A k \in 1..(i - 1) : k \in 1..n
      BY <1>4
    <3>2. r[m[i]] = due[i] /\ \A k \in 1..(i - 1) : m[k] < m[i]
      BY <1>1 DEF n
    <3> QED BY <1>3, <1>4, <1>6, <3>1, <3>2
  <2>2. u[g[n + 1]] = d[n + 1] /\ \A k \in 1..((n + 1) - 1) : g[k] < g[n + 1]
    <3>1. \A k \in 1..((n + 1) - 1) : k \in 1..n
      BY <1>4
    <3> QED BY <1>3, <1>4, <1>6, <3>1
  <2>3. \A i \in 1..(n + 1) : i \in 1..n \/ i = n + 1
    BY <1>4
  <2> QED BY <2>1, <2>2, <2>3
<1>8. Includes(u, d)
  BY <1>4, <1>6, <1>7 DEF Includes
<1> QED
  BY <1>8 DEF u, d

\* Sequences of which one begins another are of the same elements.
LEMMA NewSeq == ASSUME NEW parsed PROVE \E S : NewOf(parsed) \in Seq(S)
<1> DEFINE e == parsed.table.elmts
<1>1. <<e>> \in Seq({e}) /\ <<>> \in Seq({e})
  OBVIOUS
<1> HIDE DEF e
<1> QED
  BY <1>1 DEF NewOf, e

LEMMA ReportingMoves ==
    ASSUME NEW sent, NEW log, NEW due, due \in Seq(TablesOf(sent)), NEW part, NEW loose,
           Reporting(log, due, part, loose), NEW seen, due = seen.due, NEW seen2, NEW part2,
           NEW new, NEW Z, new \in Seq(Z), NEW cut2,
           Moves(sent, seen, part, seen2, part2, new, cut2),
           loose => seen2.stray \/ cut2
    PROVE  /\ Reporting(log \o new, seen2.due, part2, seen2.stray \/ cut2)
           /\ seen2.due \in Seq(TablesOf(sent))
<1> DEFINE log2 == log \o new
           loose2 == seen2.stray \/ cut2
<1>1. PICK Y : \E r \in Seq(Y) :
        /\ part \in Seq(Y)
        /\ log = r \o part
        /\ Includes(r, due)
        /\ loose \/ r = ReportsOf(due)
  BY DEF Reporting
<1>2. PICK r \in Seq(Y) :
        /\ part \in Seq(Y)
        /\ log = r \o part
        /\ Includes(r, due)
        /\ loose \/ r = ReportsOf(due)
  BY <1>1
<1> DEFINE S == Y \cup Z
<1>3. r \in Seq(S) /\ part \in Seq(S) /\ new \in Seq(S)
  <2>1. Y \subseteq S /\ Z \subseteq S
    OBVIOUS
  <2> HIDE DEF S
  <2> QED BY <1>2, <2>1, SeqMonotonic
<1> HIDE DEF S
<1>4. /\ log \in Seq(S) /\ log2 \in Seq(S) /\ part \o new \in Seq(S) /\ <<>> \in Seq(S)
      /\ log2 = r \o (part \o new) /\ log \o <<>> = log /\ log2 \o <<>> = log2
      /\ <<>> \o new = new
  <2>1. log \in Seq(S) /\ part \o new \in Seq(S)
    BY <1>2, <1>3, ConcatProperties
  <2>2. log2 \in Seq(S)
    BY <1>3, <2>1, ConcatProperties
  <2>3. (r \o part) \o new = r \o (part \o new)
    BY <1>3, ConcatAssociative
  <2>4. log2 = r \o (part \o new)
    BY <1>2, <2>3
  <2> HIDE DEF log2
  <2>5. log \o <<>> = log /\ log2 \o <<>> = log2 /\ <<>> \o new = new
    BY <1>3, <2>1, <2>2, ConcatEmptySeq
  <2>6. <<>> \in Seq(S)
    BY EmptySeq
  <2> QED BY <2>1, <2>2, <2>4, <2>5, <2>6
<1>5. Includes(log, due) /\ Includes(log2, due)
  <2>1. Includes(log, due)
    BY <1>2, <1>3, IncludesMore
  <2> QED BY <1>3, <1>4, <2>1, IncludesMore
<1> HIDE DEF log2
<1>6. CASE seen2.stray /\ seen2.due = seen.due /\ part2 = <<>>
  BY <1>4, <1>5, <1>6 DEF Reporting, log2
<1>7. ASSUME NEW base, base = part \/ (base = <<>> /\ cut2), (seen2.stray <=> seen.stray),
             part2 = base \o new, seen2.due = seen.due
      PROVE  Reporting(log2, due, part2, loose2)
  <2>1. CASE base = part
    <3>1. loose2 \/ r = ReportsOf(due)
      BY <1>2
    <3> QED BY <1>2, <1>3, <1>4, <1>7, <2>1, <3>1 DEF Reporting
  <2>2. CASE base = <<>> /\ cut2
    <3>1. part2 = new /\ log2 = log \o part2
      BY <1>4, <1>7, <2>2 DEF log2
    <3> QED BY <1>3, <1>4, <1>5, <2>2, <3>1 DEF Reporting
  <2> QED BY <1>7, <2>1, <2>2
<1>8. ASSUME NEW base, base = part \/ (base = <<>> /\ cut2), (seen2.stray <=> seen.stray),
             part2 = <<>>, NEW t \in TablesOf(sent), base \o new = Reported(t),
             seen2.due = Append(due, t)
      PROVE  Reporting(log2, Append(due, t), part2, loose2)
  <2>1. CASE base = part
    <3> DEFINE x == part \o new
    <3>1. x = Reported(t) /\ x \in Seq(S)
      BY <1>4, <1>8, <2>1
    <3>2. log2 = r \o x
      BY <1>4
    <3> HIDE DEF x
    <3>3. Includes(log2, Append(due, t))
      BY <1>2, <1>3, <3>1, <3>2, IncludesNew
    <3>4. loose2 \/ log2 = ReportsOf(Append(due, t))
      <4>1. ReportsOf(Append(due, t)) = ReportsOf(due) \o Reported(t)
        BY ReportsAppend
      <4> QED BY <1>2, <3>1, <3>2, <4>1
    <3> QED BY <1>4, <1>8, <3>3, <3>4 DEF Reporting
  <2>2. CASE base = <<>> /\ cut2
    <3>1. new = Reported(t)
      BY <1>4, <1>8, <2>2
    <3>2. Includes(log2, Append(due, t))
      BY <1>3, <1>4, <1>5, <3>1, IncludesNew DEF log2
    <3> QED BY <1>4, <1>8, <2>2, <3>2 DEF Reporting
  <2> QED BY <1>8, <2>1, <2>2
<1>9. ASSUME NEW t \in TablesOf(sent) PROVE Append(due, t) \in Seq(TablesOf(sent))
  BY AppendProperties
<1> HIDE DEF loose2
<1>10. Reporting(log2, seen2.due, part2, loose2) /\ seen2.due \in Seq(TablesOf(sent))
  <2>1. CASE seen2.stray /\ seen2.due = seen.due /\ part2 = <<>>
    BY <1>6, <2>1 DEF loose2, log2
  <2>2. CASE \E base :
          /\ base = part \/ (base = <<>> /\ cut2)
          /\ (seen2.stray <=> seen.stray)
          /\ part2 = base \o new /\ seen2.due = seen.due
    BY <1>7, <2>2
  <2>3. CASE \E base :
          /\ base = part \/ (base = <<>> /\ cut2)
          /\ (seen2.stray <=> seen.stray)
          /\ part2 = <<>> /\ \E t \in TablesOf(sent) :
                                base \o new = Reported(t) /\ seen2.due = Append(seen.due, t)
    BY <1>8, <1>9, <2>3
  <2> QED BY <2>1, <2>2, <2>3 DEF Moves
<1> QED
  BY <1>10 DEF log2, loose2

-----------------------------------------------------------------------------
\* Track, by what the packet is: the m-th of its PID.
TracksTo(sent, q, m, seen, seen2, isTable, known, disturbs) ==
    LET start == sent[q][m].start
    IN  /\ ~known /\ ~(start /\ disturbs) =>
             seen2.whole = seen.whole /\ seen2.due = seen.due /\ (seen2.stray <=> seen.stray)
        /\ ~known /\ start /\ disturbs /\ ~isTable =>
             seen2.whole = {} /\ seen2.due = seen.due /\ (seen2.stray <=> seen.stray)
        /\ known /\ start /\ disturbs /\ isTable => Sees(sent, q, m, m, seen, seen2)
        /\ known /\ ~start /\ q \in seen.whole =>
             \A k \in 1..m : Begins(sent[q], k, m) => Sees(sent, q, k, m, seen, seen2)
        /\ known /\ ~start /\ q \notin seen.whole =>
             seen2.whole = {} /\ seen2.due = seen.due /\ seen2.stray

LEMMA Tracked ==
    ASSUME NEW pid \in DOMAIN feed, Stream(feed, at), at[pid] < Len(feed[pid]),
           NEW seen, NEW isTable \in BOOLEAN, NEW known \in BOOLEAN,
           NEW disturbs \in BOOLEAN, NEW seen2, seen2 = Track(seen, pid, isTable, known, disturbs)
    PROVE  TracksTo(feed, pid, at[pid] + 1, seen, seen2, isTable, known, disturbs)
<1> DEFINE m == at[pid] + 1
           start == feed[pid][m].start
           first == CHOOSE k \in 1..m : Begins(feed[pid], k, m)
           whole == IF start /\ disturbs THEN (IF isTable THEN {pid} ELSE {})
                    ELSE IF known THEN seen.whole \cap {pid} ELSE seen.whole
           got == known /\ pid \in whole /\ IsLast(feed[pid], m) /\ feed[pid][first].fair
<1>1. /\ seen2.whole = whole
      /\ seen2.due = IF got THEN Append(seen.due, feed[pid][first].table) ELSE seen.due
      /\ seen2.stray <=> (seen.stray \/ (known /\ ~start /\ pid \notin whole))
  <2> DEFINE p == Coming(pid, m)
  <2>1. p.start = feed[pid][m].start
    BY DEF Coming
  <2> HIDE DEF p
  <2> DEFINE w == IF p.start /\ disturbs THEN (IF isTable THEN {pid} ELSE {})
                  ELSE IF known THEN seen.whole \cap {pid} ELSE seen.whole
             g == known /\ pid \in w /\ Ends(pid, m) /\ feed[pid][first].fair
             d == IF g THEN Append(seen.due, feed[pid][first].table) ELSE seen.due
             s == seen.stray \/ (known /\ ~p.start /\ pid \notin w)
  <2>2. seen2 = [whole |-> w, due |-> d, stray |-> s]
    BY Zenon DEF Track, p
  <2>3. w = whole
    BY <2>1
  <2>4. g <=> got
    BY <2>3, Zenon DEF Ends
  <2>5. d = IF got THEN Append(seen.due, feed[pid][first].table) ELSE seen.due
    <3> HIDE DEF got, g, first
    <3> QED BY <2>4
  <2>6. s <=> (seen.stray \/ (known /\ ~start /\ pid \notin whole))
    <3> HIDE DEF whole, w
    <3> QED BY <2>1, <2>3
  <2> HIDE DEF w, d, s, whole, got, first
  <2>7. seen2.whole = w /\ seen2.due = d /\ seen2.stray = s
    BY <2>2
  <2>8. seen2.stray <=> s
    BY <2>7
  <2> QED BY <2>3, <2>5, <2>6, <2>7, <2>8
<1>2. m \in Nat
  BY NextPacket
<1>3. \A k \in 1..m : Begins(feed[pid], k, m) => first = k
  <2>1. ASSUME NEW k \in 1..m, Begins(feed[pid], k, m) PROVE first = k
    <3>1. first \in 1..m /\ Begins(feed[pid], first, m)
      BY <2>1
    <3> HIDE DEF first
    <3> QED BY <1>2, <2>1, <3>1, BeginsOnce
  <2> QED BY <2>1
<1>4. start => m \in 1..m /\ Begins(feed[pid], m, m)
  BY NextPacket, BeginsHere
<1> HIDE DEF first
<1>5. /\ ~known /\ ~(start /\ disturbs) =>
             seen2.whole = seen.whole /\ seen2.due = seen.due /\ (seen2.stray <=> seen.stray)
      /\ ~known /\ start /\ disturbs /\ ~isTable =>
             seen2.whole = {} /\ seen2.due = seen.due /\ (seen2.stray <=> seen.stray)
      /\ known /\ start /\ disturbs /\ isTable => Sees(feed, pid, m, m, seen, seen2)
      /\ known /\ ~start /\ pid \in seen.whole =>
             \A k \in 1..m : Begins(feed[pid], k, m) => Sees(feed, pid, k, m, seen, seen2)
      /\ known /\ ~start /\ pid \notin seen.whole =>
             seen2.whole = {} /\ seen2.due = seen.due /\ seen2.stray
  BY <1>1, <1>3, <1>4 DEF Sees
<1> QED
  BY <1>5, Zenon DEF TracksTo

-----------------------------------------------------------------------------
\* The programs that are known after a table of them was read, before which there
\* were others.
LEMMA LearnedFrom ==
    ASSUME NEW a, NEW es
    PROVE  LET l == Dec!Learn(a, es)
               none == Dec!Learn(<<>>, es)
           IN  /\ \A q \in DOMAIN a : q \in DOMAIN l /\ l[q] = a[q]
               /\ \A q \in DOMAIN l : \/ q \in DOMAIN a /\ l[q] = a[q]
                                      \/ q \in DOMAIN none /\ l[q] = none[q]
BY DEF Dec!Learn

LEMMA PATLearns ==
    ASSUME NEW pat, NEW data, NEW j
    PROVE  LET read == Dec!PATparse(pat, data, j).programs
               only == Dec!PATparse(Dec!NewPAT, data, j).programs
           IN  /\ \A q \in DOMAIN pat.programs : q \in DOMAIN read /\ read[q] = pat.programs[q]
               /\ \A q \in DOMAIN read : \/ q \in DOMAIN pat.programs /\ read[q] = pat.programs[q]
                                         \/ q \in DOMAIN only /\ read[q] = only[q]
<1> DEFINE cur == Dec!TableAt(data)
           len == Dec!Short(data, cur + 1, 4096, j)
           entries == Dec!Walk([c \in Nat |-> [program |-> Dec!Short(data, c, 65536, j),
                                               pid |-> Dec!Short(data, c + 2, 8192, j)]],
                               [c \in Nat |-> c + 4], cur + 8, Dec!last(cur + 8, len))
           es == entries.list
<1>1. \A t : Dec!PATparse(t, data, j).programs = Dec!Learn(t.programs, es)
  BY DEF Dec!PATparse
<1> HIDE DEF es
<1>2. /\ Dec!PATparse(pat, data, j).programs = Dec!Learn(pat.programs, es)
      /\ Dec!PATparse(Dec!NewPAT, data, j).programs = Dec!Learn(<<>>, es)
  <2>1. Dec!NewPAT.programs = <<>>
    BY DEF Dec!NewPAT
  <2> QED BY <1>1, <2>1
<1> QED
  BY <1>2, LearnedFrom

\* The receivers' tables of programs, from packet to packet.
ReadsPAT(pat, pat2, p, j) ==
    pat2 = IF p.start /\ p.pid = 0 THEN Dec!PATparse(pat, p.data, j) ELSE pat

LEMMA ProgramsKept ==
    ASSUME Stream(feed, at), NEW pid \in DOMAIN feed, at[pid] < Len(feed[pid]),
           NEW pat, FromTables(feed, junk, pat), NEW pat2,
           ReadsPAT(pat, pat2, Coming(pid, at[pid] + 1), junk)
    PROVE  FromTables(feed, junk, pat2) /\ Known(pat) \subseteq Known(pat2)
<1> DEFINE p == Coming(pid, at[pid] + 1)
<1>1. CASE p.start /\ p.pid = 0
  <2> DEFINE m == at[pid] + 1
             read == Dec!PATparse(pat, p.data, junk).programs
             only == Dec!PATparse(Dec!NewPAT, p.data, junk).programs
  <2>1. pat2.programs = read
    BY <1>1 DEF ReadsPAT
  <2>2. pid = 0 /\ p.data = feed[0][m].data /\ feed[0][m].start
    BY <1>1 DEF Coming
  <2>3. only \in ProgramsOf(feed, junk)
    <3>1. m \in 1..Len(feed[pid])
      BY NextPacket
    <3>2. m \in DOMAIN feed[0]
      BY <2>2, <3>1, Packets DEF Stream
    <3>3. m \in Starts(feed[0]) /\ 0 \in DOMAIN feed
      BY <2>2, <3>2 DEF Starts
    <3>4. only = Dec!PATparse(Dec!NewPAT, feed[0][m].data, junk).programs
      BY <2>2
    <3> HIDE DEF m, only
    <3> QED BY <3>3, <3>4 DEF ProgramsOf
  <2>4. /\ \A q \in DOMAIN pat.programs : q \in DOMAIN read /\ read[q] = pat.programs[q]
        /\ \A q \in DOMAIN read : \/ q \in DOMAIN pat.programs /\ read[q] = pat.programs[q]
                                  \/ q \in DOMAIN only /\ read[q] = only[q]
    <3> DEFINE data == p.data
    <3> HIDE DEF p
    <3> HIDE DEF data
    <3> QED BY PATLearns DEF data
  <2> HIDE DEF read, only
  <2> QED BY <2>1, <2>3, <2>4 DEF FromTables, Known
<1>2. CASE ~(p.start /\ p.pid = 0)
  BY <1>2 DEF ReadsPAT
<1> QED
  BY <1>1, <1>2

\* What a packet does to TsDecoder.
LEMMA DecPacket ==
    ASSUME NEW p, NEW j, Dec!onPacket(p, j)
    PROVE  /\ ReadsPAT(decPat, decPat', p, j)
           /\ p.pid \notin Known(decPat) => decPmt' = decPmt /\ reports' = reports
           /\ p.pid \in Known(decPat) /\ p.pid # 0 =>
                LET table == IF p.start THEN Dec!NewTable ELSE decPmt
                    parsed == Dec!parse(Dec!Add(table, p.data), j)
                IN  /\ decPmt' = parsed.table
                    /\ reports' = IF parsed.ok THEN Append(reports, parsed.table.elmts) ELSE reports
<1>1. ReadsPAT(decPat, decPat', p, j)
  BY DEF Dec!onPacket, Dec!OnPAT, Dec!OnTable, Dec!OnRestOfTable, Dec!OnOther, ReadsPAT
<1>2. Dec!HasProgram(p.pid) <=> p.pid \in Known(decPat)
  BY DEF Dec!HasProgram, Dec!InPAT, Known
<1>3. ASSUME p.pid \notin Known(decPat) PROVE decPmt' = decPmt /\ reports' = reports
  BY <1>2, <1>3 DEF Dec!onPacket, Dec!OnPAT, Dec!OnTable, Dec!OnRestOfTable, Dec!OnOther
<1>4. ASSUME p.pid \in Known(decPat), p.pid # 0, p.start
      PROVE  Dec!ParseTable(Dec!Add(Dec!NewTable, p.data), j)
  BY <1>2, <1>4 DEF Dec!onPacket, Dec!OnPAT, Dec!OnTable, Dec!OnRestOfTable, Dec!OnOther
<1>5. ASSUME p.pid \in Known(decPat), p.pid # 0, ~p.start
      PROVE  Dec!ParseTable(Dec!Add(decPmt, p.data), j)
  BY <1>2, <1>5 DEF Dec!onPacket, Dec!OnPAT, Dec!OnTable, Dec!OnRestOfTable, Dec!OnOther
<1>6. ASSUME NEW t, Dec!ParseTable(t, j)
      PROVE  /\ decPmt' = Dec!parse(t, j).table
             /\ reports' = IF Dec!parse(t, j).ok THEN Append(reports, Dec!parse(t, j).table.elmts)
                           ELSE reports
  BY <1>6 DEF Dec!ParseTable
<1> QED
  BY <1>1, <1>3, <1>4, <1>5, <1>6

-----------------------------------------------------------------------------
\* What a receiver does with a packet of a PID, "new" being what it accepts: it reads it
\* if it is of a table; one that starts the network information table may take the place
\* of a table.
Takes(p, j, pid, pat, pmt, pat2, pmt2, isTable, disturbs, new) ==
    /\ pid \in Known(pat) => isTable /\ disturbs
    /\ disturbs => pat2 = pat
    /\ pid \notin Known(pat) => /\ new = <<>>
                                /\ \/ p.start /\ disturbs /\ ~isTable
                                   \/ pmt2 = pmt /\ ~(p.start /\ disturbs)
    /\ pid \in Known(pat) =>
         \E parsed : /\ parsed = Dec!parse(Dec!Add(IF p.start THEN Dec!NewTable ELSE pmt, p.data), j)
                     /\ pmt2 = parsed.table
                     /\ new = NewOf(parsed)

Steps(pid, p, pat, pat2, pmt, pmt2, isTable, known, disturbs, new, seen, seen2) ==
    /\ p = feed[pid][at[pid] + 1]
    /\ {isTable, known, disturbs} \subseteq BOOLEAN
    /\ known <=> pid \in Known(pat)
    /\ Takes(p, junk, pid, pat, pmt, pat2, pmt2, isTable, disturbs, new)
    /\ Known(pat) \subseteq Known(pat2)
    /\ seen2 = Track(seen, pid, isTable, known, disturbs)

LEMMA StepGoes ==
    ASSUME feed \in Feeds, junk \in Junk, Stream(feed, at), NEW pid \in DOMAIN feed,
           at[pid] < Len(feed[pid]), NEW p, NEW pat, NEW pat2, NEW pmt, NEW pmt2, NEW isTable,
           NEW known, NEW disturbs, NEW new, NEW seen, NEW seen2,
           Steps(pid, p, pat, pat2, pmt, pmt2, isTable, known, disturbs, new, seen, seen2),
           FromTables(feed, junk, pat), NEW part, Follows(feed, junk, at, pat, pmt, seen, part)
    PROVE  /\ Goes(feed, junk, Next1(at, pid), pat2, pmt2, seen, part, seen2, new)
           /\ seen2.whole \subseteq seen.whole \cup {pid}
           /\ pid \in Known(pat) /\ ~p.start /\ pid \notin seen.whole => seen2.stray
<1> DEFINE m == at[pid] + 1
<1>0. known \in BOOLEAN /\ isTable \in BOOLEAN /\ disturbs \in BOOLEAN /\ at[pid] \in Nat
  BY NextPacket DEF Steps
<1>a. /\ p = feed[pid][m]
      /\ known <=> pid \in Known(pat)
      /\ Takes(p, junk, pid, pat, pmt, pat2, pmt2, isTable, disturbs, new)
      /\ Known(pat) \subseteq Known(pat2)
      /\ seen2 = Track(seen, pid, isTable, known, disturbs)
  BY DEF Steps
<1>1. /\ ~known /\ ~(p.start /\ disturbs) =>
             seen2.whole = seen.whole /\ seen2.due = seen.due /\ (seen2.stray <=> seen.stray)
      /\ ~known /\ p.start /\ disturbs /\ ~isTable =>
             seen2.whole = {} /\ seen2.due = seen.due /\ (seen2.stray <=> seen.stray)
      /\ known /\ p.start /\ disturbs /\ isTable => Sees(feed, pid, m, m, seen, seen2)
      /\ known /\ ~p.start /\ pid \in seen.whole =>
             \A k \in 1..m : Begins(feed[pid], k, m) => Sees(feed, pid, k, m, seen, seen2)
      /\ known /\ ~p.start /\ pid \notin seen.whole =>
             seen2.whole = {} /\ seen2.due = seen.due /\ seen2.stray
  <2>1. TracksTo(feed, pid, at[pid] + 1, seen, seen2, isTable, known, disturbs)
    BY <1>0, <1>a, Tracked
  <2> QED BY <1>a, <2>1, Zenon DEF TracksTo
<1>2. /\ known => isTable /\ disturbs /\ pat2 = pat
      /\ ~known => new = <<>> /\ ((p.start /\ disturbs /\ ~isTable /\ pat2 = pat) \/ (pmt2 = pmt /\ ~(p.start /\ disturbs)))
      /\ known =>
         \E parsed : /\ parsed = Dec!parse(Dec!Add(IF p.start THEN Dec!NewTable ELSE pmt, p.data), junk)
                     /\ pmt2 = parsed.table
                     /\ new = NewOf(parsed)
  BY <1>a DEF Takes
<1>3. CASE ~known /\ ~(p.start /\ disturbs)
  <2>1. seen2.whole = seen.whole /\ seen2.due = seen.due /\ (seen2.stray <=> seen.stray)
    BY <1>1, <1>3
  <2>2. pmt2 = pmt /\ new = <<>>
    BY <1>2, <1>3
  <2>3. Goes(feed, junk, Next1(at, pid), pat2, pmt, seen, part, seen2, new)
    <3>1. pid \notin Known(pat) /\ Grows(pat, pat2)
      BY <1>3, <1>a DEF Grows
    <3> QED BY <2>1, <2>2, <3>1, OtherGoes
  <2> QED BY <1>3, <1>a, <2>1, <2>2, <2>3
<1>4. CASE ~known /\ p.start /\ disturbs
  <2>1. ~isTable /\ pat2 = pat /\ new = <<>>
    BY <1>2, <1>4
  <2>2. seen2.whole = {} /\ seen2.due = seen.due /\ (seen2.stray <=> seen.stray)
    BY <1>1, <1>4, <2>1
  <2>3. Goes(feed, junk, Next1(at, pid), pat, pmt2, seen, part, seen2, new)
    BY <1>4, <2>1, <2>2, <1>a, DisturbGoes
  <2> QED BY <1>4, <2>1, <2>2, <2>3
<1>5. CASE known /\ p.start
  <2>1. Sees(feed, pid, m, m, seen, seen2) /\ pat2 = pat
    BY <1>1, <1>2, <1>5
  <2>2. PICK parsed : /\ parsed = Dec!parse(Dec!Add(Dec!NewTable, p.data), junk)
                      /\ pmt2 = parsed.table
                      /\ new = NewOf(parsed)
    BY <1>2, <1>5
  <2>3. Goes(feed, junk, Next1(at, pid), pat, parsed.table, seen, part, seen2, NewOf(parsed))
    BY <1>5, <2>1, <2>2, <1>a, StartGoes
  <2>4. seen2.whole = {pid}
    BY <2>1 DEF Sees
  <2> QED BY <1>5, <2>1, <2>2, <2>3, <2>4
<1>6. CASE known /\ ~p.start /\ pid \in seen.whole
  <2>1. PICK k \in 1..at[pid] : Begins(feed[pid], k, at[pid])
    BY <1>6, <1>a DEF Follows, InPlace
  <2>2. Begins(feed[pid], k, m) /\ k \in 1..m
    <3>1. Begins(feed[pid], k, m)
      BY <1>0, <1>6, <2>1, <1>a, BeginsBefore
    <3> QED BY <3>1 DEF Begins
  <2>3. Sees(feed, pid, k, m, seen, seen2) /\ pat2 = pat
    BY <1>1, <1>2, <1>6, <2>2
  <2>4. PICK parsed : /\ parsed = Dec!parse(Dec!Add(pmt, p.data), junk)
                      /\ pmt2 = parsed.table
                      /\ new = NewOf(parsed)
    BY <1>2, <1>6
  <2>5. Goes(feed, junk, Next1(at, pid), pat, parsed.table, seen, part, seen2, NewOf(parsed))
    BY <1>6, <2>2, <2>3, <2>4, <1>a, RestGoes
  <2>6. seen2.whole = {pid}
    BY <2>3 DEF Sees
  <2> QED BY <1>6, <2>3, <2>4, <2>5, <2>6
<1>7. CASE known /\ ~p.start /\ pid \notin seen.whole
  <2>1. seen2.whole = {} /\ seen2.due = seen.due /\ seen2.stray
    BY <1>1, <1>7
  <2>2. Goes(feed, junk, Next1(at, pid), pat2, pmt2, seen, part, seen2, new)
    BY <2>1, StrayGoes
  <2> QED BY <2>1, <2>2
<1> QED
  BY <1>3, <1>4, <1>5, <1>6, <1>7

-----------------------------------------------------------------------------
\* What may be reported: a table, or twice its elements.
Doubled(sent) == TablesOf(sent) \cup {t \o t : t \in TablesOf(sent)}

LEMMA GivenDoubled ==
    ASSUME NEW sent, NEW part, GivenPart(sent, part)
    PROVE  part \in Seq(Doubled(sent))
<1> DEFINE S == Doubled(sent)
<1>1. \A t \in TablesOf(sent) : t \in S /\ t \o t \in S
  BY DEF Doubled
<1> HIDE DEF S
<1>2. <<>> \in Seq(S)
  BY EmptySeq
<1>3. ASSUME NEW t \in TablesOf(sent) PROVE <<t>> \in Seq(S) /\ Reported(t) \in Seq(S)
  <2> DEFINE u == t \o t
  <2>1. t \in S /\ u \in S
    BY <1>1
  <2> HIDE DEF u
  <2>2. <<t>> \in Seq(S) /\ <<t, u>> \in Seq(S)
    BY <2>1
  <2>3. Reported(t) = <<t>> \/ Reported(t) = <<t, u>>
    BY DEF Reported, u
  <2> QED BY <2>2, <2>3
<1> QED
  BY <1>2, <1>3 DEF GivenPart, S

\* What a receiver has seen and accepted.
Rec(sent, j, n, pat, pmt, seen, log, part) ==
    /\ FromTables(sent, j, pat)
    /\ Follows(sent, j, n, pat, pmt, seen, part)
    /\ seen.due \in Seq(TablesOf(sent))
    /\ Reporting(log, seen.due, part, seen.stray \/ Cut(sent, n, pat, seen))
    /\ ~seen.stray => log \in Seq(Doubled(sent))

LEMMA RecMoves ==
    ASSUME NEW sent, NEW seen, NEW part, GivenPart(sent, part), NEW seen2, NEW part2,
           NEW new, NEW Z, new \in Seq(Z), NEW cut2, Moves(sent, seen, part, seen2, part2, new, cut2)
    PROVE  /\ GivenPart(sent, part2)
           /\ seen.stray => seen2.stray
           /\ ~seen2.stray => new \in Seq(Doubled(sent))
<1>0. GivenPart(sent, <<>>)
  BY DEF GivenPart
<1>1. CASE seen2.stray /\ seen2.due = seen.due /\ part2 = <<>>
  BY <1>0, <1>1
<1>2. ASSUME NEW base, base = part \/ (base = <<>> /\ cut2), (seen2.stray <=> seen.stray),
             GivenPart(sent, base \o new), part2 = base \o new \/ part2 = <<>>
      PROVE  /\ GivenPart(sent, part2)
             /\ seen.stray => seen2.stray
             /\ new \in Seq(Doubled(sent))
  <2>1. GivenPart(sent, base)
    BY <1>0, <1>2
  <2>2. PICK S : base \in Seq(S)
    BY <2>1, GivenSeq
  <2> DEFINE D == Doubled(sent)
             u == base \o new
             T == S \cup Z
  <2>3. u \in Seq(D)
    BY <1>2, GivenDoubled
  <2>4. /\ Len(base) \in Nat /\ Len(new) \in Nat /\ Len(u) = Len(base) + Len(new)
        /\ \A i \in 1..(Len(base) + Len(new)) : u[i] = IF i <= Len(base) THEN base[i] ELSE new[i - Len(base)]
    <3>1. base \in Seq(T) /\ new \in Seq(T)
      <4>1. S \subseteq T /\ Z \subseteq T
        OBVIOUS
      <4> HIDE DEF T
      <4> QED BY <2>2, <4>1, SeqMonotonic
    <3> HIDE DEF T
    <3> QED BY <3>1, ConcatProperties, LenProperties
  <2> HIDE DEF u, D
  <2>5. \A i \in 1..Len(u) : u[i] \in D
    BY <2>3, ElementOfSeq
  <2>6. ASSUME NEW i \in 1..Len(new) PROVE new[i] \in D
    <3>1. /\ i + Len(base) \in 1..(Len(base) + Len(new)) /\ ~(i + Len(base) <= Len(base))
          /\ (i + Len(base)) - Len(base) = i
      BY <2>4
    <3>2. u[i + Len(base)] = new[i]
      BY <2>4, <3>1
    <3> QED BY <2>4, <2>5, <3>1, <3>2
  <2>7. new \in Seq(D)
    <3>1. DOMAIN new = 1..Len(new) /\ new = [i \in DOMAIN new |-> new[i]]
      BY LenProperties
    <3> QED BY <2>4, <2>6, <3>1, IsSeq
  <2>8. GivenPart(sent, part2)
    BY <1>0, <1>2
  <2> QED BY <1>2, <2>7, <2>8 DEF D
<1> QED
  BY <1>1, <1>2 DEF Moves

LEMMA RecStep ==
    ASSUME feed \in Feeds, junk \in Junk, Stream(feed, at), NEW pid \in DOMAIN feed,
           at[pid] < Len(feed[pid]), NEW p, NEW pat, NEW pat2, NEW pmt, NEW pmt2, NEW isTable,
           NEW known, NEW disturbs, NEW new, NEW seen, NEW seen2,
           Steps(pid, p, pat, pat2, pmt, pmt2, isTable, known, disturbs, new, seen, seen2),
           FromTables(feed, junk, pat2), NEW part, NEW log,
           Rec(feed, junk, at, pat, pmt, seen, log, part)
    PROVE  /\ \E part2 : Rec(feed, junk, Next1(at, pid), pat2, pmt2, seen2, log \o new, part2)
           /\ seen.stray => seen2.stray
           /\ ~seen2.stray => new \in Seq(Doubled(feed))
<1> DEFINE n == Next1(at, pid)
           cut2 == Cut(feed, n, pat2, seen2)
<1>0. /\ p = feed[pid][at[pid] + 1]
      /\ Takes(p, junk, pid, pat, pmt, pat2, pmt2, isTable, disturbs, new)
      /\ Known(pat) \subseteq Known(pat2)
  BY DEF Steps
<1>1. /\ Goes(feed, junk, n, pat2, pmt2, seen, part, seen2, new)
      /\ seen2.whole \subseteq seen.whole \cup {pid}
      /\ pid \in Known(pat) /\ ~p.start /\ pid \notin seen.whole => seen2.stray
  <2>1. FromTables(feed, junk, pat) /\ Follows(feed, junk, at, pat, pmt, seen, part)
    BY DEF Rec
  <2> HIDE DEF n
  <2>2. Goes(feed, junk, Next1(at, pid), pat2, pmt2, seen, part, seen2, new)
    BY <2>1, StepGoes
  <2>3. /\ seen2.whole \subseteq seen.whole \cup {pid}
        /\ pid \in Known(pat) /\ ~p.start /\ pid \notin seen.whole => seen2.stray
    BY <2>1, StepGoes
  <2> QED BY <2>2, <2>3 DEF n
<1>2. Cut(feed, at, pat, seen) => seen2.stray \/ cut2
  BY <1>0, <1>1, CutStays
<1> HIDE DEF n
<1>3. PICK part2 : /\ InPlace(feed, junk, n, pat2, pmt2, seen2)
                   /\ IsPart(feed, junk, n, seen2, part2)
                   /\ Moves(feed, seen, part, seen2, part2, new, cut2)
  BY <1>1 DEF Goes
<1> HIDE DEF cut2
<1>4. PICK Z : new \in Seq(Z)
  <2>1. CASE new = <<>>
    BY <2>1, EmptySeq
  <2>2. ASSUME NEW parsed, new = NewOf(parsed) PROVE \E Z : new \in Seq(Z)
    BY <2>2, NewSeq
  <2> QED BY <1>0, <2>1, <2>2 DEF Takes
<1>5. GivenPart(feed, part) /\ seen.due \in Seq(TablesOf(feed))
  BY DEF Rec, Follows
<1>6. /\ GivenPart(feed, part2)
      /\ seen.stray => seen2.stray
      /\ ~seen2.stray => new \in Seq(Doubled(feed))
  BY <1>3, <1>4, <1>5, RecMoves
<1>7. Follows(feed, junk, n, pat2, pmt2, seen2, part2)
  BY <1>3, <1>6 DEF Follows
<1> DEFINE loose == seen.stray \/ Cut(feed, at, pat, seen)
           due == seen.due
<1>8. /\ Reporting(log \o new, seen2.due, part2, seen2.stray \/ cut2)
      /\ seen2.due \in Seq(TablesOf(feed))
  <2>1. Reporting(log, due, part, loose)
    BY DEF Rec
  <2>2. loose => seen2.stray \/ cut2
    BY <1>2, <1>6
  <2> HIDE DEF loose
  <2> QED BY <1>3, <1>4, <1>5, <2>1, <2>2, ReportingMoves
<1>9. ~seen2.stray => log \o new \in Seq(Doubled(feed))
  <2>1. ASSUME ~seen2.stray PROVE log \o new \in Seq(Doubled(feed))
    <3>1. log \in Seq(Doubled(feed)) /\ new \in Seq(Doubled(feed))
      BY <1>6, <2>1 DEF Rec
    <3> QED BY <3>1, ConcatProperties
  <2> QED BY <2>1
<1>10. Rec(feed, junk, n, pat2, pmt2, seen2, log \o new, part2)
  BY <1>7, <1>8, <1>9 DEF Rec, cut2
<1> QED
  BY <1>6, <1>10 DEF n

-----------------------------------------------------------------------------
\* Before the first packet.
LEMMA RecInit ==
    ASSUME NEW sent \in Feeds, NEW j, NEW n, NEW pat, pat.programs = <<>>, NEW pmt
    PROVE  Rec(sent, j, n, pat, pmt, Unseen, <<>>, <<>>)
<1> DEFINE none == <<>>
           loose == Unseen.stray \/ Cut(sent, n, pat, Unseen)
<1>1. Unseen.whole = {} /\ Unseen.due = none /\ ~Unseen.stray
  BY DEF Unseen
<1>2. FromTables(sent, j, pat)
  BY DEF FromTables
<1>3. Follows(sent, j, n, pat, pmt, Unseen, none)
  BY <1>1 DEF Follows, InPlace, IsPart, GivenPart
<1>4. \A S : none \in Seq(S)
  BY EmptySeq
<1>5. ReportsOf(none) = none
  <2>1. [k \in 1..Len(none) |-> Reported(none[k])] = <<>>
    OBVIOUS
  <2> QED BY <2>1, FlattenNone DEF ReportsOf
<1>6. Includes(none, none)
  <2> DEFINE m == [i \in 1..Len(none) |-> i]
  <2>1. Len(none) = 0
    OBVIOUS
  <2> HIDE DEF none
  <2>2. m \in [1..Len(none) -> 1..Len(none)] /\ 1..Len(none) = {}
    BY <2>1
  <2> HIDE DEF m
  <2> QED BY <2>2 DEF Includes
<1>7. none = none \o none
  OBVIOUS
<1> HIDE DEF none, loose
<1>8. Reporting(none, none, none, loose)
  BY <1>4, <1>5, <1>6, <1>7 DEF Reporting
<1>9. Rec(sent, j, n, pat, pmt, Unseen, none, none)
  BY <1>1, <1>2, <1>3, <1>4, <1>8 DEF Rec, loose
<1> QED
  BY <1>9 DEF none

\* The log is a sequence, and what is due is in it, each time.
LEMMA RecIncludes ==
    ASSUME NEW sent, NEW j, NEW n, NEW pat, NEW pmt, NEW seen, NEW log, NEW part,
           Rec(sent, j, n, pat, pmt, seen, log, part)
    PROVE  /\ \E S : log \in Seq(S)
           /\ Includes(log, seen.due)
<1> DEFINE due == seen.due
<1>1. \E S : \E r \in Seq(S) : part \in Seq(S) /\ log = r \o part /\ Includes(r, due)
  BY DEF Rec, Reporting
<1> HIDE DEF due
<1>2. PICK S : \E r \in Seq(S) : part \in Seq(S) /\ log = r \o part /\ Includes(r, due)
  BY <1>1
<1>3. PICK r \in Seq(S) : part \in Seq(S) /\ log = r \o part /\ Includes(r, due)
  BY <1>2
<1>4. r \o part \in Seq(S)
  BY <1>3, ConcatProperties
<1>5. Includes(r \o part, due)
  BY <1>3, IncludesMore
<1> QED
  BY <1>3, <1>4, <1>5 DEF due

\* When no table is under way, it has what is due and no more.
LEMMA RecFinal ==
    ASSUME feed \in Feeds, junk \in Junk, Stream(feed, at), NEW pat, NEW pmt, NEW seen, NEW log,
           NEW part, Rec(feed, junk, at, pat, pmt, seen, log, part), ~seen.stray, ~UnderWay
    PROVE  log = ReportsOf(seen.due)
<1> DEFINE due == seen.due
<1>1. ASSUME NEW q \in DOMAIN feed PROVE ~FairAt(feed, at, q)
  BY DEF UnderWay, FairAt, Ends
<1>2. ~Cut(feed, at, pat, seen)
  BY <1>1 DEF Cut
<1>3. part = <<>>
  BY <1>1, PartIsFair DEF Rec, Follows
<1> HIDE DEF due
<1>4. \E S : \E r \in Seq(S) : log = r \o part /\ r = ReportsOf(due)
  BY <1>2 DEF Rec, Reporting, due
<1>5. PICK S : \E r \in Seq(S) : log = r \o part /\ r = ReportsOf(due)
  BY <1>4
<1>6. PICK r \in Seq(S) : log = r \o part /\ r = ReportsOf(due)
  BY <1>5
<1>7. r \o <<>> = r
  BY ConcatEmptySeq
<1> QED
  BY <1>3, <1>6, <1>7 DEF due

-----------------------------------------------------------------------------
\* TsDecoder sees the tables as "decSeen" says, and reports them.
DecInv ==
    /\ feed \in Feeds
    /\ junk \in Junk
    /\ Stream(feed, at)
    /\ \E part : Rec(feed, junk, at, decPat, decPmt, decSeen, reports, part)

LEMMA StreamInit == ASSUME Init PROVE feed \in Feeds /\ junk \in Junk /\ Stream(feed, at)
<1>1. feed \in Feeds /\ junk \in Junk /\ at = [pid \in DOMAIN feed |-> 0]
  BY DEF Init
<1>2. \A q \in DOMAIN feed : at[q] = 0 /\ 0 \in 0..Len(feed[q])
  BY <1>1, Packets
<1>3. at = [q \in DOMAIN feed |-> at[q]]
  BY <1>1
<1> QED
  BY <1>1, <1>2, <1>3 DEF Stream

LEMMA DecInit == ASSUME Init PROVE DecInv
<1>1. decPat.programs = <<>> /\ reports = <<>> /\ decSeen = Unseen
  BY DEF Init, Dec!Init, Dec!NewPAT
<1>2. feed \in Feeds
  BY StreamInit
<1>3. Rec(feed, junk, at, decPat, decPmt, Unseen, <<>>, <<>>)
  BY <1>1, <1>2, RecInit
<1> QED
  BY <1>1, <1>3, StreamInit DEF DecInv

LEMMA AppendNew ==
    ASSUME NEW S, NEW log \in Seq(S), NEW parsed
    PROVE  log \o NewOf(parsed) =
             IF parsed.ok THEN Append(log, parsed.table.elmts) ELSE log
<1> DEFINE e == parsed.table.elmts
           T == S \cup {e}
<1>1. S \subseteq T /\ e \in T
  OBVIOUS
<1> HIDE DEF T, e
<1>2. log \in Seq(T)
  BY <1>1, SeqMonotonic
<1>3. Append(log, e) = log \o <<e>> /\ log \o <<>> = log
  BY <1>1, <1>2, AppendIsConcat, ConcatEmptySeq
<1> QED
  BY <1>3 DEF NewOf, e

LEMMA DecSteps ==
    ASSUME feed \in Feeds, junk \in Junk, Stream(feed, at), NEW S, reports \in Seq(S),
           NEW pid \in DOMAIN feed, Receive(pid), FromTables(feed, junk, decPat)
    PROVE  \E p, known, new :
             /\ Steps(pid, p, decPat, decPat', decPmt, decPmt', TRUE, known, known, new,
                      decSeen, decSeen')
             /\ reports' = reports \o new
<1> DEFINE p == feed[pid][at[pid] + 1]
           c == Coming(pid, at[pid] + 1)
           known == pid \in Known(decPat)
           parsed == Dec!parse(Dec!Add(IF p.start THEN Dec!NewTable ELSE decPmt, p.data), junk)
           new == IF known THEN NewOf(parsed) ELSE <<>>
<1>1. c.pid = pid /\ c.start = p.start /\ c.data = p.data
  BY DEF Coming
<1>2. /\ Dec!onPacket(c, junk) /\ at[pid] < Len(feed[pid])
      /\ decSeen' = Track(decSeen, pid, TRUE, known, known)
  BY DEF Receive, More, Known
<1> HIDE DEF c
<1>3. /\ ReadsPAT(decPat, decPat', c, junk)
      /\ pid \notin Known(decPat) => decPmt' = decPmt /\ reports' = reports
      /\ pid \in Known(decPat) /\ pid # 0 =>
            /\ decPmt' = parsed.table
            /\ reports' = IF parsed.ok THEN Append(reports, parsed.table.elmts) ELSE reports
  BY <1>1, <1>2, DecPacket
<1>4. known => pid # 0
  BY Sections DEF Known
<1>5. Known(decPat) \subseteq Known(decPat')
  BY <1>2, <1>3, ProgramsKept DEF c
<1>6. known => decPat' = decPat
  BY <1>1, <1>3, <1>4 DEF ReadsPAT
<1>7. reports' = reports \o new
  <2>1. reports \o NewOf(parsed) = IF parsed.ok THEN Append(reports, parsed.table.elmts) ELSE reports
    <3> HIDE DEF parsed
    <3> QED BY AppendNew
  <2>2. reports \o <<>> = reports
    BY ConcatEmptySeq
  <2> HIDE DEF parsed
  <2> QED BY <1>3, <1>4, <2>1, <2>2
<1>8. Takes(p, junk, pid, decPat, decPmt, decPat', decPmt', TRUE, known, new)
  <2>1. known => /\ parsed = Dec!parse(Dec!Add(IF p.start THEN Dec!NewTable ELSE decPmt, p.data), junk)
                 /\ decPmt' = parsed.table
                 /\ new = NewOf(parsed)
    BY <1>3, <1>4
  <2> HIDE DEF parsed, p
  <2>2. ~known => new = <<>>
    OBVIOUS
  <2> HIDE DEF new
  <2> QED BY <1>3, <1>6, <2>1, <2>2 DEF Takes
<1> HIDE DEF new, p
<1>9. Steps(pid, p, decPat, decPat', decPmt, decPmt', TRUE, known, known, new, decSeen, decSeen')
  <2>1. known \in BOOLEAN /\ (known <=> pid \in Known(decPat)) /\ p = feed[pid][at[pid] + 1]
    BY DEF p
  <2> HIDE DEF known
  <2>2. {TRUE, known, known} \subseteq BOOLEAN
    BY <2>1
  <2> QED BY <1>2, <1>5, <1>8, <2>1, <2>2 DEF Steps
<1> QED
  BY <1>7, <1>9

LEMMA DecNext == ASSUME DecInv, [Next]_vars PROVE DecInv'
<1>1. ASSUME NEW pid \in DOMAIN feed, Receive(pid) PROVE DecInv'
  <2>1. PICK part : Rec(feed, junk, at, decPat, decPmt, decSeen, reports, part)
    BY DEF DecInv
  <2>2. feed \in Feeds /\ junk \in Junk /\ Stream(feed, at) /\ FromTables(feed, junk, decPat)
    BY <2>1 DEF DecInv, Rec
  <2>3. PICK S : reports \in Seq(S)
    BY <2>1, RecIncludes
  <2>4. PICK p, known, new :
             /\ Steps(pid, p, decPat, decPat', decPmt, decPmt', TRUE, known, known, new,
                      decSeen, decSeen')
             /\ reports' = reports \o new
    BY <1>1, <2>2, <2>3, DecSteps
  <2>5. at' = Next1(at, pid) /\ at[pid] < Len(feed[pid]) /\ feed' = feed /\ junk' = junk
    BY <1>1 DEF Receive, More, Next1
  <2>6. FromTables(feed, junk, decPat')
    <3>1. Dec!onPacket(Coming(pid, at[pid] + 1), junk)
      BY <1>1 DEF Receive
    <3>2. ReadsPAT(decPat, decPat', Coming(pid, at[pid] + 1), junk)
      BY <3>1, DecPacket
    <3> QED BY <2>2, <2>5, <3>2, ProgramsKept
  <2>7. PICK part2 : Rec(feed, junk, Next1(at, pid), decPat', decPmt', decSeen', reports \o new, part2)
    BY <2>1, <2>2, <2>4, <2>5, <2>6, RecStep
  <2>8. Stream(feed, at')
    BY <2>2, <2>5, NextPacket
  <2> QED BY <2>2, <2>4, <2>5, <2>7, <2>8 DEF DecInv
<1>2. CASE UNCHANGED vars
  BY <1>2 DEF DecInv, vars, decVars
<1> QED
  BY <1>1, <1>2 DEF Next

\* TsDecoder reports the tables that were sent, in order, each once and with its own
\* elements, in whatever order the packets of the PIDs come, unless the rest of a table
\* comes that it is not in a position to see; the exceptions are those that the property
\* names.  (TsDecoder::onPacket and onPMT put all of them together in one place.)
THEOREM TablesReported == Spec => []ReportsTables
<1>1. Init => DecInv
  BY DecInit
<1>2. DecInv /\ [Next]_vars => DecInv'
  BY DecNext
<1>3. DecInv => ReportsTables
  <2> SUFFICES ASSUME DecInv, ~decSeen.stray, ~UnderWay
               PROVE  reports = ReportsOf(decSeen.due)
    BY DEF ReportsTables, ReportsOf
  <2> QED BY RecFinal DEF DecInv
<1> QED
  BY <1>1, <1>2, <1>3, PTL DEF Spec

\* A table of which all packets come one after the other is reported as it was sent,
\* whatever came before it, and whatever is reported besides.  (A start gives
\* TsDecoder::onPacket a new table.)
THEOREM WholeReported == Spec => []ReportsWhole
<1>1. Init => DecInv
  BY DecInit
<1>2. DecInv /\ [Next]_vars => DecInv'
  BY DecNext
<1>3. DecInv => ReportsWhole
  BY RecIncludes DEF DecInv, ReportsWhole
<1> QED
  BY <1>1, <1>2, <1>3, PTL DEF Spec

-----------------------------------------------------------------------------
\* What a packet does to the demultiplexer's table and types.
LEMMA DmxTable ==
    ASSUME NEW t, NEW j, Dmx!ParseTable(t, j)
    PROVE  /\ dmxPmt' = Dec!parse(t, j).table
           /\ pid2type' = IF Dec!parse(t, j).ok
                          THEN Dmx!initTypeMap(pid2type, Dec!parse(t, j).table.elmts) ELSE pid2type
<1>1. Dmx!parse(t, j) = Dec!parse(t, j)
  BY SameParse
<1> QED
  BY <1>1 DEF Dmx!ParseTable

LEMMA DmxPacket ==
    ASSUME NEW p, NEW j, Dmx!onPacket(p, j),
           p.pid \in DOMAIN dmxPat.programs => dmxPat.programs[p.pid] \in Nat
    PROVE  /\ ReadsPAT(dmxPat, dmxPat', p, j)
           /\ p.pid \notin Known(dmxPat) /\ ~(p.start /\ p.pid \in DOMAIN dmxPat.programs) =>
                dmxPmt' = dmxPmt /\ pid2type' = pid2type
           /\ p.pid # 0 /\ (p.pid \in Known(dmxPat) \/ (p.start /\ p.pid \in DOMAIN dmxPat.programs)) =>
                LET table == IF p.start THEN Dec!NewTable ELSE dmxPmt
                    parsed == Dec!parse(Dec!Add(table, p.data), j)
                IN  /\ dmxPmt' = parsed.table
                    /\ pid2type' = IF parsed.ok THEN Dmx!initTypeMap(pid2type, parsed.table.elmts)
                                   ELSE pid2type
<1>0. Dmx!Add(Dmx!NewTable, p.data) = Dec!Add(Dec!NewTable, p.data)
      /\ Dmx!Add(dmxPmt, p.data) = Dec!Add(dmxPmt, p.data)
  BY SameNew
<1>1. ReadsPAT(dmxPat, dmxPat', p, j)
  BY SamePAT DEF Dmx!onPacket, Dmx!OnPAT, Dmx!OnTable, Dmx!OnUnit, Dmx!OnRest, Dmx!OnOther, ReadsPAT
<1>2. /\ Dmx!InPAT(p.pid) <=> p.pid \in DOMAIN dmxPat.programs
      /\ Dmx!InPAT(p.pid) /\ dmxPat.programs[p.pid] > 0 <=> p.pid \in Known(dmxPat)
  BY DEF Dmx!InPAT, Known
<1>3. ASSUME p.pid \notin Known(dmxPat), ~(p.start /\ p.pid \in DOMAIN dmxPat.programs)
      PROVE  dmxPmt' = dmxPmt /\ pid2type' = pid2type
  BY <1>2, <1>3 DEF Dmx!onPacket, Dmx!OnPAT, Dmx!OnTable, Dmx!OnUnit, Dmx!OnRest, Dmx!OnOther
<1>4. ASSUME p.pid # 0, p.start, p.pid \in DOMAIN dmxPat.programs
      PROVE  Dmx!ParseTable(Dec!Add(Dec!NewTable, p.data), j)
  BY <1>0, <1>2, <1>4 DEF Dmx!onPacket, Dmx!OnPAT, Dmx!OnTable, Dmx!OnUnit, Dmx!OnRest, Dmx!OnOther
<1>5. ASSUME p.pid # 0, ~p.start, p.pid \in Known(dmxPat)
      PROVE  Dmx!ParseTable(Dec!Add(dmxPmt, p.data), j)
  BY <1>0, <1>2, <1>5 DEF Dmx!onPacket, Dmx!OnPAT, Dmx!OnTable, Dmx!OnUnit, Dmx!OnRest, Dmx!OnOther
<1>6. p.pid \in Known(dmxPat) => p.pid \in DOMAIN dmxPat.programs
  BY DEF Known
<1> QED
  BY <1>1, <1>3, <1>4, <1>5, <1>6, DmxTable

\* A section on the PID of the network information table is not accepted.
LEMMA NotAccepted ==
    ASSUME feed \in Feeds, junk \in Junk, Stream(feed, at), NEW pid \in DOMAIN feed,
           at[pid] < Len(feed[pid]), NEW pat, FromTables(feed, junk, pat),
           pid \in DOMAIN pat.programs, pid \notin Known(pat),
           NEW p, p = feed[pid][at[pid] + 1], p.start,
           NEW parsed, parsed = Dec!parse(Dec!Add(Dec!NewTable, p.data), junk)
    PROVE  ~parsed.ok
<1> DEFINE m == at[pid] + 1
           read == Reading(feed[pid], junk)
           none == <<>>
<1>1. m \in 1..Len(feed[pid]) /\ at[pid] \in Nat
  BY NextPacket
<1>2. /\ ReadAsSent(feed[pid], junk) /\ ~feed[pid][m].fair
      /\ Len(feed[pid]) \in Nat /\ DOMAIN feed[pid] = 1..Len(feed[pid])
  BY <1>1, Sections, Packets DEF Known
<1>3. Begins(feed[pid], m, m)
  BY <1>1, BeginsHere
<1>4. read[m] = Read(Unread, p.data, junk)
  <2>1. Reads(read, feed[pid], junk, Len(feed[pid]))
    BY <1>2, ReadingStep
  <2> HIDE DEF m, read
  <2> QED BY <1>1, <2>1 DEF Reads, m
<1>5. read[m].accepted = <<>>
  <2> HIDE DEF m
  <2> QED BY <1>1, <1>2, <1>3, AcceptedPart
<1>6. Unread.accepted = <<>> /\ Unread.table = Dec!NewTable
  BY DEF Unread
<1> HIDE DEF m, read
<1> DEFINE e == parsed.table.elmts
<1>7. Read(Unread, p.data, junk).accepted = IF parsed.ok THEN Append(none, e) ELSE none
  BY <1>6 DEF Read
<1>8. Append(none, e) # <<>>
  <2> HIDE DEF e
  <2> QED OBVIOUS
<1> HIDE DEF e, none
<1> QED
  BY <1>4, <1>5, <1>7, <1>8

\* What the demultiplexer learns from the tables that are accepted.
Learns(types, types2, new) ==
    \/ new = <<>> /\ types2 = types
    \/ \E e : new = <<e>> /\ types2 = Dmx!initTypeMap(types, e)

LEMMA DmxSteps ==
    ASSUME feed \in Feeds, junk \in Junk, Stream(feed, at),
           NEW pid \in DOMAIN feed, Receive(pid), FromTables(feed, junk, dmxPat)
    PROVE  \E p, known, disturbs, new :
             /\ Steps(pid, p, dmxPat, dmxPat', dmxPmt, dmxPmt', known, known, disturbs, new,
                      dmxSeen, dmxSeen')
             /\ Learns(pid2type, pid2type', new)
<1> DEFINE p == feed[pid][at[pid] + 1]
           c == Coming(pid, at[pid] + 1)
           known == pid \in Known(dmxPat)
           disturbs == pid \in DOMAIN dmxPat.programs
           parsed == Dec!parse(Dec!Add(IF p.start THEN Dec!NewTable ELSE dmxPmt, p.data), junk)
           new == IF known THEN NewOf(parsed) ELSE <<>>
<1>1. c.pid = pid /\ c.start = p.start /\ c.data = p.data
  BY DEF Coming
<1>2. /\ Dmx!onPacket(c, junk) /\ at[pid] < Len(feed[pid])
      /\ dmxSeen' = Track(dmxSeen, pid, known, known, disturbs)
  BY DEF Receive, More, Known
<1> HIDE DEF c
<1>3. disturbs => pid # 0 /\ dmxPat.programs[pid] \in Nat
  BY Sections
<1>4. /\ ReadsPAT(dmxPat, dmxPat', c, junk)
      /\ ~known /\ ~(p.start /\ disturbs) => dmxPmt' = dmxPmt /\ pid2type' = pid2type
      /\ pid # 0 /\ (known \/ (p.start /\ disturbs)) =>
            /\ dmxPmt' = parsed.table
            /\ pid2type' = IF parsed.ok THEN Dmx!initTypeMap(pid2type, parsed.table.elmts)
                           ELSE pid2type
  BY <1>1, <1>2, <1>3, DmxPacket
<1>5. known => disturbs
  BY DEF Known
<1>6. ~known /\ p.start /\ disturbs => ~parsed.ok
  BY <1>2, NotAccepted
<1>7. Known(dmxPat) \subseteq Known(dmxPat')
  BY <1>2, <1>4, ProgramsKept DEF c
<1>8. disturbs => dmxPat' = dmxPat
  BY <1>1, <1>3, <1>4 DEF ReadsPAT
<1>9. Learns(pid2type, pid2type', new)
  <2> HIDE DEF parsed, known, disturbs
  <2> QED BY <1>3, <1>4, <1>5, <1>6 DEF Learns, NewOf
<1>10. Takes(p, junk, pid, dmxPat, dmxPmt, dmxPat', dmxPmt', known, disturbs, new)
  <2>1. known => /\ parsed = Dec!parse(Dec!Add(IF p.start THEN Dec!NewTable ELSE dmxPmt, p.data), junk)
                 /\ dmxPmt' = parsed.table
                 /\ new = NewOf(parsed)
    BY <1>3, <1>4, <1>5
  <2> HIDE DEF parsed, p
  <2>2. ~known => new = <<>>
    OBVIOUS
  <2> HIDE DEF new
  <2> QED BY <1>4, <1>5, <1>8, <2>1, <2>2 DEF Takes
<1> HIDE DEF new, p
<1>11. Steps(pid, p, dmxPat, dmxPat', dmxPmt, dmxPmt', known, known, disturbs, new, dmxSeen, dmxSeen')
  <2>1. known \in BOOLEAN /\ disturbs \in BOOLEAN /\ (known <=> pid \in Known(dmxPat)) /\ p = feed[pid][at[pid] + 1]
    BY DEF p
  <2> HIDE DEF known, disturbs
  <2>2. {known, known, disturbs} \subseteq BOOLEAN
    BY <2>1
  <2> QED BY <1>2, <1>7, <1>10, <2>1, <2>2 DEF Steps
<1> QED
  BY <1>9, <1>11

-----------------------------------------------------------------------------
\* The first element of a PID that has a type.
IsFirst(s, q, k) ==
    /\ k \in 1..Len(s) /\ s[k].pid = q /\ Dmx!TypeOf(s[k]) # "UNKNOWN"
    /\ \A i \in 1..Len(s) : i < k /\ s[i].pid = q => Dmx!TypeOf(s[i]) = "UNKNOWN"

Gives(s, q, y) == \E k : IsFirst(s, q, k) /\ y = Dmx!TypeOf(s[k])

Typed(s, q) == \E k : IsFirst(s, q, k)

Agrees(types, s) ==
    /\ \A q : q \in DOMAIN types <=> Typed(s, q)
    /\ \A q, y : Gives(s, q, y) => types[q] = y

LEMMA FirstOnce ==
    ASSUME NEW s, Len(s) \in Nat, NEW q, NEW k, NEW i, IsFirst(s, q, k), IsFirst(s, q, i)
    PROVE  i = k
<1>1. i \in 1..Len(s) /\ k \in 1..Len(s)
  BY DEF IsFirst
<1>2. ~(i < k) /\ ~(k < i)
  BY DEF IsFirst
<1> QED
  BY <1>1, <1>2

LEMMA TypedBy ==
    ASSUME NEW s, Len(s) \in Nat, NEW k \in 1..Len(s), Dmx!TypeOf(s[k]) # "UNKNOWN"
    PROVE  Typed(s, s[k].pid)
<1> DEFINE q == s[k].pid
           T == {i \in 1..Len(s) : s[i].pid = q /\ Dmx!TypeOf(s[i]) # "UNKNOWN"}
<1>1. T \subseteq Nat /\ k \in T
  OBVIOUS
<1>2. PICK i \in T : \A j \in T : i <= j
  <2> HIDE DEF T
  <2> QED BY <1>1, LeastNat
<1>3. i \in 1..Len(s) /\ s[i].pid = q /\ Dmx!TypeOf(s[i]) # "UNKNOWN"
  OBVIOUS
<1>4. ASSUME NEW j \in 1..Len(s), j < i, s[j].pid = q PROVE Dmx!TypeOf(s[j]) = "UNKNOWN"
  <2>1. ~(i <= j)
    BY <1>3, <1>4
  <2>2. j \notin T
    <3> HIDE DEF T
    <3> QED BY <1>2, <2>1
  <2> QED BY <1>4, <2>2
<1> HIDE DEF T, q
<1>5. IsFirst(s, q, i)
  BY <1>3, <1>4 DEF IsFirst
<1> QED
  BY <1>5 DEF Typed, q

LEMMA GivesMeans ==
    ASSUME NEW s, Len(s) \in Nat, NEW types
    PROVE  GivesTypes(types, s) <=> Agrees(types, s)
<1> DEFINE known == {k \in 1..Len(s) : Dmx!TypeOf(s[k]) # "UNKNOWN"}
           later(k) == \E i \in known : i < k /\ s[i].pid = s[k].pid
<1>1. GivesTypes(types, s) <=>
        /\ DOMAIN types = {s[k].pid : k \in known}
        /\ \A k \in known : types[s[k].pid] = Dmx!TypeOf(s[k]) \/ later(k)
  BY DEF GivesTypes
<1>2. \A q : q \in {s[k].pid : k \in known} <=> Typed(s, q)
  <2>1. ASSUME NEW k \in known PROVE Typed(s, s[k].pid)
    BY TypedBy
  <2>2. ASSUME NEW q, Typed(s, q) PROVE \E k \in known : q = s[k].pid
    BY <2>2 DEF Typed, IsFirst
  <2> HIDE DEF known
  <2> QED BY <2>1, <2>2
<1>3. \A q, k : IsFirst(s, q, k) <=> k \in known /\ s[k].pid = q /\ ~later(k)
  <2>1. ASSUME NEW q, NEW k, IsFirst(s, q, k) PROVE k \in known /\ s[k].pid = q /\ ~later(k)
    BY <2>1 DEF IsFirst
  <2>2. ASSUME NEW q, NEW k \in known, s[k].pid = q, ~later(k) PROVE IsFirst(s, q, k)
    BY <2>2 DEF IsFirst
  <2> HIDE DEF known, later
  <2> QED BY <2>1, <2>2
<1> HIDE DEF known, later
<1>4. (DOMAIN types = {s[k].pid : k \in known}) <=> \A q : q \in DOMAIN types <=> Typed(s, q)
  BY <1>2
<1>5. (\A k \in known : types[s[k].pid] = Dmx!TypeOf(s[k]) \/ later(k))
        <=> \A q, y : Gives(s, q, y) => types[q] = y
  BY <1>3 DEF Gives
<1> QED
  BY <1>1, <1>4, <1>5 DEF Agrees

LEMMA ConcatFirst ==
    ASSUME NEW E, NEW a \in Seq(E), NEW b \in Seq(E), NEW q
    PROVE  /\ \A y : Gives(a \o b, q, y) <=> Gives(a, q, y) \/ (~Typed(a, q) /\ Gives(b, q, y))
           /\ Typed(a \o b, q) <=> Typed(a, q) \/ Typed(b, q)
<1> DEFINE c == a \o b
           m == Len(a)
           n == Len(b)
<1>1. /\ m \in Nat /\ n \in Nat /\ Len(c) = m + n
      /\ \A i \in 1..m : c[i] = a[i]
      /\ \A i \in 1..n : c[m + i] = b[i]
  <2>1. /\ m \in Nat /\ n \in Nat /\ Len(c) = m + n
        /\ \A i \in 1..(m + n) : c[i] = IF i <= m THEN a[i] ELSE b[i - m]
    BY ConcatProperties, LenProperties
  <2>2. \A i \in 1..m : i \in 1..(m + n) /\ i <= m
    BY <2>1
  <2>3. \A i \in 1..n : m + i \in 1..(m + n) /\ ~(m + i <= m) /\ (m + i) - m = i
    BY <2>1
  <2> HIDE DEF c, m, n
  <2> QED BY <2>1, <2>2, <2>3
<1> HIDE DEF c
<1>2. \A i \in 1..Len(c) : i \in 1..m \/ \E j \in 1..n : i = m + j
  <2>1. ASSUME NEW i \in 1..Len(c), i \notin 1..m PROVE \E j \in 1..n : i = m + j
    <3>1. i - m \in 1..n /\ i = m + (i - m)
      BY <1>1, <2>1
    <3> QED BY <3>1
  <2> QED BY <2>1
<1>3. \A i \in 1..m : i \in 1..Len(c)
  BY <1>1
<1>4. \A i \in 1..n : m + i \in 1..Len(c)
  BY <1>1
<1>5. ASSUME NEW k, IsFirst(a, q, k) PROVE IsFirst(c, q, k) /\ c[k] = a[k]
  <2>1. k \in 1..m /\ c[k] = a[k] /\ k \in 1..Len(c)
    BY <1>1, <1>3, <1>5 DEF IsFirst
  <2>2. \A i \in 1..Len(c) : i < k => i \in 1..m /\ c[i] = a[i]
    BY <1>1, <1>2, <2>1
  <2> QED BY <1>5, <2>1, <2>2 DEF IsFirst
<1>6. ASSUME NEW k, IsFirst(b, q, k), ~Typed(a, q) PROVE IsFirst(c, q, m + k) /\ c[m + k] = b[k]
  <2>1. k \in 1..n /\ c[m + k] = b[k] /\ m + k \in 1..Len(c)
    BY <1>1, <1>4, <1>6 DEF IsFirst
  <2>2. ASSUME NEW i \in 1..Len(c), i < m + k, c[i].pid = q PROVE Dmx!TypeOf(c[i]) = "UNKNOWN"
    <3>1. CASE i \in 1..m
      <4>1. c[i] = a[i]
        BY <1>1, <3>1
      <4> QED BY <1>1, <1>6, <2>2, <3>1, <4>1, TypedBy
    <3>2. ASSUME NEW j \in 1..n, i = m + j PROVE Dmx!TypeOf(c[i]) = "UNKNOWN"
      <4>1. c[i] = b[j] /\ j < k
        BY <1>1, <2>1, <2>2, <3>2
      <4> QED BY <1>6, <2>2, <4>1 DEF IsFirst
    <3> QED BY <1>2, <3>1, <3>2
  <2> QED BY <1>6, <2>1, <2>2 DEF IsFirst
<1>7. ASSUME NEW k, IsFirst(c, q, k), ~Typed(a, q) PROVE \E j : IsFirst(b, q, j) /\ c[k] = b[j]
  <2>1. k \in 1..Len(c) /\ c[k].pid = q /\ Dmx!TypeOf(c[k]) # "UNKNOWN"
    BY <1>7 DEF IsFirst
  <2>2. k \notin 1..m
    <3>1. ASSUME k \in 1..m PROVE Typed(a, q)
      <4>1. c[k] = a[k]
        BY <1>1, <3>1
      <4> QED BY <1>1, <2>1, <3>1, <4>1, TypedBy
    <3> QED BY <1>7, <3>1
  <2>3. PICK j \in 1..n : k = m + j
    BY <1>2, <2>1, <2>2
  <2>4. c[k] = b[j]
    BY <1>1, <2>3
  <2>5. ASSUME NEW i \in 1..n, i < j, b[i].pid = q PROVE Dmx!TypeOf(b[i]) = "UNKNOWN"
    <3>1. m + i \in 1..Len(c) /\ m + i < k /\ c[m + i] = b[i]
      <4>1. m + i \in 1..Len(c) /\ c[m + i] = b[i]
        BY <1>1, <1>4
      <4>2. m + i < m + j
        BY <1>1, <2>3, <2>5
      <4> QED BY <2>3, <4>1, <4>2
    <3> QED BY <1>7, <2>5, <3>1 DEF IsFirst
  <2>6. IsFirst(b, q, j)
    BY <2>1, <2>3, <2>4, <2>5 DEF IsFirst
  <2> QED BY <2>4, <2>6
<1>8. \A k : IsFirst(c, q, k) => \A i : IsFirst(a, q, i) => i = k /\ c[k] = a[k]
  <2>1. ASSUME NEW k, IsFirst(c, q, k), NEW i, IsFirst(a, q, i) PROVE i = k /\ c[k] = a[k]
    <3>1. IsFirst(c, q, i) /\ c[i] = a[i]
      BY <1>5, <2>1
    <3>2. Len(c) \in Nat
      BY <1>1
    <3>3. i = k
      BY <2>1, <3>1, <3>2, FirstOnce
    <3> QED BY <3>1, <3>3
  <2> QED BY <2>1
<1> HIDE DEF m, n
<1>9. Typed(c, q) <=> Typed(a, q) \/ Typed(b, q)
  BY <1>5, <1>6, <1>7 DEF Typed
<1>10. ASSUME NEW y PROVE Gives(c, q, y) <=> Gives(a, q, y) \/ (~Typed(a, q) /\ Gives(b, q, y))
  <2>1. CASE Typed(a, q)
    BY <1>5, <1>8, <2>1 DEF Gives, Typed
  <2>2. CASE ~Typed(a, q)
    BY <1>6, <1>7, <2>2 DEF Gives, Typed
  <2> QED BY <2>1, <2>2
<1> QED
  BY <1>9, <1>10 DEF c

\* What initTypeMap learns.
LEMMA MapAgrees ==
    ASSUME NEW E, NEW s \in Seq(E), NEW e \in Seq(E), NEW types, Agrees(types, s)
    PROVE  Agrees(Dmx!initTypeMap(types, e), s \o e)
<1> DEFINE known == {k \in 1..Len(e) : Dmx!TypeOf(e[k]) # "UNKNOWN"}
           first(pid) == CHOOSE k \in known :
                           /\ e[k].pid = pid
                           /\ \A j \in known : e[j].pid = pid => k <= j
           map == Dmx!initTypeMap(types, e)
           D == DOMAIN types \cup {e[k].pid : k \in known}
<1>0. Len(e) \in Nat
  BY LenProperties
<1>1. map = [pid \in D |-> IF pid \in DOMAIN types THEN types[pid] ELSE Dmx!TypeOf(e[first(pid)])]
  BY DEF Dmx!initTypeMap
<1>2. \A q : q \in {e[k].pid : k \in known} <=> Typed(e, q)
  <2>1. ASSUME NEW k \in known PROVE Typed(e, e[k].pid)
    BY <1>0, TypedBy
  <2>2. ASSUME NEW q, Typed(e, q) PROVE \E k \in known : q = e[k].pid
    BY <2>2 DEF Typed, IsFirst
  <2> HIDE DEF known
  <2> QED BY <2>1, <2>2
<1>3. ASSUME NEW q, NEW k, IsFirst(e, q, k) PROVE first(q) = k
  <2>1. \A j \in known : e[j].pid = q => k <= j
    <3>1. ASSUME NEW j \in known, e[j].pid = q PROVE k <= j
      <4>1. ~(j < k) /\ k \in 1..Len(e) /\ j \in 1..Len(e)
        BY <1>3, <3>1 DEF IsFirst
      <4> QED BY <1>0, <4>1
    <3> QED BY <3>1
  <2>2. k \in known /\ e[k].pid = q
    BY <1>3 DEF IsFirst
  <2>3. /\ first(q) \in known /\ e[first(q)].pid = q
        /\ \A j \in known : e[j].pid = q => first(q) <= j
    <3> HIDE DEF known
    <3> QED BY <2>1, <2>2
  <2> HIDE DEF first
  <2>4. first(q) <= k /\ k <= first(q)
    BY <2>1, <2>2, <2>3
  <2>5. first(q) \in 1..Len(e) /\ k \in 1..Len(e)
    BY <2>2, <2>3
  <2> QED BY <1>0, <2>4, <2>5
<1> HIDE DEF known, first
<1>4. \A q : q \in DOMAIN map <=> q \in DOMAIN types \/ Typed(e, q)
  BY <1>1, <1>2
<1>5. \A q \in DOMAIN types : map[q] = types[q]
  BY <1>1
<1>6. ASSUME NEW q, q \notin DOMAIN types, NEW y, Gives(e, q, y) PROVE map[q] = y
  <2>1. PICK k : IsFirst(e, q, k) /\ y = Dmx!TypeOf(e[k])
    BY <1>6 DEF Gives
  <2>2. q \in D
    BY <1>2, <2>1 DEF Typed
  <2> HIDE DEF D
  <2>3. map[q] = Dmx!TypeOf(e[first(q)])
    BY <1>1, <1>6, <2>2
  <2> QED BY <1>3, <2>1, <2>3
<1> HIDE DEF map
<1> DEFINE c == s \o e
<1>7. \A q : /\ \A y : Gives(c, q, y) <=> Gives(s, q, y) \/ (~Typed(s, q) /\ Gives(e, q, y))
             /\ Typed(c, q) <=> Typed(s, q) \/ Typed(e, q)
  BY ConcatFirst
<1> HIDE DEF c
<1>8. \A q : q \in DOMAIN types <=> Typed(s, q)
  BY DEF Agrees
<1>9. \A q, y : Gives(s, q, y) => types[q] = y
  BY DEF Agrees
<1>10. \A q, y : Gives(s, q, y) => Typed(s, q)
  BY DEF Gives, Typed
<1>11. Agrees(map, c)
  <2>1. \A q : q \in DOMAIN map <=> Typed(c, q)
    BY <1>4, <1>7, <1>8
  <2>2. ASSUME NEW q, NEW y, Gives(c, q, y) PROVE map[q] = y
    BY <1>5, <1>6, <1>7, <1>8, <1>9, <1>10, <2>2
  <2> QED BY <2>1, <2>2 DEF Agrees
<1> QED
  BY <1>11 DEF c, map

\* A table twice says what it says once.
LEMMA TwiceFirst ==
    ASSUME NEW E, NEW t \in Seq(E), NEW q
    PROVE  /\ \A y : Gives(t \o t, q, y) <=> Gives(t, q, y)
           /\ Typed(t \o t, q) <=> Typed(t, q)
           /\ \A y : Gives(t \o (t \o t), q, y) <=> Gives(t, q, y)
           /\ Typed(t \o (t \o t), q) <=> Typed(t, q)
<1> DEFINE u == t \o t
<1>1. \A y : Gives(t, q, y) => Typed(t, q)
  BY DEF Gives, Typed
<1>2. /\ \A y : Gives(u, q, y) <=> Gives(t, q, y) \/ (~Typed(t, q) /\ Gives(t, q, y))
      /\ Typed(u, q) <=> Typed(t, q) \/ Typed(t, q)
  BY ConcatFirst
<1>3. u \in Seq(E)
  BY ConcatProperties
<1> HIDE DEF u
<1>4. /\ \A y : Gives(t \o u, q, y) <=> Gives(t, q, y) \/ (~Typed(t, q) /\ Gives(u, q, y))
      /\ Typed(t \o u, q) <=> Typed(t, q) \/ Typed(u, q)
  BY <1>3, ConcatFirst
<1> QED
  BY <1>1, <1>2, <1>4 DEF u

\* The types that what is reported gives are those that what is due gives.
LEMMA DueTypes ==
    ASSUME NEW E, NEW T, T \subseteq Seq(E), NEW due \in Seq(T)
    PROVE  /\ \A q, y : Gives(FlattenSeq(ReportsOf(due)), q, y) <=> Gives(FlattenSeq(due), q, y)
           /\ \A q : Typed(FlattenSeq(ReportsOf(due)), q) <=> Typed(FlattenSeq(due), q)
           /\ ReportsOf(due) \in Seq(Seq(E))
<1> DEFINE Same(a, b) == /\ \A q, y : Gives(a, q, y) <=> Gives(b, q, y)
                         /\ \A q : Typed(a, q) <=> Typed(b, q)
           G == {d \in Seq(T) : /\ ReportsOf(d) \in Seq(Seq(E))
                                /\ Same(FlattenSeq(ReportsOf(d)), FlattenSeq(d))}
<1>1. <<>> \in G
  <2>1. ReportsOf(<<>>) = <<>>
    <3> DEFINE none == <<>>
    <3>1. [k \in 1..Len(none) |-> Reported(none[k])] = <<>>
      OBVIOUS
    <3> QED BY <3>1, FlattenNone DEF ReportsOf
  <2> QED BY <2>1, EmptySeq, FlattenNone
<1>2. ASSUME NEW d \in Seq(T), NEW t \in T, d \in G PROVE Append(d, t) \in G
  <2> DEFINE r == ReportsOf(d)
             x == Reported(t)
             fx == FlattenSeq(x)
             fr == FlattenSeq(r)
             fd == FlattenSeq(d)
             u == t \o t
             w == t \o u
  <2>1. /\ r \in Seq(Seq(E)) /\ d \in Seq(Seq(E)) /\ t \in Seq(E) /\ Append(d, t) \in Seq(T)
        /\ Same(fr, fd)
    <3>1. d \in Seq(Seq(E))
      BY SeqMonotonic
    <3> QED BY <1>2, <3>1, AppendProperties
  <2>2. u \in Seq(E) /\ w \in Seq(E)
    <3>1. u \in Seq(E)
      BY <2>1, ConcatProperties
    <3> HIDE DEF u
    <3> QED BY <2>1, <3>1, ConcatProperties
  <2>3. /\ x \in Seq(Seq(E)) /\ fx \in Seq(E) /\ Same(fx, t)
    <3>1. x = <<t>> \/ x = <<t, u>>
      BY DEF Reported
    <3> HIDE DEF u, w, x
    <3>2. FlattenSeq(<<t>>) = t /\ <<t>> \in Seq(Seq(E))
      <4>1. <<t>> \in Seq(Seq(E)) /\ <<t>> = Append(<<>>, t) /\ <<>> \in Seq(Seq(E))
        BY <2>1
      <4>2. FlattenSeq(Append(<<>>, t)) = FlattenSeq(<<>>) \o t
        BY <2>1, <4>1, FlattenAppend
      <4>3. <<>> \o t = t
        BY <2>1, ConcatEmptySeq
      <4> QED BY <4>1, <4>2, <4>3, FlattenNone
    <3>3. FlattenSeq(<<t, u>>) = w /\ <<t, u>> \in Seq(Seq(E))
      <4>1. <<t, u>> \in Seq(Seq(E)) /\ <<t, u>> = Append(<<t>>, u)
        BY <2>1, <2>2
      <4>2. FlattenSeq(Append(<<t>>, u)) = FlattenSeq(<<t>>) \o u
        BY <2>2, <3>2, FlattenAppend
      <4> QED BY <3>2, <4>1, <4>2 DEF w
    <3>4. CASE x = <<t>>
      BY <2>1, <3>2, <3>4
    <3>5. CASE x = <<t, u>>
      <4>1. Same(w, t)
        BY <2>1, TwiceFirst DEF w, u
      <4> QED BY <2>2, <3>3, <3>5, <4>1
    <3> QED BY <3>1, <3>4, <3>5
  <2>4. ReportsOf(Append(d, t)) = r \o x
    BY ReportsAppend
  <2>5. /\ FlattenSeq(r \o x) = fr \o fx /\ FlattenSeq(Append(d, t)) = fd \o t
        /\ r \o x \in Seq(Seq(E)) /\ fr \in Seq(E) /\ fd \in Seq(E)
    <3> HIDE DEF r, x
    <3> QED BY <2>1, <2>3, FlattenConcat, FlattenAppend, FlattenType, ConcatProperties
  <2> HIDE DEF r, x, fx, fr, fd
  <2>6. Same(fr \o fx, fd \o t)
    <3>1. \A q : /\ \A y : Gives(fr \o fx, q, y) <=> Gives(fr, q, y) \/ (~Typed(fr, q) /\ Gives(fx, q, y))
                 /\ Typed(fr \o fx, q) <=> Typed(fr, q) \/ Typed(fx, q)
      BY <2>3, <2>5, ConcatFirst
    <3>2. \A q : /\ \A y : Gives(fd \o t, q, y) <=> Gives(fd, q, y) \/ (~Typed(fd, q) /\ Gives(t, q, y))
                 /\ Typed(fd \o t, q) <=> Typed(fd, q) \/ Typed(t, q)
      BY <2>1, <2>5, ConcatFirst
    <3> QED BY <2>1, <2>3, <3>1, <3>2
  <2> QED BY <2>1, <2>4, <2>5, <2>6
<1> HIDE DEF G
<1>3. Seq(T) \subseteq G
  BY <1>1, <1>2, OnSequences
<1>4. due \in G
  BY <1>3
<1> QED
  BY <1>4 DEF G

-----------------------------------------------------------------------------
\* The tables of a stream are sequences of its elements.
LEMMA DoubledSeq ==
    ASSUME NEW sent \in Feeds
    PROVE  TablesOf(sent) \subseteq Seq(ElementsOf(sent)) /\ Doubled(sent) \subseteq Seq(ElementsOf(sent))
<1> DEFINE S == ElementsOf(sent)
<1>1. ASSUME NEW t \in TablesOf(sent) PROVE t \in Seq(S)
  <2>1. PICK q \in DOMAIN sent : \E k \in DOMAIN sent[q] : t = sent[q][k].table
    BY DEF TablesOf
  <2>2. PICK k \in DOMAIN sent[q] : t = sent[q][k].table
    BY <2>1
  <2>3. t \in Seq(Range(t))
    BY <2>2, FeedsAssumption
  <2>4. Range(t) \subseteq S
    BY DEF ElementsOf
  <2> HIDE DEF S
  <2> QED BY <2>3, <2>4, SeqMonotonic
<1> HIDE DEF S
<1>2. \A t \in TablesOf(sent) : t \o t \in Seq(S)
  BY <1>1, ConcatProperties
<1> QED
  BY <1>1, <1>2 DEF Doubled, S

\* The demultiplexer sees the tables as "dmxSeen" says, and knows the types that those give
\* which it accepted.
DmxInv ==
    /\ feed \in Feeds
    /\ junk \in Junk
    /\ Stream(feed, at)
    /\ \E log, part : /\ Rec(feed, junk, at, dmxPat, dmxPmt, dmxSeen, log, part)
                      /\ ~dmxSeen.stray => Agrees(pid2type, FlattenSeq(log))

LEMMA DmxInit == ASSUME Init PROVE DmxInv
<1>1. dmxPat.programs = <<>> /\ pid2type = <<>> /\ dmxSeen = Unseen
  BY DEF Init, Dmx!Init, Dmx!NewPAT
<1>2. feed \in Feeds
  BY StreamInit
<1>3. Rec(feed, junk, at, dmxPat, dmxPmt, Unseen, <<>>, <<>>)
  BY <1>1, <1>2, RecInit
<1>4. \A q, k : ~IsFirst(<<>>, q, k)
  BY DEF IsFirst
<1>5. Agrees(<<>>, <<>>)
  BY <1>4 DEF Agrees, Typed, Gives
<1>6. Agrees(pid2type, FlattenSeq(<<>>))
  BY <1>1, <1>5, FlattenNone
<1> QED
  BY <1>1, <1>3, <1>6, StreamInit DEF DmxInv

LEMMA LearnsAgrees ==
    ASSUME NEW E, NEW log, NEW new, log \in Seq(Seq(E)), new \in Seq(Seq(E)),
           NEW types, NEW types2, Learns(types, types2, new), Agrees(types, FlattenSeq(log))
    PROVE  Agrees(types2, FlattenSeq(log \o new))
<1>1. CASE new = <<>> /\ types2 = types
  <2>1. log \o <<>> = log
    BY ConcatEmptySeq
  <2> QED BY <1>1, <2>1
<1>2. ASSUME NEW e, new = <<e>>, types2 = Dmx!initTypeMap(types, e)
      PROVE  Agrees(types2, FlattenSeq(log \o new))
  <2>1. e \in Seq(E)
    <3> DEFINE S == Seq(E)
    <3>1. new \in Seq(S) /\ Len(new) = 1 /\ new[1] = e
      BY <1>2
    <3> HIDE DEF S
    <3>2. 1 \in 1..Len(new)
      BY <3>1
    <3>3. new[1] \in S
      BY <3>1, <3>2, ElementOfSeq
    <3> QED BY <3>1, <3>3 DEF S
  <2>2. log \o new = Append(log, e)
    <3> DEFINE S == Seq(E)
    <3>1. log \in Seq(S) /\ e \in S
      BY <2>1
    <3> HIDE DEF S
    <3> QED BY <1>2, <3>1, AppendIsConcat
  <2>3. FlattenSeq(Append(log, e)) = FlattenSeq(log) \o e /\ FlattenSeq(log) \in Seq(E)
    BY <2>1, FlattenAppend, FlattenType
  <2> DEFINE s == FlattenSeq(log)
  <2>4. s \in Seq(E) /\ Agrees(types, s)
    BY <2>3
  <2> HIDE DEF s
  <2>5. Agrees(Dmx!initTypeMap(types, e), s \o e)
    BY <2>1, <2>4, MapAgrees
  <2> QED BY <1>2, <2>2, <2>3, <2>5 DEF s
<1> QED
  BY <1>1, <1>2 DEF Learns

LEMMA DmxReceive ==
    ASSUME DmxInv, NEW pid \in DOMAIN feed, Receive(pid)
    PROVE  DmxInv' /\ (dmxSeen.stray => dmxSeen'.stray)
<1>1. PICK log, part : /\ Rec(feed, junk, at, dmxPat, dmxPmt, dmxSeen, log, part)
                       /\ ~dmxSeen.stray => Agrees(pid2type, FlattenSeq(log))
  BY DEF DmxInv
<1>2. feed \in Feeds /\ junk \in Junk /\ Stream(feed, at) /\ FromTables(feed, junk, dmxPat)
  BY <1>1 DEF DmxInv, Rec
<1>3. PICK p, known, disturbs, new :
             /\ Steps(pid, p, dmxPat, dmxPat', dmxPmt, dmxPmt', known, known, disturbs, new,
                      dmxSeen, dmxSeen')
             /\ Learns(pid2type, pid2type', new)
  BY <1>2, DmxSteps
<1>4. at' = Next1(at, pid) /\ at[pid] < Len(feed[pid]) /\ feed' = feed /\ junk' = junk
  BY DEF Receive, More, Next1
<1>5. FromTables(feed, junk, dmxPat')
  <2>1. Dmx!onPacket(Coming(pid, at[pid] + 1), junk)
    BY DEF Receive
  <2>2. Coming(pid, at[pid] + 1).pid = pid
    BY DEF Coming
  <2>3. ReadsPAT(dmxPat, dmxPat', Coming(pid, at[pid] + 1), junk)
    BY <1>2, <2>1, <2>2, Sections, DmxPacket
  <2> QED BY <1>2, <1>4, <2>3, ProgramsKept
<1>6. /\ \E part2 : Rec(feed, junk, Next1(at, pid), dmxPat', dmxPmt', dmxSeen', log \o new, part2)
      /\ dmxSeen.stray => dmxSeen'.stray
      /\ ~dmxSeen'.stray => new \in Seq(Doubled(feed))
  BY <1>1, <1>2, <1>3, <1>4, <1>5, RecStep
<1>7. PICK part2 : Rec(feed, junk, Next1(at, pid), dmxPat', dmxPmt', dmxSeen', log \o new, part2)
  BY <1>6
<1>8. ASSUME ~dmxSeen'.stray PROVE Agrees(pid2type', FlattenSeq(log \o new))
  <2>1. log \in Seq(Doubled(feed)) /\ Agrees(pid2type, FlattenSeq(log)) /\ new \in Seq(Doubled(feed))
    BY <1>1, <1>6, <1>8 DEF Rec
  <2> DEFINE E == ElementsOf(feed)
  <2>2. log \in Seq(Seq(E)) /\ new \in Seq(Seq(E))
    BY <1>2, <2>1, DoubledSeq, SeqMonotonic
  <2> HIDE DEF E
  <2> QED BY <1>3, <2>1, <2>2, LearnsAgrees
<1>9. Stream(feed, at')
  BY <1>2, <1>4, NextPacket
<1>10. DmxInv'
  BY <1>2, <1>4, <1>7, <1>8, <1>9 DEF DmxInv
<1> QED
  BY <1>6, <1>10

LEMMA DmxNext == ASSUME DmxInv, [Next]_vars PROVE DmxInv'
<1>1. CASE UNCHANGED vars
  BY <1>1 DEF DmxInv, vars, dmxVars
<1> QED
  BY <1>1, DmxReceive DEF Next

\* The demultiplexer knows the types that the tables it could see gave the PIDs, of each
\* the first, and no other.  (MP2TFileDemux::onPacket parses what is accepted once more
\* when the rest is there; initTypeMap inserts, so that nothing is learned twice.)
THEOREM TypesLearned == Spec => []LearnsTypes
<1>1. Init => DmxInv
  BY DmxInit
<1>2. DmxInv /\ [Next]_vars => DmxInv'
  BY DmxNext
<1>3. DmxInv => LearnsTypes
  <2> SUFFICES ASSUME DmxInv, ~dmxSeen.stray, ~UnderWay
               PROVE  GivesTypes(pid2type, FlattenSeq(dmxSeen.due))
    BY DEF LearnsTypes
  <2>1. PICK log, part : /\ Rec(feed, junk, at, dmxPat, dmxPmt, dmxSeen, log, part)
                         /\ ~dmxSeen.stray => Agrees(pid2type, FlattenSeq(log))
    BY DEF DmxInv
  <2> DEFINE due == dmxSeen.due
             E == ElementsOf(feed)
             T == TablesOf(feed)
             s == FlattenSeq(due)
             r == FlattenSeq(ReportsOf(due))
  <2>2. log = ReportsOf(due)
    BY <2>1, RecFinal DEF DmxInv
  <2>3. due \in Seq(T) /\ T \subseteq Seq(E)
    BY <2>1, DoubledSeq DEF Rec, DmxInv
  <2> HIDE DEF due, E, T
  <2>4. /\ \A q, y : Gives(r, q, y) <=> Gives(s, q, y)
        /\ \A q : Typed(r, q) <=> Typed(s, q)
    BY <2>3, DueTypes
  <2>5. Agrees(pid2type, r)
    BY <2>1, <2>2
  <2>6. Len(s) \in Nat
    <3>1. due \in Seq(Seq(E))
      BY <2>3, SeqMonotonic
    <3> QED BY <3>1, FlattenType, LenProperties
  <2> HIDE DEF r, s
  <2>7. Agrees(pid2type, s)
    BY <2>4, <2>5 DEF Agrees
  <2>8. GivesTypes(pid2type, s)
    BY <2>6, <2>7, GivesMeans
  <2> QED BY <2>8 DEF s, due
<1> QED
  BY <1>1, <1>2, <1>3, PTL DEF Spec

-----------------------------------------------------------------------------
\* A packet of a PID starts a unit for a file, or goes on with what is in its sample.
BeginsIn(f, p) ==
    /\ p.start /\ p.pes /\ p.pid # 0 /\ p.pid \notin DOMAIN dmxPat.programs
    /\ f = Dmx!FileOf(Dmx!packetType(pid2type, p.pid))

GoesOnIn(f, p) ==
    /\ ~p.start /\ f \in begun
    /\ f = Dmx!FileOf(Dmx!packetType(pid2type', p.pid))

Piece(f, p) == [data |-> sample[f], cells |-> f = "klv" /\ p.id = 252]

LEMMA PacketFills ==
    ASSUME SampleInv, NEW p, NEW j, Dmx!onPacket(p, j), NEW f \in Dmx!Files
    PROVE  /\ BeginsIn(f, p) => /\ sample'[f] = p.data
                                /\ file'[f] = IF sample[f] = <<>> THEN file[f]
                                              ELSE Append(file[f], Piece(f, p))
           /\ GoesOnIn(f, p) => sample'[f] = sample[f] \o p.data /\ file'[f] = file[f]
           /\ ~BeginsIn(f, p) /\ ~GoesOnIn(f, p) => sample'[f] = sample[f] /\ file'[f] = file[f]
<1>0. f # "none"
  BY DEF Dmx!Files
<1>1. CASE Dmx!OnPAT(p, j)
  BY <1>1 DEF Dmx!OnPAT, BeginsIn, GoesOnIn
<1>2. CASE Dmx!OnTable(p, j)
  BY <1>2 DEF Dmx!OnTable, Dmx!InPAT, BeginsIn, GoesOnIn
<1>3. CASE Dmx!OnUnit(p)
  <2> DEFINE g == Dmx!FileOf(Dmx!packetType(pid2type, p.pid))
  <2>1. /\ p.start /\ p.pid # 0 /\ p.pid \notin DOMAIN dmxPat.programs /\ p.pes
        /\ Dmx!Finish(g, p.id) /\ sample' = [sample EXCEPT ![g] = p.data]
    BY <1>3 DEF Dmx!OnUnit, Dmx!InPAT
  <2>2. (BeginsIn(f, p) <=> f = g) /\ ~GoesOnIn(f, p)
    BY <2>1 DEF BeginsIn, GoesOnIn
  <2> HIDE DEF g
  <2>3. CASE f = g
    <3>1. sample'[f] = p.data /\ (f \notin begun => sample[f] = <<>>)
      BY <2>1, <2>3 DEF SampleInv
    <3>2. file'[f] = IF sample[f] = <<>> THEN file[f] ELSE Append(file[f], Piece(f, p))
      <4>1. CASE f \in begun /\ sample[f] # <<>>
        <5>1. file' = [file EXCEPT ![f] = Append(@, Piece(f, p))]
          BY <2>1, <2>3, <4>1 DEF Dmx!Finish, Piece
        <5> QED BY <4>1, <5>1 DEF SampleInv
      <4>2. CASE ~(f \in begun /\ sample[f] # <<>>)
        <5>1. file' = file
          BY <2>1, <2>3, <4>2 DEF Dmx!Finish
        <5> QED BY <3>1, <4>2, <5>1
      <4> QED BY <4>1, <4>2
    <3> QED BY <2>2, <2>3, <3>1, <3>2
  <2>4. CASE f # g
    <3>1. sample'[f] = sample[f]
      BY <2>1, <2>4 DEF SampleInv
    <3>2. file'[f] = file[f]
      BY <2>1, <2>4 DEF SampleInv, Dmx!Finish
    <3> QED BY <2>2, <2>4, <3>1, <3>2
  <2> QED BY <2>3, <2>4
<1>4. CASE Dmx!OnRest(p, j)
  <2> DEFINE g == Dmx!FileOf(Dmx!packetType(pid2type', p.pid))
  <2>1. ~p.start /\ Dmx!Continue(g, p.data) /\ file' = file
    BY <1>4 DEF Dmx!OnRest
  <2>2. (GoesOnIn(f, p) <=> f \in begun /\ f = g) /\ ~BeginsIn(f, p)
    BY <2>1 DEF BeginsIn, GoesOnIn
  <2> HIDE DEF g
  <2>3. CASE f \in begun /\ f = g
    <3>1. sample' = [sample EXCEPT ![f] = @ \o p.data]
      BY <2>1, <2>3 DEF Dmx!Continue
    <3>2. sample'[f] = sample[f] \o p.data
      BY <3>1 DEF SampleInv
    <3> QED BY <2>1, <2>2, <2>3, <3>2
  <2>4. CASE ~(f \in begun /\ f = g)
    <3>1. sample'[f] = sample[f]
      BY <2>1, <2>4 DEF SampleInv, Dmx!Continue
    <3> QED BY <2>1, <2>2, <2>4, <3>1
  <2> QED BY <2>3, <2>4
<1>5. CASE Dmx!OnOther(p)
  BY <1>0, <1>5 DEF Dmx!OnOther, BeginsIn, GoesOnIn
<1> QED
  BY <1>1, <1>2, <1>3, <1>4, <1>5 DEF Dmx!onPacket

\* The data of a stream, and all that a file and its sample have.
DataOf(sent) ==
    UNION {UNION {Range(sent[q][k].data) : k \in DOMAIN sent[q]} : q \in DOMAIN sent}

Pieces(sent) == [data : Seq(DataOf(sent)), cells : BOOLEAN]

FilesInv ==
    \A f \in Dmx!Files : sample[f] \in Seq(DataOf(feed)) /\ file[f] \in Seq(Pieces(feed))

WrittenOf(pieces) == [k \in 1..Len(pieces) |-> pieces[k].data]

AllOf(pieces, s) == FlattenSeq(WrittenOf(pieces)) \o s

LEMMA PiecesData == \A sent : \A r \in Pieces(sent) : r.data \in Seq(DataOf(sent))
  BY DEF Pieces

LEMMA PacketData ==
    ASSUME NEW sent \in Feeds, NEW q \in DOMAIN sent, NEW k \in DOMAIN sent[q]
    PROVE  sent[q][k].data \in Seq(DataOf(sent))
<1> DEFINE d == sent[q][k].data
           D == DataOf(sent)
<1>1. d \in Seq(Range(d))
  BY FeedsAssumption
<1>2. Range(d) \subseteq D
  BY DEF DataOf
<1> HIDE DEF d, D
<1>3. d \in Seq(D)
  BY <1>1, <1>2, SeqMonotonic
<1> QED
  BY <1>3 DEF d, D

LEMMA FilesKept ==
    ASSUME FilesInv, SampleInv, NEW p, NEW j, Dmx!onPacket(p, j), p.data \in Seq(DataOf(feed)),
           feed' = feed
    PROVE  FilesInv'
<1> DEFINE D == DataOf(feed)
<1>1. ASSUME NEW f \in Dmx!Files
      PROVE  sample'[f] \in Seq(D) /\ file'[f] \in Seq(Pieces(feed))
  <2>1. sample[f] \in Seq(D) /\ file[f] \in Seq(Pieces(feed))
    BY DEF FilesInv
  <2>2. Piece(f, p) \in Pieces(feed)
    BY <2>1 DEF Piece, Pieces
  <2>3. Append(file[f], Piece(f, p)) \in Seq(Pieces(feed))
    BY <2>1, <2>2, AppendProperties
  <2>4. sample[f] \o p.data \in Seq(D)
    BY <2>1, ConcatProperties
  <2> HIDE DEF D
  <2> QED BY <2>1, <2>3, <2>4, PacketFills DEF D
<1> QED
  BY <1>1 DEF FilesInv

LEMMA WrittenType ==
    ASSUME NEW D, NEW P, \A r \in P : r.data \in Seq(D), NEW pieces \in Seq(P)
    PROVE  WrittenOf(pieces) \in Seq(Seq(D)) /\ Len(WrittenOf(pieces)) = Len(pieces)
<1> DEFINE w == WrittenOf(pieces)
<1>1. Len(pieces) \in Nat /\ \A k \in 1..Len(pieces) : pieces[k] \in P
  BY LenProperties, ElementOfSeq
<1>2. DOMAIN w = 1..Len(pieces) /\ w = [k \in DOMAIN w |-> w[k]]
      /\ \A k \in 1..Len(pieces) : w[k] = pieces[k].data
  BY DEF WrittenOf
<1> HIDE DEF w
<1>3. \A k \in 1..Len(pieces) : w[k] \in Seq(D)
  BY <1>1, <1>2
<1>4. w \in Seq(Seq(D)) /\ Len(w) = Len(pieces)
  <2> DEFINE S == Seq(D)
  <2>1. \A k \in 1..Len(pieces) : w[k] \in S
    BY <1>3
  <2> HIDE DEF S
  <2>2. w \in Seq(S) /\ Len(w) = Len(pieces)
    BY <1>1, <1>2, <2>1, IsSeq
  <2> QED BY <2>2 DEF S
<1> QED
  BY <1>4 DEF w

LEMMA WrittenAppend ==
    ASSUME NEW D, NEW P, \A r \in P : r.data \in Seq(D), NEW pieces \in Seq(P), NEW x \in P
    PROVE  WrittenOf(Append(pieces, x)) = Append(WrittenOf(pieces), x.data)
<1> DEFINE u == Append(pieces, x)
           n == Len(pieces)
           a == WrittenOf(u)
           w == WrittenOf(pieces)
           d == x.data
           b == Append(w, d)
           S == Seq(D)
<1>1. u \in Seq(P) /\ Len(u) = n + 1 /\ u[n + 1] = x /\ n \in Nat /\ \A k \in 1..n : u[k] = pieces[k]
  BY AppendProperties, LenProperties
<1>2. a \in Seq(S) /\ Len(a) = n + 1 /\ w \in Seq(S) /\ Len(w) = n
  BY <1>1, WrittenType
<1>3. d \in S
  OBVIOUS
<1>4. /\ \A k \in 1..(n + 1) : a[k] = u[k].data
      /\ \A k \in 1..n : w[k] = pieces[k].data
  BY <1>1 DEF WrittenOf
<1> HIDE DEF S, u, n, a, w, d
<1>5. b \in Seq(S) /\ Len(b) = n + 1 /\ b[n + 1] = d /\ \A k \in 1..n : b[k] = w[k]
  BY <1>2, <1>3, AppendProperties
<1> HIDE DEF b
<1>6. \A k \in 1..(n + 1) : a[k] = b[k]
  <2>1. \A k \in 1..(n + 1) : k \in 1..n \/ k = n + 1
    BY <1>1
  <2>2. n + 1 \in 1..(n + 1) /\ \A k \in 1..n : k \in 1..(n + 1)
    BY <1>1
  <2>3. a[n + 1] = d
    BY <1>1, <1>4, <2>2 DEF d
  <2>4. \A k \in 1..n : a[k] = b[k]
    BY <1>1, <1>4, <1>5, <2>2
  <2> QED BY <1>5, <2>1, <2>3, <2>4
<1>7. a = b
  BY <1>1, <1>2, <1>5, <1>6, SeqEqual
<1> QED
  BY <1>7 DEF a, b, u, w, d

\* A file and its sample have what they had, and the data of the packet that is for it.
LEMMA AllType ==
    ASSUME FilesInv, NEW f \in Dmx!Files
    PROVE  /\ FlattenSeq(WrittenOf(file[f])) \in Seq(DataOf(feed))
           /\ sample[f] \in Seq(DataOf(feed))
           /\ AllOf(file[f], sample[f]) \in Seq(DataOf(feed))
<1> DEFINE D == DataOf(feed)
           w == WrittenOf(file[f])
<1>0. \A r \in Pieces(feed) : r.data \in Seq(D)
  BY PiecesData
<1>1. sample[f] \in Seq(D) /\ file[f] \in Seq(Pieces(feed))
  BY DEF FilesInv
<1> HIDE DEF D
<1>2. w \in Seq(Seq(D))
  <2> DEFINE P == Pieces(feed)
             g == file[f]
  <2>1. (\A r \in P : r.data \in Seq(D)) /\ g \in Seq(P)
    BY <1>0, <1>1
  <2> HIDE DEF P, g
  <2>2. WrittenOf(g) \in Seq(Seq(D))
    BY <2>1, WrittenType
  <2> QED BY <2>2 DEF g
<1> HIDE DEF w
<1>3. FlattenSeq(w) \in Seq(D)
  BY <1>2, FlattenType
<1> DEFINE a == FlattenSeq(w)
<1>4. a \in Seq(D)
  BY <1>3
<1> HIDE DEF a
<1>5. a \o sample[f] \in Seq(D)
  BY <1>1, <1>4, ConcatProperties
<1> QED
  BY <1>1, <1>4, <1>5 DEF AllOf, a, w, D

LEMMA AllGrows ==
    ASSUME FilesInv, SampleInv, NEW p, NEW j, Dmx!onPacket(p, j), p.data \in Seq(DataOf(feed)),
           NEW f \in Dmx!Files
    PROVE  AllOf(file'[f], sample'[f]) =
             IF BeginsIn(f, p) \/ GoesOnIn(f, p) THEN AllOf(file[f], sample[f]) \o p.data
             ELSE AllOf(file[f], sample[f])
<1> DEFINE D == DataOf(feed)
           P == Pieces(feed)
           fl == file[f]
           s == sample[f]
           w == WrittenOf(fl)
           a == FlattenSeq(w)
           d == p.data
           r == Piece(f, p)
<1>1. s \in Seq(D) /\ fl \in Seq(P) /\ (\A x \in P : x.data \in Seq(D)) /\ d \in Seq(D)
      /\ w \in Seq(Seq(D)) /\ a \in Seq(D)
  <2>0. \A x \in P : x.data \in Seq(D)
    BY PiecesData
  <2>1. s \in Seq(D) /\ fl \in Seq(P) /\ \A x \in P : x.data \in Seq(D)
    BY <2>0 DEF FilesInv
  <2> HIDE DEF D, P, fl, s
  <2>2. w \in Seq(Seq(D))
    BY <2>1, WrittenType
  <2> HIDE DEF w
  <2>3. a \in Seq(D)
    BY <2>2, FlattenType
  <2> QED BY <2>1, <2>2, <2>3 DEF D, P, fl, s, w
<1>2. r \in P /\ r.data = s
  <2> DEFINE c == f = "klv" /\ p.id = 252
  <2>1. r = [data |-> s, cells |-> c] /\ c \in BOOLEAN
    BY DEF Piece
  <2>2. P = [data : Seq(D), cells : BOOLEAN]
    BY DEF Pieces
  <2> HIDE DEF D, P, fl, s, c, r
  <2> QED BY <1>1, <2>1, <2>2
<1> HIDE DEF D, P, r
<1>3. CASE BeginsIn(f, p)
  <2>1. sample'[f] = d /\ file'[f] = IF s = <<>> THEN fl ELSE Append(fl, r)
    BY <1>3, PacketFills DEF r
  <2>2. CASE s = <<>>
    <3>1. a \o <<>> = a
      BY <1>1, ConcatEmptySeq
    <3> QED BY <1>3, <2>1, <2>2, <3>1 DEF AllOf
  <2>3. CASE s # <<>>
    <3>1. WrittenOf(Append(fl, r)) = Append(w, s)
      <4> DEFINE d2 == r.data
      <4>1. d2 = s
        BY <1>2
      <4>2. WrittenOf(Append(fl, r)) = Append(WrittenOf(fl), d2)
        <5> HIDE DEF fl, s
        <5>1. fl \in Seq(P) /\ (\A x \in P : x.data \in Seq(D)) /\ r \in P
          BY <1>1, <1>2
        <5>2. WrittenOf(Append(fl, r)) = Append(WrittenOf(fl), r.data)
          BY <5>1, WrittenAppend
        <5> QED BY <5>2
      <4> HIDE DEF d2
      <4> QED BY <4>1, <4>2
    <3>2. FlattenSeq(Append(w, s)) = a \o s
      <4> HIDE DEF w, s
      <4> QED BY <1>1, FlattenAppend
    <3>3. (a \o s) \o d = a \o s \o d
      OBVIOUS
    <3> HIDE DEF a, w
    <3>4. AllOf(file'[f], sample'[f]) = (a \o s) \o d
      BY <2>1, <2>3, <3>1, <3>2 DEF AllOf
    <3>5. AllOf(fl, s) = a \o s
      BY DEF AllOf, a, w
    <3> QED BY <1>3, <3>4, <3>5
  <2> QED BY <2>2, <2>3
<1>4. CASE GoesOnIn(f, p)
  <2>1. sample'[f] = s \o d /\ file'[f] = fl
    BY <1>4, PacketFills
  <2>2. (a \o s) \o d = a \o (s \o d)
    <3> HIDE DEF a, s, d
    <3>1. a \in Seq(D) /\ s \in Seq(D) /\ d \in Seq(D)
      BY <1>1
    <3> QED BY SMTT(30), <3>1, ConcatAssociative
  <2> QED BY <1>4, <2>1, <2>2 DEF AllOf
<1>5. CASE ~BeginsIn(f, p) /\ ~GoesOnIn(f, p)
  <2>1. sample'[f] = s /\ file'[f] = fl
    BY <1>5, PacketFills
  <2> QED BY <1>5, <2>1
<1> QED
  BY <1>3, <1>4, <1>5

-----------------------------------------------------------------------------
\* What a sequence has of one stream.
Own(x, q) == IF x.pid = q THEN <<x>> ELSE <<>>

LEMMA OfPidAppend ==
    ASSUME NEW D, NEW s \in Seq(D), NEW x \in D, NEW q
    PROVE  /\ OfPid(Append(s, x), q) = OfPid(s, q) \o Own(x, q)
           /\ OfPid(s, q) \in Seq(D) /\ Own(x, q) \in Seq(D)
<1> DEFINE list(v) == [k \in 1..Len(v) |-> IF v[k].pid = q THEN <<v[k]>> ELSE <<>>]
           u == Append(s, x)
           n == Len(s)
           S == Seq(D)
           o == Own(x, q)
           a == list(u)
           b == list(s)
           c == Append(b, o)
<1>1. \A y \in D : Own(y, q) \in S
  BY DEF Own
<1>2. u \in Seq(D) /\ Len(u) = n + 1 /\ u[n + 1] = x /\ n \in Nat /\ \A k \in 1..n : u[k] = s[k]
  BY AppendProperties, LenProperties
<1>3. \A v \in Seq(D) : list(v) \in Seq(S) /\ Len(list(v)) = Len(v) /\ \A k \in 1..Len(v) : list(v)[k] = Own(v[k], q)
  <2>1. ASSUME NEW v \in Seq(D)
        PROVE  list(v) \in Seq(S) /\ Len(list(v)) = Len(v) /\ \A k \in 1..Len(v) : list(v)[k] = Own(v[k], q)
    <3> DEFINE l == list(v)
    <3>1. /\ DOMAIN l = 1..Len(v) /\ l = [k \in DOMAIN l |-> l[k]]
          /\ \A k \in 1..Len(v) : l[k] = Own(v[k], q)
      BY DEF Own
    <3>2. Len(v) \in Nat /\ \A k \in 1..Len(v) : v[k] \in D
      BY LenProperties, ElementOfSeq
    <3> HIDE DEF l, S
    <3>3. \A k \in 1..Len(v) : l[k] \in S
      BY <1>1, <3>1, <3>2
    <3>4. l \in Seq(S) /\ Len(l) = Len(v)
      BY <3>1, <3>2, <3>3, IsSeq
    <3> QED BY <3>1, <3>4 DEF l
  <2> QED BY <2>1
<1>4. /\ a \in Seq(S) /\ Len(a) = n + 1 /\ b \in Seq(S) /\ Len(b) = n /\ o \in S
      /\ \A k \in 1..(n + 1) : a[k] = Own(u[k], q)
      /\ \A k \in 1..n : b[k] = Own(s[k], q)
  <2> HIDE DEF list, S
  <2> QED BY <1>1, <1>2, <1>3
<1> HIDE DEF a, b, o, u, n, S
<1>5. c \in Seq(S) /\ Len(c) = n + 1 /\ c[n + 1] = o /\ \A k \in 1..n : c[k] = b[k]
  BY <1>4, AppendProperties
<1> HIDE DEF c
<1>6. \A k \in 1..(n + 1) : a[k] = c[k]
  <2>1. \A k \in 1..(n + 1) : k \in 1..n \/ k = n + 1
    BY <1>2
  <2>2. n + 1 \in 1..(n + 1) /\ \A k \in 1..n : k \in 1..(n + 1)
    BY <1>2
  <2>3. a[n + 1] = o
    BY <1>2, <1>4, <2>2 DEF o
  <2>4. \A k \in 1..n : a[k] = c[k]
    BY <1>2, <1>4, <1>5, <2>2
  <2> QED BY <1>5, <2>1, <2>3, <2>4
<1>7. a = c
  BY <1>2, <1>4, <1>5, <1>6, SeqEqual
<1>8. FlattenSeq(c) = FlattenSeq(b) \o o /\ FlattenSeq(b) \in Seq(D)
  BY <1>4, FlattenAppend, FlattenType DEF S, c
<1> QED
  BY <1>4, <1>7, <1>8 DEF OfPid, a, b, o, u, S

LEMMA OfPidNone == ASSUME NEW q PROVE OfPid(<<>>, q) = <<>>
<1> DEFINE none == <<>>
<1>1. [k \in 1..Len(none) |-> IF none[k].pid = q THEN <<none[k]>> ELSE <<>>] = <<>>
  OBVIOUS
<1> QED
  BY <1>1, FlattenNone DEF OfPid

\* What two sequences have together is what each of them has.
JoinedOf(a, b, q) == OfPid(a \o b, q) = OfPid(a, q) \o OfPid(b, q)

LEMMA OfPidConcat ==
    ASSUME NEW D, NEW a \in Seq(D), NEW b \in Seq(D), NEW q
    PROVE  JoinedOf(a, b, q) /\ OfPid(a, q) \in Seq(D)
<1> DEFINE G == {v \in Seq(D) : OfPid(a \o v, q) = OfPid(a, q) \o OfPid(v, q) /\ OfPid(v, q) \in Seq(D)}
           H == {v \in Seq(D) : OfPid(v, q) \in Seq(D)}
<1>0. \A v \in Seq(D), x \in D : Append(v, x) \in Seq(D) /\ OfPid(Append(v, x), q) = OfPid(v, q) \o Own(x, q)
           /\ OfPid(v, q) \in Seq(D) /\ Own(x, q) \in Seq(D)
  <2>1. ASSUME NEW v \in Seq(D), NEW x \in D
        PROVE  /\ OfPid(Append(v, x), q) = OfPid(v, q) \o Own(x, q)
               /\ OfPid(v, q) \in Seq(D) /\ Own(x, q) \in Seq(D)
    BY OfPidAppend
  <2>2. \A v \in Seq(D), x \in D : Append(v, x) \in Seq(D)
    BY AppendProperties
  <2> QED BY ZenonT(30), <2>1, <2>2
<1>1. <<>> \in H
  BY OfPidNone, EmptySeq
<1>2. \A v \in Seq(D), x \in D : v \in H => Append(v, x) \in H
  <2>1. ASSUME NEW v \in Seq(D), NEW x \in D PROVE Append(v, x) \in H
    BY <1>0, ConcatProperties
  <2> QED BY <2>1
<1> HIDE DEF H
<1>3. Seq(D) \subseteq H
  BY <1>1, <1>2, OnSequences
<1>4. \A v \in Seq(D) : OfPid(v, q) \in Seq(D)
  BY <1>3 DEF H
<1>5. <<>> \in G
  <2>1. a \o <<>> = a /\ OfPid(a, q) \o <<>> = OfPid(a, q)
    BY <1>4, ConcatEmptySeq
  <2> QED BY <2>1, OfPidNone, EmptySeq
<1>6. ASSUME NEW v \in Seq(D), NEW x \in D, v \in G PROVE Append(v, x) \in G
  <2> DEFINE w == a \o v
             oa == OfPid(a, q)
             ov == OfPid(v, q)
             o == Own(x, q)
             u == Append(v, x)
  <2>1. w \in Seq(D) /\ oa \in Seq(D) /\ ov \in Seq(D) /\ o \in Seq(D) /\ u \in Seq(D)
    BY <1>0, <1>4, ConcatProperties
  <2>2. a \o u = Append(w, x)
    <3>1. <<x>> \in Seq(D)
      OBVIOUS
    <3>2. u = v \o <<x>> /\ Append(w, x) = w \o <<x>>
      <4> HIDE DEF w
      <4> QED BY <2>1, AppendIsConcat
    <3> HIDE DEF u
    <3> QED BY <3>1, <3>2, ConcatAssociative
  <2>3. OfPid(Append(w, x), q) = OfPid(w, q) \o o /\ OfPid(u, q) = ov \o o
    <3> HIDE DEF w
    <3> QED BY <1>0, <2>1
  <2>4. OfPid(w, q) = oa \o ov
    BY <1>6
  <2>5. (oa \o ov) \o o = oa \o (ov \o o)
    <3> HIDE DEF oa, ov, o
    <3>1. oa \in Seq(D) /\ ov \in Seq(D) /\ o \in Seq(D)
      BY <2>1
    <3> QED BY SMTT(30), <3>1, ConcatAssociative
  <2>6. OfPid(u, q) \in Seq(D)
    BY <1>4, <2>1
  <2> HIDE DEF w, oa, ov, o, u
  <2>7. OfPid(a \o u, q) = oa \o OfPid(u, q)
    BY <2>2, <2>3, <2>4, <2>5
  <2> QED BY <2>1, <2>6, <2>7 DEF oa, u
<1> HIDE DEF G
<1>7. Seq(D) \subseteq G
  BY <1>5, <1>6, OnSequences
<1> QED
  BY <1>4, <1>7 DEF G, JoinedOf

\* All of it, if it is of that stream; nothing, if it is of others.
LEMMA OfPidAll ==
    ASSUME NEW D, NEW q, \A d \in D : d.pid = q, NEW s \in Seq(D)
    PROVE  OfPid(s, q) = s
<1> DEFINE G == {v \in Seq(D) : OfPid(v, q) = v}
<1>1. <<>> \in G
  BY OfPidNone, EmptySeq
<1>2. ASSUME NEW v \in Seq(D), NEW x \in D, v \in G PROVE Append(v, x) \in G
  <2>1. Own(x, q) = <<x>>
    BY DEF Own
  <2>2. OfPid(Append(v, x), q) = v \o <<x>>
    <3>1. OfPid(Append(v, x), q) = OfPid(v, q) \o Own(x, q)
      BY OfPidAppend
    <3> QED BY <1>2, <2>1, <3>1
  <2>3. Append(v, x) = v \o <<x>> /\ Append(v, x) \in Seq(D)
    BY AppendIsConcat, AppendProperties
  <2> QED BY <2>2, <2>3
<1> HIDE DEF G
<1>3. Seq(D) \subseteq G
  BY <1>1, <1>2, OnSequences
<1> QED
  BY <1>3 DEF G

LEMMA OfPidOthers ==
    ASSUME NEW D, NEW q, \A d \in D : d.pid # q, NEW s \in Seq(D)
    PROVE  OfPid(s, q) = <<>>
<1> DEFINE G == {v \in Seq(D) : OfPid(v, q) = <<>>}
<1>1. <<>> \in G
  BY OfPidNone, EmptySeq
<1>2. ASSUME NEW v \in Seq(D), NEW x \in D, v \in G PROVE Append(v, x) \in G
  <2>1. Own(x, q) = <<>>
    BY DEF Own
  <2>2. OfPid(Append(v, x), q) = <<>> \o <<>>
    BY <1>2, <2>1, OfPidAppend
  <2>3. Append(v, x) \in Seq(D)
    BY AppendProperties
  <2> QED BY <2>2, <2>3
<1> HIDE DEF G
<1>3. Seq(D) \subseteq G
  BY <1>1, <1>2, OnSequences
<1> QED
  BY <1>3 DEF G

\* Ends of sequences.
LEMMA EndsWithNone == ASSUME NEW D, NEW s \in Seq(D) PROVE EndsWith(s, <<>>)
<1>1. Len(s) \in Nat
  BY LenProperties
<1>2. Len(s) \in 0..Len(s)
  BY <1>1
<1>3. SubSeq(s, Len(s) + 1, Len(s)) = <<>>
  <2>1. Len(s) + 1 > Len(s)
    BY <1>1
  <2> QED BY <1>1, <2>1, SubSeqEmpty
<1> QED
  BY <1>2, <1>3 DEF EndsWith

-----------------------------------------------------------------------------
\* What the demultiplexer takes for a type, some element gives.
LEMMA TypesSent ==
    ASSUME DmxInv, ~dmxSeen.stray, NEW q \in DOMAIN pid2type
    PROVE  \E e \in ElementsOf(feed) : e.pid = q /\ pid2type[q] = Dmx!TypeOf(e)
<1>1. PICK log, part : /\ Rec(feed, junk, at, dmxPat, dmxPmt, dmxSeen, log, part)
                       /\ ~dmxSeen.stray => Agrees(pid2type, FlattenSeq(log))
  BY DEF DmxInv
<1> DEFINE E == ElementsOf(feed)
           s == FlattenSeq(log)
<1>2. s \in Seq(E)
  <2>1. log \in Seq(Doubled(feed)) /\ feed \in Feeds
    BY <1>1 DEF Rec, DmxInv
  <2>2. log \in Seq(Seq(E))
    BY <2>1, DoubledSeq, SeqMonotonic
  <2> HIDE DEF E
  <2> QED BY <2>2, FlattenType
<1>3. Agrees(pid2type, s)
  BY <1>1
<1> HIDE DEF s, E
<1>4. PICK k : IsFirst(s, q, k)
  BY <1>3 DEF Agrees, Typed
<1>5. k \in 1..Len(s) /\ s[k].pid = q
  BY <1>4 DEF IsFirst
<1>6. s[k] \in E
  BY <1>2, <1>5, ElementOfSeq
<1>7. pid2type[q] = Dmx!TypeOf(s[k])
  BY <1>3, <1>4 DEF Agrees, Gives
<1> QED
  BY <1>5, <1>6, <1>7 DEF E

\* The PIDs whose units belong to each file, and those that a type is known of.
Shared == carries = SharesOf(feed)

LEMMA SharedIn ==
    ASSUME DmxInv, Shared, ~dmxSeen.stray, NEW f \in Dmx!Files, NEW q \in DOMAIN feed,
           f = Dmx!FileOf(Dmx!packetType(pid2type, q))
    PROVE  q \in carries[f] /\ q \in DOMAIN pid2type
<1>1. q \in DOMAIN pid2type
  <2>1. CASE q \notin DOMAIN pid2type
    <3>1. f = Dmx!FileOf("UNKNOWN")
      BY <2>1 DEF Dmx!packetType
    <3> QED BY <3>1 DEF Dmx!FileOf, Dmx!Files
  <2> QED BY <2>1
<1>2. PICK e \in ElementsOf(feed) : e.pid = q /\ pid2type[q] = Dmx!TypeOf(e)
  BY <1>1, TypesSent
<1>3. f = Dmx!FileOf(Dmx!TypeOf(e))
  BY <1>1, <1>2 DEF Dmx!packetType
<1> QED
  BY <1>1, <1>2, <1>3 DEF Shared, SharesOf

\* As long as nothing is stray, what the file of metadata has was sent as it says.
CellsInv ==
    /\ DmxInv
    /\ SampleInv
    /\ FilesInv
    /\ Shared
    /\ UnwrapsCells

LEMMA CellsReceive ==
    ASSUME CellsInv, NEW pid \in DOMAIN feed, Receive(pid)
    PROVE  CellsInv'
<1> DEFINE p == Coming(pid, at[pid] + 1)
           m == at[pid] + 1
<1>1. DmxInv' /\ (dmxSeen.stray => dmxSeen'.stray)
  BY DmxReceive DEF CellsInv
<1>2. Dmx!onPacket(p, junk) /\ feed' = feed /\ carries' = carries /\ at[pid] < Len(feed[pid])
  BY DEF Receive, More
<1>3. m \in DOMAIN feed[pid] /\ p.pid = pid /\ p.start = feed[pid][m].start
      /\ p.id = feed[pid][m].id /\ p.data = feed[pid][m].data
  <2>1. at[pid] \in 0..Len(feed[pid]) /\ Len(feed[pid]) \in Nat /\ DOMAIN feed[pid] = 1..Len(feed[pid])
    BY Packets DEF CellsInv, DmxInv, Stream
  <2>2. m \in DOMAIN feed[pid]
    BY <1>2, <2>1
  <2> QED BY <2>2 DEF Coming
<1>4. p.data \in Seq(DataOf(feed))
  BY <1>3, PacketData DEF CellsInv, DmxInv
<1> HIDE DEF p
<1>5. SampleInv' /\ FilesInv'
  BY <1>2, <1>4, OnePacket, FilesKept DEF CellsInv
<1>6. Shared'
  BY <1>2 DEF CellsInv, Shared
<1>7. ASSUME ~dmxSeen'.stray, NEW id, IdsOf("klv") = {id}, NEW k \in 1..Len(file'["klv"])
      PROVE  file'["klv"][k].cells <=> id = 252
  <2> DEFINE f == "klv"
             old == file[f]
             new == file'[f]
             x == Piece(f, p)
             P == Pieces(feed)
  <2>0. f \in Dmx!Files
    BY DEF Dmx!Files
  <2>1. \A i \in 1..Len(old) : old[i].cells <=> id = 252
    BY <1>1, <1>7 DEF CellsInv, UnwrapsCells
  <2>2. new = old \/ (BeginsIn(f, p) /\ new = Append(old, x))
    <3> HIDE DEF f, x
    <3> QED BY <1>2, <2>0, PacketFills DEF CellsInv, x
  <2>3. CASE new = old
    BY <1>7, <2>1, <2>3
  <2>4. CASE BeginsIn(f, p) /\ new = Append(old, x)
    <3>1. p.start /\ f = Dmx!FileOf(Dmx!packetType(pid2type, pid))
      BY <1>3, <2>4 DEF BeginsIn
    <3>2. pid \in carries[f]
      BY <1>1, <1>7, <2>0, <3>1, SharedIn DEF CellsInv
    <3>3. p.id \in IdsOf("klv")
      <4> DEFINE ids(q) == {feed[q][i].id : i \in Starts(feed[q])}
      <4>1. m \in Starts(feed[pid])
        BY <1>3, <3>1 DEF Starts
      <4> HIDE DEF m
      <4>2. p.id \in ids(pid)
        BY <1>3, <4>1
      <4>3. IdsOf("klv") = UNION {ids(q) : q \in carries["klv"]}
        BY DEF IdsOf
      <4> HIDE DEF ids
      <4> QED BY <3>2, <4>2, <4>3
    <3>4. p.id = id
      BY <1>7, <3>3
    <3>5. x.cells <=> id = 252
      BY <3>4 DEF Piece
    <3>6. old \in Seq(P) /\ x \in P
      <4>1. old \in Seq(P) /\ sample[f] \in Seq(DataOf(feed))
        BY <2>0 DEF CellsInv, FilesInv
      <4> QED BY <4>1 DEF Piece, Pieces
    <3> HIDE DEF old, x, P, new
    <3>7. Len(new) = Len(old) + 1 /\ new[Len(old) + 1] = x /\ Len(old) \in Nat
          /\ \A i \in 1..Len(old) : new[i] = old[i]
      BY <2>4, <3>6, AppendProperties, LenProperties
    <3>8. k \in 1..Len(new)
      BY <1>7 DEF new
    <3>9. k \in 1..Len(old) \/ k = Len(old) + 1
      BY <3>7, <3>8
    <3>10. new[k].cells <=> id = 252
      BY <2>1, <3>5, <3>7, <3>9
    <3> QED BY <3>10 DEF new
  <2> QED BY <2>2, <2>3, <2>4
<1>8. IdsOf("klv")' = IdsOf("klv")
  BY <1>2 DEF IdsOf
<1>9. UnwrapsCells'
  BY <1>7, <1>8 DEF UnwrapsCells
<1> QED
  BY <1>1, <1>5, <1>6, <1>9 DEF CellsInv

LEMMA CellsInit == ASSUME Init PROVE CellsInv
<1>1. DmxInv /\ SampleInv
  BY DmxInit, InitSamples
<1>2. \A f \in Dmx!Files : sample[f] = <<>> /\ file[f] = <<>>
  BY DEF Init, Dmx!Init
<1>3. FilesInv
  BY <1>2, EmptySeq DEF FilesInv
<1>4. Shared
  BY DEF Init, Shared
<1>5. Len(file["klv"]) = 0
  BY <1>2 DEF Dmx!Files
<1>6. UnwrapsCells
  BY <1>5 DEF UnwrapsCells
<1> QED
  BY <1>1, <1>3, <1>4, <1>6 DEF CellsInv

LEMMA CellsNext == ASSUME CellsInv, [Next]_vars PROVE CellsInv'
<1>1. CASE UNCHANGED vars
  <2>1. DmxInv'
    BY DmxNext DEF CellsInv
  <2>2. /\ feed' = feed /\ carries' = carries /\ dmxSeen' = dmxSeen
        /\ begun' = begun /\ sample' = sample /\ file' = file
    BY <1>1 DEF vars, dmxVars
  <2>3. SampleInv' /\ FilesInv' /\ Shared'
    BY <2>2 DEF CellsInv, SampleInv, FilesInv, Shared
  <2>4. IdsOf("klv")' = IdsOf("klv")
    BY <2>2 DEF IdsOf
  <2>5. UnwrapsCells'
    BY <2>2, <2>4 DEF CellsInv, UnwrapsCells
  <2> QED BY <2>1, <2>3, <2>5 DEF CellsInv
<1> QED
  BY <1>1, CellsReceive DEF Next

\* Metadata that is sent in one way is written as it was sent, in cells or without them,
\* although MP2TFileDemux::onPacket asks the packet that ends a unit whether it is in
\* cells: whatever goes to that file is of a stream of that type.
THEOREM CellsUnwrapped == Spec => []UnwrapsCells
<1>1. Init => CellsInv
  BY CellsInit
<1>2. CellsInv /\ [Next]_vars => CellsInv'
  BY CellsNext
<1>3. CellsInv => UnwrapsCells
  BY DEF CellsInv
<1> QED
  BY <1>1, <1>2, <1>3, PTL DEF Spec

-----------------------------------------------------------------------------
\* Ends of sequences that grow.
LEMMA Ending ==
    ASSUME NEW D, NEW r \in Seq(D), NEW t \in Seq(D)
    PROVE  EndsWith(r \o t, t)
<1> DEFINE s == r \o t
           n == Len(r)
           m == Len(t)
<1>1. /\ n \in Nat /\ m \in Nat /\ Len(s) = n + m
      /\ \A i \in 1..(n + m) : s[i] = IF i <= n THEN r[i] ELSE t[i - n]
      /\ \A i \in 1..m : t[i] \in D
  BY ConcatProperties, LenProperties, ElementOfSeq
<1> HIDE DEF s, n, m
<1>2. \A i \in 1..m : n + i \in 1..(n + m) /\ ~(n + i <= n) /\ (n + i) - n = i
  BY <1>1
<1>3. \A i \in 1..m : s[n + i] = t[i]
  BY <1>1, <1>2
<1> DEFINE u == SubSeq(s, n + 1, n + m)
<1>4. \A i \in (n + 1)..(n + m) : s[i] \in D
  <2>1. ASSUME NEW i \in (n + 1)..(n + m) PROVE s[i] \in D
    <3>1. i - n \in 1..m /\ n + (i - n) = i
      BY <1>1
    <3>2. s[n + (i - n)] = t[i - n]
      BY <1>3, <3>1
    <3> QED BY <1>1, <3>1, <3>2
  <2> QED BY <2>1
<1>5. /\ u \in Seq(D) /\ Len(u) = IF n + 1 <= n + m THEN (n + m) - (n + 1) + 1 ELSE 0
      /\ \A i \in 1..((n + m) - (n + 1) + 1) : u[i] = s[(n + 1) + i - 1]
  <2>1. n + 1 \in Int /\ n + m \in Int
    BY <1>1
  <2> QED BY <1>4, <2>1, SubSeqProperties
<1> HIDE DEF u
<1>6. Len(u) = m /\ (n + m) - (n + 1) + 1 = m
  BY <1>1, <1>5
<1>7. \A i \in 1..m : u[i] = t[i]
  <2>1. ASSUME NEW i \in 1..m PROVE u[i] = t[i]
    <3>1. u[i] = s[(n + 1) + i - 1] /\ (n + 1) + i - 1 = n + i
      BY <1>1, <1>5, <1>6
    <3> QED BY <1>3, <3>1
  <2> QED BY <2>1
<1>8. u = t
  BY <1>5, <1>6, <1>7, SeqEqual DEF m
<1>9. n \in 0..Len(s) /\ Len(s) = n + m
  BY <1>1
<1>10. EndsWith(s, t)
  BY <1>8, <1>9 DEF EndsWith, u
<1> QED
  BY <1>10 DEF s

LEMMA EndsWithMore ==
    ASSUME NEW D, NEW s \in Seq(D), NEW t \in Seq(D), NEW d \in Seq(D), EndsWith(s, t)
    PROVE  EndsWith(s \o d, t \o d)
<1> DEFINE n == Len(s)
<1>1. PICK k \in 0..n : t = SubSeq(s, k + 1, n)
  BY DEF EndsWith
<1> DEFINE r == SubSeq(s, 1, k)
           td == t \o d
<1>2. n \in Nat /\ 1 \in 1..(n + 1) /\ k \in (1 - 1)..n /\ n \in k..n
  BY <1>1, LenProperties
<1>3. r \o t = SubSeq(s, 1, n)
  BY <1>1, <1>2, ConcatAdjacentSubSeq
<1>4. SubSeq(s, 1, n) = s
  BY SubSeqFull
<1>5. r \in Seq(D)
  <2>1. \A i \in 1..k : s[i] \in D
    <3>1. \A i \in 1..k : i \in 1..n
      BY <1>2
    <3> QED BY <3>1, ElementOfSeq
  <2>2. 1 \in Int /\ k \in Int
    BY <1>2
  <2> HIDE DEF n
  <2> QED BY <2>1, <2>2, SubSeqProperties
<1>6. td \in Seq(D)
  BY ConcatProperties
<1> HIDE DEF r, n
<1>7. s \o d = r \o td
  <2>1. r \o t = s
    BY <1>3, <1>4
  <2>2. (r \o t) \o d = r \o (t \o d)
    BY <1>5, ConcatAssociative
  <2> QED BY <2>1, <2>2
<1> HIDE DEF td
<1>8. EndsWith(r \o td, td)
  BY <1>5, <1>6, Ending
<1> QED
  BY <1>7, <1>8 DEF td

LEMMA EndsWithNothing ==
    ASSUME NEW t, EndsWith(<<>>, t)
    PROVE  t = <<>>
<1> DEFINE none == <<>>
<1>1. PICK n \in 0..Len(none) : t = SubSeq(none, n + 1, Len(none))
  BY DEF EndsWith
<1>2. Len(none) = 0 /\ n = 0
  BY <1>1
<1> HIDE DEF none
<1>3. SubSeq(none, n + 1, Len(none)) = <<>>
  BY <1>2, SubSeqEmpty
<1> QED
  BY <1>1, <1>3

\* What the packets of a PID have so far.
Sent(sent, q, n) == Data(SubSeq(sent[q], 1, n))

LEMMA SentGrows ==
    ASSUME NEW sent \in Feeds, NEW q \in DOMAIN sent, NEW n \in Nat, n < Len(sent[q])
    PROVE  /\ Sent(sent, q, n) \in Seq(DataOf(sent))
           /\ Sent(sent, q, n + 1) = Sent(sent, q, n) \o sent[q][n + 1].data
<1> DEFINE D == DataOf(sent)
           S == Seq(D)
           ps == sent[q]
           R == Range(ps)
           list(m) == [k \in DOMAIN SubSeq(ps, 1, m) |-> SubSeq(ps, 1, m)[k].data]
           a == list(n)
           b == list(n + 1)
           x == ps[n + 1].data
           c == Append(a, x)
<1>1. Len(ps) \in Nat /\ DOMAIN ps = 1..Len(ps) /\ ps \in Seq(R)
  BY Packets
<1>2. \A k \in 1..Len(ps) : ps[k].data \in S
  BY <1>1, PacketData
<1>3. ASSUME NEW m \in 0..Len(ps)
      PROVE  /\ list(m) \in Seq(S) /\ Len(list(m)) = m
             /\ \A k \in 1..m : list(m)[k] = ps[k].data
  <2> DEFINE u == SubSeq(ps, 1, m)
             l == list(m)
  <2>0. m \in Nat /\ \A k \in 1..m : k \in 1..Len(ps)
    BY <1>1
  <2>1. u \in Seq(R) /\ Len(u) = m /\ \A k \in 1..m : u[k] = ps[k]
    <3>1. \A k \in 1..m : ps[k] \in R
      <4> HIDE DEF R
      <4> QED BY <1>1, <2>0, ElementOfSeq
    <3>2. 1 \in Int /\ m \in Int /\ (IF 1 <= m THEN m - 1 + 1 ELSE 0) = m /\ m - 1 + 1 = m
      BY <2>0
    <3> HIDE DEF R, ps
    <3>3. /\ u \in Seq(R)
          /\ Len(u) = IF 1 <= m THEN m - 1 + 1 ELSE 0
          /\ \A i \in 1..(m - 1 + 1) : u[i] = ps[1 + i - 1]
      BY <3>1, <3>2, SubSeqProperties
    <3>4. \A i \in 1..m : 1 + i - 1 = i
      OBVIOUS
    <3> HIDE DEF u
    <3> QED BY <3>2, <3>3, <3>4
  <2>2. DOMAIN u = 1..m
    <3> HIDE DEF u, R
    <3> QED BY <2>1, LenProperties
  <2>3. DOMAIN l = 1..m /\ l = [k \in DOMAIN l |-> l[k]] /\ \A k \in 1..m : l[k] = u[k].data
    <3> HIDE DEF u
    <3> QED BY <2>2 DEF u
  <2> HIDE DEF u, l, S, ps
  <2>4. \A k \in 1..m : l[k] = ps[k].data /\ l[k] \in S
    BY <1>2, <2>0, <2>1, <2>3
  <2>5. l \in Seq(S) /\ Len(l) = m
    BY <2>0, <2>3, <2>4, IsSeq
  <2> QED BY <2>4, <2>5 DEF l, ps
<1>4. /\ a \in Seq(S) /\ Len(a) = n /\ b \in Seq(S) /\ Len(b) = n + 1 /\ x \in S
      /\ \A k \in 1..n : a[k] = ps[k].data
      /\ \A k \in 1..(n + 1) : b[k] = ps[k].data
  <2>1. n \in 0..Len(ps) /\ n + 1 \in 0..Len(ps) /\ n + 1 \in 1..Len(ps)
    BY <1>1
  <2> HIDE DEF list, S, ps
  <2> QED BY <1>2, <1>3, <2>1
<1>5. Sent(sent, q, n) = FlattenSeq(a) /\ Sent(sent, q, n + 1) = FlattenSeq(b)
  BY DEF Sent, Data
<1> HIDE DEF a, b, S, x
<1>6. c \in Seq(S) /\ Len(c) = n + 1 /\ c[n + 1] = x /\ \A k \in 1..n : c[k] = a[k]
  BY <1>4, AppendProperties
<1> HIDE DEF c
<1>7. \A k \in 1..(n + 1) : b[k] = c[k]
  <2>1. \A k \in 1..(n + 1) : k \in 1..n \/ k = n + 1
    OBVIOUS
  <2>2. n + 1 \in 1..(n + 1) /\ \A k \in 1..n : k \in 1..(n + 1)
    OBVIOUS
  <2>3. b[n + 1] = x
    BY <1>4, <2>2 DEF x
  <2>4. \A k \in 1..n : b[k] = c[k]
    BY <1>4, <1>6, <2>2
  <2> QED BY <1>6, <2>1, <2>3, <2>4
<1>8. b = c
  BY <1>4, <1>6, <1>7, SeqEqual
<1>9. FlattenSeq(c) = FlattenSeq(a) \o x /\ FlattenSeq(a) \in Seq(D)
  <2> HIDE DEF D
  <2> QED BY <1>4, FlattenAppend, FlattenType DEF S, c
<1> QED
  BY <1>5, <1>8, <1>9 DEF x

LEMMA SentType ==
    ASSUME NEW sent \in Feeds, NEW q \in DOMAIN sent, NEW n \in 0..Len(sent[q])
    PROVE  Sent(sent, q, n) \in Seq(DataOf(sent))
<1> DEFINE D == DataOf(sent)
           ps == sent[q]
<1>0. Len(ps) \in Nat /\ DOMAIN ps = 1..Len(ps)
  BY Packets
<1>1. CASE n < Len(ps)
  BY <1>0, <1>1, SentGrows
<1>2. CASE n = Len(ps) /\ n > 0
  <2> DEFINE m == n - 1
             d == ps[m + 1].data
             s == Sent(sent, q, m)
  <2>1. m \in Nat /\ m < Len(ps) /\ m + 1 = n /\ m + 1 \in DOMAIN ps
    BY <1>0, <1>2
  <2> HIDE DEF m
  <2>2. s \in Seq(D) /\ Sent(sent, q, m + 1) = s \o d /\ d \in Seq(D)
    BY <2>1, SentGrows, PacketData
  <2> HIDE DEF d, s, D
  <2>3. s \o d \in Seq(D)
    BY <2>2, ConcatProperties
  <2> QED BY <2>1, <2>2, <2>3 DEF D
<1>3. CASE n = 0
  <2>1. SubSeq(ps, 1, n) = <<>>
    BY <1>3, SubSeqEmpty
  <2>2. Data(<<>>) = <<>>
    <3> DEFINE none == <<>>
    <3>1. [k \in DOMAIN none |-> none[k].data] = <<>>
      OBVIOUS
    <3> QED BY <3>1, FlattenNone DEF Data
  <2> QED BY <2>1, <2>2, EmptySeq DEF Sent
<1>4. n < Len(ps) \/ (n = Len(ps) /\ n > 0) \/ n = 0
  <2>1. n \in 0..Len(ps)
    OBVIOUS
  <2> DEFINE l == Len(ps)
  <2>2. l \in Nat /\ n \in 0..l
    BY <1>0, <2>1
  <2> HIDE DEF l
  <2>3. n < l \/ (n = l /\ n > 0) \/ n = 0
    BY <2>2
  <2> QED BY <2>3 DEF l
<1> QED
  BY <1>1, <1>2, <1>3, <1>4

-----------------------------------------------------------------------------
\* Where a type is known, the packets are as StreamsAssumption says.
LEMMA TypedStream ==
    ASSUME DmxInv, ~dmxSeen.stray, NEW q \in DOMAIN pid2type, q \in DOMAIN feed
    PROVE  /\ q # 0
           /\ q \notin DOMAIN dmxPat.programs
           /\ \A k \in DOMAIN feed[q] : /\ feed[q][k].start => feed[q][k].pes
                                        /\ \A d \in Range(feed[q][k].data) : d.pid = q
<1>1. PICK e \in ElementsOf(feed) : e.pid = q
  BY TypesSent
<1>2. feed \in Feeds /\ junk \in Junk
  BY DEF DmxInv
<1>3. /\ q # 0 /\ q \notin TablePids(feed, junk)
      /\ \A k \in DOMAIN feed[q] : /\ feed[q][k].start => feed[q][k].pes
                                   /\ \A d \in Range(feed[q][k].data) : d.pid = q
  BY <1>1, <1>2, StreamsAssumption
<1>4. q \notin DOMAIN dmxPat.programs
  <2>1. FromTables(feed, junk, dmxPat)
    BY DEF DmxInv, Rec
  <2> QED BY <1>3, <2>1 DEF FromTables, TablePids
<1> QED
  BY <1>3, <1>4

\* The data of a PID whose type is known.
TypedData == {d \in DataOf(feed) : d.pid \in DOMAIN pid2type}

OnlyTyped == \A f \in Dmx!Files : AllOf(file[f], sample[f]) \in Seq(TypedData)

\* What "since" has of a PID, it has of one whose type is known.
SinceInv ==
    /\ since = [q \in DOMAIN feed |-> since[q]]
    /\ \A q \in DOMAIN feed : /\ since[q] \in Seq(DataOf(feed))
                              /\ since[q] # <<>> => q \in DOMAIN pid2type

\* What KeepsOrder says of one stream.
Got(f, q) == OfPid(AllOf(file[f], sample[f]), q)

Ordered(f, q) ==
    /\ EndsWith(Sent(feed, q, at[q]), Got(f, q))
    /\ EndsWith(Got(f, q), since[q])

Belongs(f, q) == Dmx!FileOf(Dmx!packetType(pid2type, q)) = f

LEMMA OrderMeans ==
    KeepsOrder <=> (~dmxSeen.stray =>
                      \A f \in Dmx!Files : \A q \in carries[f] : Belongs(f, q) => Ordered(f, q))
<1>1. \A f : Written(f) = WrittenOf(file[f])
  BY DEF Written, WrittenOf
<1> QED
  BY <1>1 DEF KeepsOrder, Ordered, Got, AllOf, Sent, Belongs

\* As long as nothing is stray, files hold data of known streams only, each in its order.
OrderInv ==
    /\ DmxInv
    /\ TypeInv
    /\ FilesInv
    /\ Shared
    /\ SinceInv
    /\ ~dmxSeen.stray => OnlyTyped
    /\ KeepsOrder

LEMMA SinceNext ==
    ASSUME SinceInv, feed \in Feeds, NEW pid \in DOMAIN feed, Receive(pid),
           Stream(feed, at)
    PROVE  SinceInv'
<1> DEFINE d == Coming(pid, at[pid] + 1).data
           p == Coming(pid, at[pid] + 1)
           D == DataOf(feed)
<1>1. d \in Seq(D)
  <2>1. at[pid] + 1 \in DOMAIN feed[pid]
    BY NextPacket, Packets DEF Receive, More
  <2>2. d = feed[pid][at[pid] + 1].data
    BY DEF Coming
  <2> QED BY <2>1, <2>2, PacketData
<1>2. /\ since' = IF since[pid] # <<>> \/ (p.start /\ p.pes /\ pid \in DOMAIN pid2type)
                  THEN [since EXCEPT ![pid] = @ \o d] ELSE since
      /\ feed' = feed
  BY DEF Receive
<1>3. \A q \in DOMAIN pid2type : q \in DOMAIN pid2type'
  BY StepTypes DEF Next, KeepsType
<1> HIDE DEF p, d, D
<1>4. CASE since' = since
  BY <1>2, <1>3, <1>4 DEF SinceInv
<1>5. CASE /\ since' = [since EXCEPT ![pid] = @ \o d]
           /\ since[pid] # <<>> \/ pid \in DOMAIN pid2type
  <2>1. since[pid] \o d \in Seq(D)
    BY <1>1, ConcatProperties DEF SinceInv, D
  <2>2. since'[pid] = since[pid] \o d /\ \A q \in DOMAIN feed : q # pid => since'[q] = since[q]
    BY <1>5 DEF SinceInv
  <2>3. since' = [q \in DOMAIN feed |-> since'[q]]
    BY <1>5 DEF SinceInv
  <2>4. pid \in DOMAIN pid2type
    BY <1>5 DEF SinceInv
  <2> QED BY <1>2, <1>3, <2>1, <2>2, <2>3, <2>4 DEF SinceInv, D
<1> QED
  BY <1>2, <1>4, <1>5

-----------------------------------------------------------------------------
\* A PID whose type is known is that of a stream of its own.
OwnStreams ==
    \A q \in DOMAIN pid2type : q \in DOMAIN feed =>
        /\ q # 0
        /\ q \notin DOMAIN dmxPat.programs
        /\ \A k \in DOMAIN feed[q] : /\ feed[q][k].start => feed[q][k].pes
                                     /\ \A d \in Range(feed[q][k].data) : d.pid = q

LEMMA AreOwn == DmxInv /\ ~dmxSeen.stray => OwnStreams
BY TypedStream DEF OwnStreams

LEMMA HasType ==
    ASSUME NEW types, NEW q, Dmx!FileOf(Dmx!packetType(types, q)) \in Dmx!Files
    PROVE  q \in DOMAIN types
<1>1. CASE q \notin DOMAIN types
  <2>1. Dmx!packetType(types, q) = "UNKNOWN"
    BY <1>1 DEF Dmx!packetType
  <2> QED BY <2>1 DEF Dmx!FileOf, Dmx!Files
<1> QED
  BY <1>1

\* A packet of which the data goes to the sample of a file.
ToFile(f, p) == BeginsIn(f, p) \/ GoesOnIn(f, p)

\* What the next packet of a PID is, and what it does that is not a matter of files.
Comes(pid, p) ==
    /\ p = Coming(pid, at[pid] + 1)
    /\ p.pid = pid
    /\ p.data \in Seq(DataOf(feed))
    /\ Dmx!onPacket(p, junk)
    /\ feed' = feed
    /\ at'[pid] = at[pid] + 1 /\ \A q \in DOMAIN feed : q # pid => at'[q] = at[q]
    /\ Sent(feed, pid, at[pid]) \in Seq(DataOf(feed))
    /\ Sent(feed, pid, at'[pid]) = Sent(feed, pid, at[pid]) \o p.data
    /\ since' = IF since[pid] # <<>> \/ (p.start /\ p.pes /\ pid \in DOMAIN pid2type)
                THEN [since EXCEPT ![pid] = @ \o p.data] ELSE since

LEMMA PacketComes ==
    ASSUME feed \in Feeds, Stream(feed, at), NEW pid \in DOMAIN feed, Receive(pid)
    PROVE  Comes(pid, Coming(pid, at[pid] + 1))
<1> DEFINE p == Coming(pid, at[pid] + 1)
           n == at[pid]
<1>1. at[pid] < Len(feed[pid]) /\ at' = Next1(at, pid) /\ feed' = feed
      /\ Dmx!onPacket(p, junk)
      /\ since' = IF since[pid] # <<>> \/ (p.start /\ p.pes /\ pid \in DOMAIN pid2type)
                  THEN [since EXCEPT ![pid] = @ \o p.data] ELSE since
  BY DEF Receive, More, Next1
<1>2. n \in Nat /\ n + 1 \in DOMAIN feed[pid] /\ at'[pid] = n + 1
      /\ \A q \in DOMAIN feed : q # pid => at'[q] = at[q]
  BY <1>1, NextPacket, Packets
<1>3. p.pid = pid /\ p.data = feed[pid][n + 1].data
  BY DEF Coming
<1>4. p.data \in Seq(DataOf(feed))
  BY <1>2, <1>3, PacketData
<1>5. /\ Sent(feed, pid, n) \in Seq(DataOf(feed))
      /\ Sent(feed, pid, n + 1) = Sent(feed, pid, n) \o feed[pid][n + 1].data
  BY <1>1, <1>2, SentGrows
<1> HIDE DEF p
<1>6. Comes(pid, p)
  BY <1>1, <1>2, <1>3, <1>4, <1>5 DEF Comes, p
<1> QED
  BY <1>6 DEF p

\* A packet that goes to a file has data of its own PID, of which the type is known.
LEMMA GoesToFile ==
    ASSUME OwnStreams', [Next]_vars, feed \in Feeds, Stream(feed, at), NEW pid \in DOMAIN feed,
           at[pid] < Len(feed[pid]), NEW p, Comes(pid, p),
           NEW f \in Dmx!Files, ToFile(f, p)
    PROVE  /\ pid \in DOMAIN pid2type'
           /\ p.data \in Seq({d \in DataOf(feed) : d.pid = pid})
<1> DEFINE n == at[pid] + 1
           d == p.data
           D == DataOf(feed)
           O == {x \in D : x.pid = pid}
<1>1. pid \in DOMAIN pid2type'
  <2>1. CASE BeginsIn(f, p)
    <3>1. pid \in DOMAIN pid2type
      BY <2>1, HasType DEF BeginsIn, Comes
    <3> QED BY <3>1, StepTypes DEF KeepsType
  <2>2. CASE GoesOnIn(f, p)
    BY <2>2, HasType DEF GoesOnIn, Comes
  <2> QED BY <2>1, <2>2 DEF ToFile
<1>2. n \in DOMAIN feed[pid] /\ d = feed[pid][n].data /\ d \in Seq(D)
  <2>1. n \in DOMAIN feed[pid]
    BY NextPacket, Packets
  <2> QED BY <2>1 DEF Comes, Coming
<1>3. \A x \in Range(d) : x.pid = pid
  BY <1>1, <1>2 DEF OwnStreams, Comes
<1> HIDE DEF n, d
<1>4. d \in Seq(Range(d)) /\ Range(d) \subseteq D
  <2>1. d \in Seq(Range(d))
    BY <1>2, FeedsAssumption
  <2>2. Range(d) \subseteq D
    BY <1>2 DEF DataOf
  <2> QED BY <2>1, <2>2
<1>5. Range(d) \subseteq O
  BY <1>3, <1>4
<1> HIDE DEF O
<1>6. d \in Seq(O)
  BY <1>4, <1>5, SeqMonotonic
<1> QED
  BY <1>1, <1>6 DEF O, d

\* Before and after a packet of "pid", of which nothing is stray.
Quiet(pid, p) ==
    /\ OrderInv
    /\ ~dmxSeen.stray
    /\ OwnStreams'
    /\ [Next]_vars
    /\ pid \in DOMAIN feed
    /\ at[pid] < Len(feed[pid])
    /\ Comes(pid, p)

LEMMA QuietFile ==
    ASSUME NEW pid, NEW p, Quiet(pid, p), NEW f \in Dmx!Files
    PROVE  /\ AllOf(file[f], sample[f]) \in Seq(DataOf(feed))
           /\ AllOf(file'[f], sample'[f]) =
                IF ToFile(f, p) THEN AllOf(file[f], sample[f]) \o p.data
                ELSE AllOf(file[f], sample[f])
           /\ ToFile(f, p) => /\ pid \in DOMAIN pid2type'
                              /\ p.data \in Seq({d \in DataOf(feed) : d.pid = pid})
<1>1. FilesInv /\ SampleInv /\ feed \in Feeds /\ Stream(feed, at)
  BY DEF Quiet, OrderInv, TypeInv, DmxInv
<1>2. Dmx!onPacket(p, junk) /\ p.data \in Seq(DataOf(feed))
  BY DEF Quiet, Comes
<1>3. AllOf(file[f], sample[f]) \in Seq(DataOf(feed))
  BY <1>1, AllType
<1>4. AllOf(file'[f], sample'[f]) =
        IF BeginsIn(f, p) \/ GoesOnIn(f, p) THEN AllOf(file[f], sample[f]) \o p.data
        ELSE AllOf(file[f], sample[f])
  BY <1>1, <1>2, AllGrows
<1>5. ToFile(f, p) => /\ pid \in DOMAIN pid2type'
                      /\ p.data \in Seq({d \in DataOf(feed) : d.pid = pid})
  BY <1>1, GoesToFile DEF Quiet
<1> QED
  BY <1>3, <1>4, <1>5 DEF ToFile

LEMMA TypedNext ==
    ASSUME NEW pid, NEW p, Quiet(pid, p)
    PROVE  OnlyTyped'
<1> DEFINE T == TypedData
           D == DataOf(feed)
           T2 == {x \in D : x.pid \in DOMAIN pid2type'}
           O == {x \in D : x.pid = pid}
           d == p.data
<1>1. T \subseteq T2
  BY StepTypes DEF Quiet, TypedData, KeepsType
<1>2. ASSUME NEW f \in Dmx!Files PROVE AllOf(file'[f], sample'[f]) \in Seq(T2)
  <2> DEFINE a == AllOf(file[f], sample[f])
             b == AllOf(file'[f], sample'[f])
  <2>1. a \in Seq(T)
    BY DEF Quiet, OrderInv, OnlyTyped
  <2>2. (b = IF ToFile(f, p) THEN a \o d ELSE a)
        /\ (ToFile(f, p) => pid \in DOMAIN pid2type' /\ d \in Seq(O))
    BY QuietFile
  <2> HIDE DEF a, b, T, d
  <2>3. CASE ToFile(f, p)
    <3>1. O \subseteq T2
      BY <2>2, <2>3
    <3> HIDE DEF O, T2
    <3>2. a \in Seq(T2) /\ d \in Seq(T2)
      BY <1>1, <2>1, <2>2, <2>3, <3>1, SeqMonotonic
    <3>3. a \o d \in Seq(T2)
      BY <3>2, ConcatProperties
    <3> QED BY <2>2, <2>3, <3>3 DEF b, T2
  <2>4. CASE ~ToFile(f, p)
    <3> HIDE DEF T2
    <3>1. a \in Seq(T2)
      BY <1>1, <2>1, SeqMonotonic
    <3> QED BY <2>2, <2>4, <3>1 DEF b, T2
  <2> QED BY <2>3, <2>4
<1>3. TypedData' = T2
  BY DEF Quiet, Comes, TypedData
<1> HIDE DEF T2
<1> QED
  BY <1>2, <1>3 DEF OnlyTyped

LEMMA BelongsKept ==
    ASSUME [Next]_vars, NEW q \in DOMAIN pid2type, NEW f
    PROVE  Belongs(f, q)' <=> Belongs(f, q)
<1>1. q \in DOMAIN pid2type' /\ pid2type'[q] = pid2type[q]
  BY StepTypes DEF KeepsType
<1> QED
  BY <1>1 DEF Belongs, Dmx!packetType

\* Of the other streams, a file and its sample have what they had.
LEMMA OthersOrdered ==
    ASSUME NEW pid, NEW p, Quiet(pid, p), NEW f \in Dmx!Files, NEW q \in carries[f], q # pid,
           q \in DOMAIN feed, Belongs(f, q)'
    PROVE  Ordered(f, q)'
<1> DEFINE D == DataOf(feed)
           O == {x \in D : x.pid = pid}
           d == p.data
           a == AllOf(file[f], sample[f])
           b == AllOf(file'[f], sample'[f])
<1>1. a \in Seq(D) /\ (b = IF ToFile(f, p) THEN a \o d ELSE a) /\ (ToFile(f, p) => d \in Seq(O))
  BY QuietFile
<1>2. OfPid(b, q) = OfPid(a, q)
  <2>1. CASE ToFile(f, p)
    <3>1. \A x \in O : x.pid # q
      OBVIOUS
    <3>2. O \subseteq D
      OBVIOUS
    <3> HIDE DEF O, D, a, b, d
    <3>3. OfPid(d, q) = <<>>
      BY <1>1, <2>1, <3>1, OfPidOthers
    <3>4. d \in Seq(D)
      BY <1>1, <2>1, <3>2, SeqMonotonic
    <3>5. JoinedOf(a, d, q) /\ OfPid(a, q) \in Seq(D)
      BY <1>1, <3>4, OfPidConcat
    <3>6. OfPid(a, q) \o <<>> = OfPid(a, q)
      BY <3>5, ConcatEmptySeq
    <3> QED BY <1>1, <2>1, <3>3, <3>5, <3>6 DEF JoinedOf
  <2>2. CASE ~ToFile(f, p)
    BY <1>1, <2>2
  <2> QED BY <2>1, <2>2
<1>3. at'[q] = at[q] /\ since'[q] = since[q] /\ feed' = feed
  BY DEF Quiet, Comes, OrderInv, SinceInv
<1>4. Got(f, q)' = Got(f, q)
  BY <1>2 DEF Got
<1>5. Ordered(f, q)
  <2>1. CASE q \in DOMAIN pid2type
    <3>1. Belongs(f, q)
      BY <2>1, BelongsKept DEF Quiet
    <3> QED BY <3>1, OrderMeans DEF Quiet, OrderInv
  <2>2. CASE q \notin DOMAIN pid2type
    <3>1. a \in Seq(TypedData)
      BY DEF Quiet, OrderInv, OnlyTyped
    <3>2. \A x \in TypedData : x.pid # q
      BY <2>2 DEF TypedData
    <3> HIDE DEF a
    <3>3. OfPid(a, q) = <<>>
      BY <3>1, <3>2, OfPidOthers
    <3>4. since[q] = <<>>
      BY <2>2 DEF Quiet, OrderInv, SinceInv
    <3>5. EndsWith(Sent(feed, q, at[q]), <<>>) /\ EndsWith(<<>>, <<>>)
      <4>1. Sent(feed, q, at[q]) \in Seq(D)
        <5>1. at[q] \in 0..Len(feed[q]) /\ feed \in Feeds
          BY DEF Quiet, OrderInv, DmxInv, Stream
        <5> QED BY <5>1, SentType
      <4>2. <<>> \in Seq(D)
        BY EmptySeq
      <4> HIDE DEF D
      <4> QED BY <4>1, <4>2, EndsWithNone
    <3> QED BY <3>3, <3>4, <3>5 DEF Ordered, Got, a
  <2> QED BY <2>1, <2>2
<1> QED
  BY <1>3, <1>4, <1>5 DEF Ordered

\* The stream that the packet is of, if it belongs to the file.
LEMMA OwnOrdered ==
    ASSUME NEW pid, NEW p, Quiet(pid, p), NEW f \in Dmx!Files, pid \in carries[f], Belongs(f, pid)'
    PROVE  Ordered(f, pid)'
<1> DEFINE D == DataOf(feed)
           O == {x \in D : x.pid = pid}
           d == p.data
           a == AllOf(file[f], sample[f])
           b == AllOf(file'[f], sample'[f])
           m == at[pid] + 1
<1>1. /\ a \in Seq(D) /\ (b = IF ToFile(f, p) THEN a \o d ELSE a)
      /\ (ToFile(f, p) => d \in Seq(O))
      /\ d \in Seq(D)
  BY QuietFile DEF Quiet, Comes
<1>2. pid \in DOMAIN pid2type'
  BY HasType DEF Belongs
<1>3. m \in DOMAIN feed[pid] /\ p.start = feed[pid][m].start /\ p.pes = feed[pid][m].pes /\ p.pid = pid
      /\ feed' = feed
  <2>1. m \in DOMAIN feed[pid]
    BY NextPacket, Packets DEF Quiet, OrderInv, DmxInv
  <2> QED BY <2>1 DEF Quiet, Comes, Coming
<1>4. pid # 0 /\ pid \notin DOMAIN dmxPat'.programs /\ (p.start => p.pes)
  BY <1>2, <1>3 DEF Quiet, OwnStreams
<1>5. Dmx!onPacket(p, junk)
  BY DEF Quiet, Comes
<1>6. dmxPat' = dmxPat
  BY <1>3, <1>4, <1>5 DEF Dmx!onPacket, Dmx!OnPAT, Dmx!OnTable, Dmx!OnUnit, Dmx!OnRest, Dmx!OnOther
<1>7. pid2type' = pid2type
  BY <1>3, <1>4, <1>5, <1>6
     DEF Dmx!onPacket, Dmx!OnPAT, Dmx!OnTable, Dmx!OnUnit, Dmx!OnRest, Dmx!OnOther, Dmx!InPAT
<1>8. Belongs(f, pid)
  BY <1>7 DEF Belongs
<1>9. Ordered(f, pid)
  BY <1>8, OrderMeans DEF Quiet, OrderInv
<1> DEFINE s == Sent(feed, pid, at[pid])
           s2 == Sent(feed, pid, at'[pid])
           g == OfPid(a, pid)
           g2 == OfPid(b, pid)
           c == since[pid]
           c2 == since'[pid]
<1>10. s \in Seq(D) /\ s2 = s \o d /\ c \in Seq(D) /\ g \in Seq(D) /\ s2 \in Seq(D) /\ g2 \in Seq(D)
  <2>1. s \in Seq(D) /\ s2 = s \o d /\ c \in Seq(D)
    BY DEF Quiet, Comes, OrderInv, SinceInv
  <2> HIDE DEF D, a, b, s, d, s2
  <2>2. a \o d \in Seq(D) /\ s \o d \in Seq(D)
    BY <1>1, <2>1, ConcatProperties
  <2>3. b \in Seq(D)
    BY <1>1, <2>2
  <2> QED BY <1>1, <2>1, <2>2, <2>3, OfPidConcat
<1>11. EndsWith(s, g) /\ EndsWith(g, c)
  BY <1>9 DEF Ordered, Got
<1>12. c2 = IF c # <<>> \/ (p.start /\ p.pes /\ pid \in DOMAIN pid2type) THEN c \o d ELSE c
  BY DEF Quiet, Comes, OrderInv, SinceInv
<1>13. ToFile(f, p) => g2 = g \o d
  <2> SUFFICES ASSUME ToFile(f, p) PROVE g2 = g \o d
    OBVIOUS
  <2>1. \A x \in O : x.pid = pid
    OBVIOUS
  <2> HIDE DEF D, O, a, b, d
  <2>2. OfPid(d, pid) = d
    BY <1>1, <2>1, OfPidAll
  <2>3. JoinedOf(a, d, pid)
    BY <1>1, OfPidConcat
  <2> QED BY <1>1, <2>2, <2>3 DEF JoinedOf
<1>14. EndsWith(s2, g2) /\ EndsWith(g2, c2)
  <2>1. CASE ToFile(f, p)
    <3> HIDE DEF s, s2, g, g2, c, c2, D, d
    <3>1. s2 = s \o d /\ g2 = g \o d
      BY <1>10, <1>13, <2>1
    <3>2. EndsWith(s \o d, g \o d) /\ EndsWith(g \o d, c \o d)
      BY <1>1, <1>10, <1>11, EndsWithMore
    <3>3. CASE c2 = c \o d
      BY <3>1, <3>2, <3>3
    <3>4. CASE c2 = c /\ c = <<>>
      <4>1. EndsWith(g2, <<>>)
        BY <1>10, EndsWithNone
      <4> QED BY <3>1, <3>2, <3>4, <4>1
    <3> QED BY <1>12, <3>3, <3>4
  <2>2. CASE ~ToFile(f, p)
    <3>1. ~p.start /\ f \notin begun
      <4>1. f = Dmx!FileOf(Dmx!packetType(pid2type, pid))
        BY <1>8 DEF Belongs
      <4> QED BY <1>3, <1>4, <1>6, <1>7, <2>2, <4>1 DEF ToFile, BeginsIn, GoesOnIn
    <3>2. sample[f] = <<>> /\ file[f] = <<>>
      BY <3>1 DEF Quiet, OrderInv, TypeInv, TypeOK
    <3>3. a = <<>>
      <4>1. WrittenOf(<<>>) = <<>>
        BY DEF WrittenOf
      <4>2. <<>> \o <<>> = <<>>
        OBVIOUS
      <4> QED BY <3>2, <4>1, <4>2, FlattenNone DEF AllOf
    <3>4. g = <<>> /\ g2 = <<>>
      BY <1>1, <2>2, <3>3, OfPidNone
    <3>5. c = <<>>
      BY <1>11, <3>4, EndsWithNothing
    <3>6. c2 = <<>>
      BY <1>12, <3>1, <3>5
    <3> HIDE DEF s, s2, g, g2, c, c2, D, d
    <3>7. EndsWith(s2, <<>>) /\ EndsWith(g2, <<>>)
      BY <1>10, EndsWithNone
    <3> QED BY <3>4, <3>6, <3>7
  <2> QED BY <2>1, <2>2
<1>15. (EndsWith(Sent(feed, pid, at[pid]), Got(f, pid)))' /\ (EndsWith(Got(f, pid), since[pid]))'
  BY <1>3, <1>14 DEF Got
<1> QED
  BY <1>15 DEF Ordered

\* One packet, then any step.
LEMMA OrderReceive ==
    ASSUME OrderInv, NEW pid \in DOMAIN feed, Receive(pid)
    PROVE  OrderInv'
<1> DEFINE p == Coming(pid, at[pid] + 1)
<1>1. DmxInv' /\ (dmxSeen.stray => dmxSeen'.stray)
  BY DmxReceive DEF OrderInv
<1>2. [Next]_vars /\ at[pid] < Len(feed[pid]) /\ feed' = feed /\ carries' = carries
  BY DEF Next, Receive, More
<1>3. TypeInv'
  BY <1>2, StepTypeInv DEF OrderInv
<1>4. feed \in Feeds /\ Stream(feed, at) /\ Comes(pid, p)
  BY PacketComes DEF OrderInv, DmxInv
<1> HIDE DEF p
<1>5. FilesInv'
  BY <1>4, FilesKept DEF OrderInv, TypeInv, Comes
<1>6. Shared'
  BY <1>2 DEF OrderInv, Shared
<1>7. SinceInv'
  BY <1>4, SinceNext DEF OrderInv
<1>8. (DmxInv /\ ~dmxSeen.stray => OwnStreams)'
  BY AreOwn, PTL
<1>9. ASSUME ~dmxSeen'.stray PROVE Quiet(pid, p)
  BY <1>1, <1>2, <1>4, <1>8, <1>9 DEF Quiet
<1>10. ~dmxSeen'.stray => OnlyTyped'
  BY <1>9, TypedNext
<1>11. ASSUME ~dmxSeen'.stray, NEW f \in Dmx!Files, NEW q \in carries[f], Belongs(f, q)'
       PROVE  Ordered(f, q)'
  <2>1. q \in DOMAIN feed
    BY DEF OrderInv, Shared, SharesOf
  <2>2. CASE q = pid
    BY <1>9, <1>11, <2>2, OwnOrdered
  <2>3. CASE q # pid
    BY <1>9, <1>11, <2>1, <2>3, OthersOrdered
  <2> QED BY <2>2, <2>3
<1>12. (KeepsOrder <=> (~dmxSeen.stray =>
          \A f \in Dmx!Files : \A q \in carries[f] : Belongs(f, q) => Ordered(f, q)))'
  BY OrderMeans, PTL
<1>13. KeepsOrder'
  BY <1>2, <1>11, <1>12
<1> QED
  BY <1>1, <1>3, <1>5, <1>6, <1>7, <1>10, <1>13 DEF OrderInv

LEMMA OrderInit == ASSUME Init PROVE OrderInv
<1>1. DmxInv /\ TypeInv
  BY DmxInit, InitTypes
<1>2. \A f \in Dmx!Files : sample[f] = <<>> /\ file[f] = <<>>
  BY DEF Init, Dmx!Init
<1>3. FilesInv
  BY <1>2, EmptySeq DEF FilesInv
<1>4. Shared
  BY DEF Init, Shared
<1>5. since = [q \in DOMAIN feed |-> <<>>]
  BY DEF Init
<1>6. SinceInv
  BY <1>5, EmptySeq DEF SinceInv
<1>7. \A f \in Dmx!Files : AllOf(file[f], sample[f]) = <<>>
  <2>1. WrittenOf(<<>>) = <<>>
    BY DEF WrittenOf
  <2>2. <<>> \o <<>> = <<>>
    OBVIOUS
  <2> QED BY <1>2, <2>1, <2>2, FlattenNone DEF AllOf
<1>8. OnlyTyped
  BY <1>7, EmptySeq DEF OnlyTyped
<1>9. pid2type = <<>>
  BY DEF Init, Dmx!Init
<1>10. \A f \in Dmx!Files : \A q : ~Belongs(f, q)
  <2>1. \A q : q \notin DOMAIN pid2type
    BY <1>9
  <2> QED BY <2>1, HasType DEF Belongs
<1>11. KeepsOrder
  BY <1>10, OrderMeans
<1> QED
  BY <1>1, <1>3, <1>4, <1>6, <1>8, <1>11 DEF OrderInv

LEMMA OrderNext == ASSUME OrderInv, [Next]_vars PROVE OrderInv'
<1>1. CASE UNCHANGED vars
  <2>1. DmxInv' /\ TypeInv'
    BY DmxNext, StepTypeInv DEF OrderInv
  <2>2. /\ feed' = feed /\ carries' = carries /\ dmxSeen' = dmxSeen /\ at' = at /\ since' = since
        /\ sample' = sample /\ file' = file /\ pid2type' = pid2type
    BY <1>1 DEF vars, dmxVars
  <2>3. FilesInv' /\ Shared' /\ SinceInv' /\ (~dmxSeen'.stray => OnlyTyped')
    BY <2>2 DEF OrderInv, FilesInv, Shared, SinceInv, OnlyTyped, TypedData
  <2>4. KeepsOrder'
    BY <2>2 DEF OrderInv, KeepsOrder, Written
  <2> QED BY <2>1, <2>3, <2>4 DEF OrderInv
<1> QED
  BY <1>1, OrderReceive DEF Next

\* Of each stream of a file, the file and the sample in it have all data since the first
\* unit of a known type, in order, none twice, however the streams are mixed.  (A stream
\* keeps its file, as initTypeMap inserts; a sample is begun only when the one before it
\* was written: MP2TFileDemux::onPacket.)
THEOREM OrderKept == Spec => []KeepsOrder
<1>1. Init => OrderInv
  BY OrderInit
<1>2. OrderInv /\ [Next]_vars => OrderInv'
  BY OrderNext
<1>3. OrderInv => KeepsOrder
  BY DEF OrderInv
<1> QED
  BY <1>1, <1>2, <1>3, PTL DEF Spec

-----------------------------------------------------------------------------
\* The units of the first packets of a PID.
UnitsTo(packets, n) == FlattenSeq([k \in 1..n |-> UnitIn(packets, k)])

\* A unit that begins has an end, and one only.
LEMMA HasEnd ==
    ASSUME NEW packets, Len(packets) \in Nat, NEW k \in 1..Len(packets), packets[k].start
    PROVE  \E n \in k..Len(packets) : Begins(packets, k, n) /\ IsLast(packets, n)
<1> DEFINE T == {n \in k..Len(packets) : IsLast(packets, n)}
<1>1. T \subseteq Nat /\ Len(packets) \in T
  BY DEF IsLast
<1>2. PICK n \in T : \A m \in T : n <= m
  <2> HIDE DEF T
  <2> QED BY <1>1, LeastNat
<1>3. ASSUME NEW i \in (k + 1)..n PROVE ~packets[i].start
  <2>1. i - 1 \in k..Len(packets) /\ (i - 1) + 1 = i /\ i - 1 < n
    BY <1>2
  <2>2. i - 1 \notin T
    BY <1>1, <1>2, <2>1
  <2> QED BY <2>1, <2>2 DEF IsLast
<1>4. Begins(packets, k, n)
  BY <1>2, <1>3 DEF Begins
<1> QED
  BY <1>2, <1>4

LEMMA EndsOnce ==
    ASSUME NEW packets, Len(packets) \in Nat, NEW k \in 1..Len(packets),
           NEW n \in k..Len(packets), Begins(packets, k, n), IsLast(packets, n),
           NEW m \in k..Len(packets), Begins(packets, k, m), IsLast(packets, m)
    PROVE  n = m
<1>1. ASSUME NEW a \in k..Len(packets), NEW b \in k..Len(packets), a < b,
             IsLast(packets, a), Begins(packets, k, b)
      PROVE  FALSE
  <2>1. a # Len(packets) /\ a + 1 \in (k + 1)..b
    BY <1>1
  <2>2. packets[a + 1].start
    BY <1>1, <2>1 DEF IsLast
  <2> QED BY <1>1, <2>1, <2>2 DEF Begins
<1>2. n < m \/ m < n \/ n = m
  OBVIOUS
<1> QED
  BY <1>1, <1>2

\* What is between them is the unit.
LEMMA UnitEnds ==
    ASSUME NEW packets, Len(packets) \in Nat, NEW k \in 1..Len(packets),
           NEW n \in k..Len(packets), Begins(packets, k, n), IsLast(packets, n)
    PROVE  UnitAt(packets, k) = Data(SubSeq(packets, k, n))
<1> DEFINE is(m) == m \in k..Len(packets) /\ Begins(packets, k, m) /\ IsLast(packets, m)
           end == CHOOSE m \in k..Len(packets) : Begins(packets, k, m) /\ IsLast(packets, m)
<1>1. is(end)
  OBVIOUS
<1> HIDE DEF end
<1>2. end = n
  BY <1>1, EndsOnce
<1> QED
  BY <1>2 DEF UnitAt, end

\* The data of packets, one by one.
LEMMA DataMore ==
    ASSUME NEW D, NEW R, \A r \in R : r.data \in Seq(D), NEW s \in Seq(R), NEW x \in R
    PROVE  /\ Data(Append(s, x)) = Data(s) \o x.data
           /\ Data(s) \in Seq(D)
<1> DEFINE u == Append(s, x)
           w == WrittenOf(s)
           d == x.data
           S == Seq(D)
<1>1. u \in Seq(R) /\ DOMAIN s = 1..Len(s)
  BY AppendProperties, LenProperties
<1>2. DOMAIN u = 1..Len(u)
  <2> HIDE DEF u
  <2> QED BY <1>1, LenProperties
<1>3. Data(s) = FlattenSeq(w) /\ Data(u) = FlattenSeq(WrittenOf(u))
  <2> HIDE DEF u
  <2> QED BY <1>1, <1>2 DEF Data, WrittenOf
<1>4. w \in Seq(S) /\ WrittenOf(u) = Append(w, d) /\ d \in S
  BY WrittenType, WrittenAppend
<1> HIDE DEF u, w, d
<1>5. FlattenSeq(Append(w, d)) = FlattenSeq(w) \o d /\ FlattenSeq(w) \in Seq(D)
  BY <1>4, FlattenAppend, FlattenType DEF S
<1> QED
  BY <1>3, <1>4, <1>5 DEF u, d

\* Those of a unit so far.
UnitSoFar(packets, b, n) == Data(SubSeq(packets, b, n))

LEMMA SoFarGrows ==
    ASSUME NEW sent \in Feeds, NEW q \in DOMAIN sent, NEW n \in Nat, n < Len(sent[q]),
           NEW b \in 1..n
    PROVE  UnitSoFar(sent[q], b, n + 1) = UnitSoFar(sent[q], b, n) \o sent[q][n + 1].data
<1> DEFINE ps == sent[q]
           D == DataOf(sent)
           R == Range(ps)
           s == SubSeq(ps, b, n)
           x == ps[n + 1]
<1>1. Len(ps) \in Nat /\ DOMAIN ps = 1..Len(ps) /\ ps \in Seq(R)
  BY Packets
<1>2. \A r \in R : r.data \in Seq(D)
  BY PacketData DEF Range
<1>3. /\ SubSeq(ps, b, n + 1) = Append(s, x)
      /\ s \in Seq(R) /\ x \in R
  <2>0. n + 1 \in 1..Len(ps) /\ b \in Nat /\ \A i \in b..n : i \in 1..Len(ps)
    BY <1>1
  <2>1. x \in R /\ \A i \in b..n : ps[i] \in R
    BY <1>1, <2>0 DEF Range
  <2> HIDE DEF R, ps
  <2>2. s \in Seq(R)
    <3>1. b \in Int /\ n \in Int
      BY <2>0
    <3> QED BY <2>1, <3>1, SubSeqProperties
  <2>3. SubSeq(ps, b, n + 1) = Append(s, x)
    BY <1>1, <2>0, SubSeqRecursiveSecond
  <2> QED BY <2>1, <2>2, <2>3
<1> HIDE DEF s, x, R
<1>4. Data(Append(s, x)) = Data(s) \o x.data
  <2> HIDE DEF D
  <2> QED BY <1>2, <1>3, DataMore
<1> QED
  BY <1>3, <1>4 DEF UnitSoFar, s, x

LEMMA SoFarType ==
    ASSUME NEW sent \in Feeds, NEW q \in DOMAIN sent, NEW n \in 1..Len(sent[q]), NEW b \in 1..n
    PROVE  /\ UnitSoFar(sent[q], b, n) \in Seq(DataOf(sent))
           /\ UnitSoFar(sent[q], n, n) = sent[q][n].data
<1> DEFINE ps == sent[q]
           D == DataOf(sent)
           R == Range(ps)
           s == SubSeq(ps, b, n)
           x == ps[n]
<1>1. Len(ps) \in Nat /\ DOMAIN ps = 1..Len(ps) /\ ps \in Seq(R)
  BY Packets
<1>2. \A r \in R : r.data \in Seq(D)
  BY PacketData DEF Range
<1>3. /\ s \in Seq(R) /\ x \in R
      /\ SubSeq(ps, n, n) = Append(<<>>, x)
  <2>0. n \in 1..Len(ps) /\ b \in Nat /\ \A i \in b..n : i \in 1..Len(ps)
    BY <1>1
  <2>1. x \in R /\ \A i \in b..n : ps[i] \in R
    BY <1>1, <2>0 DEF Range
  <2> HIDE DEF R, ps
  <2>2. s \in Seq(R)
    <3>1. b \in Int /\ n \in Int
      BY <2>0
    <3> QED BY <2>1, <3>1, SubSeqProperties
  <2>3. SubSeq(ps, n, n) = Append(<<>>, x)
    <3> DEFINE t == SubSeq(ps, n, n)
               e == Append(<<>>, x)
    <3>1. n \in Int /\ \A i \in n..n : ps[i] \in R
      BY <2>0, <2>1
    <3>2. (IF n <= n THEN n - n + 1 ELSE 0) = 1 /\ 1 \in 1..(n - n + 1) /\ n + 1 - 1 = n
      BY <2>0
    <3>3. t \in Seq(R) /\ Len(t) = 1 /\ t[1] = x
      BY <3>1, <3>2, SubSeqProperties
    <3>4. <<>> \in Seq(R) /\ Len(<<>>) = 0
      BY EmptySeq
    <3>5. e \in Seq(R) /\ Len(e) = 1 /\ e[1] = x
      BY <2>1, <3>4, AppendProperties
    <3>6. \A i \in 1..1 : i = 1
      OBVIOUS
    <3> HIDE DEF t, e, x
    <3> QED BY <3>3, <3>5, <3>6, SeqEqual DEF t, e
  <2> QED BY <2>1, <2>2, <2>3
<1>4. /\ Data(s) \in Seq(D)
      /\ Data(Append(<<>>, x)) = Data(<<>>) \o x.data
  <2>1. <<>> \in Seq(R)
    BY EmptySeq
  <2> HIDE DEF D, R, s, x
  <2>2. Data(s) \in Seq(D)
    BY <1>2, <1>3, DataMore
  <2> DEFINE e == <<>>
  <2>3. e \in Seq(R)
    BY <2>1
  <2> HIDE DEF e
  <2>4. Data(Append(e, x)) = Data(e) \o x.data
    BY <1>2, <1>3, <2>3, DataMore
  <2> QED BY <2>2, <2>4 DEF e
<1>5. Data(<<>>) = <<>>
  <2> DEFINE none == <<>>
  <2>1. [k \in DOMAIN none |-> none[k].data] = <<>>
    OBVIOUS
  <2> QED BY <2>1, FlattenNone DEF Data
<1>6. x.data \in Seq(D)
  BY <1>2, <1>3
<1> DEFINE d == x.data
<1>7. <<>> \o d = d
  <2> HIDE DEF d
  <2> QED BY <1>6, ConcatEmptySeq DEF d
<1> QED
  BY <1>3, <1>4, <1>5, <1>7 DEF UnitSoFar

\* The units of a PID are sequences of data.
LEMMA UnitType ==
    ASSUME NEW sent \in Feeds, NEW q \in DOMAIN sent, NEW k \in 1..Len(sent[q])
    PROVE  UnitIn(sent[q], k) \in Seq(Seq(DataOf(sent)))
<1> DEFINE ps == sent[q]
           S == Seq(DataOf(sent))
           u == UnitAt(ps, k)
<1>1. Len(ps) \in Nat
  BY Packets
<1>2. CASE ps[k].start
  <2>1. PICK n \in k..Len(ps) : Begins(ps, k, n) /\ IsLast(ps, n)
    BY <1>1, <1>2, HasEnd
  <2>2. u = UnitSoFar(ps, k, n)
    <3> HIDE DEF ps
    <3> QED BY <1>1, <2>1, UnitEnds DEF UnitSoFar
  <2>3. n \in 1..Len(ps) /\ k \in 1..n
    BY <1>1, <2>1
  <2>4. u \in S
    BY <2>2, <2>3, SoFarType
  <2> HIDE DEF u, S
  <2>5. <<u>> \in Seq(S) /\ <<>> \in Seq(S)
    BY <2>4
  <2> QED BY <2>5 DEF UnitIn, u, S
<1>3. CASE ~ps[k].start
  <2>1. <<>> \in Seq(S)
    BY EmptySeq
  <2> QED BY <1>3, <2>1 DEF UnitIn
<1> QED
  BY <1>2, <1>3

LEMMA UnitsGrow ==
    ASSUME NEW sent \in Feeds, NEW q \in DOMAIN sent, NEW n \in Nat, n < Len(sent[q])
    PROVE  /\ UnitsTo(sent[q], n + 1) = UnitsTo(sent[q], n) \o UnitIn(sent[q], n + 1)
           /\ UnitsTo(sent[q], n) \in Seq(Seq(DataOf(sent)))
           /\ UnitIn(sent[q], n + 1) \in Seq(Seq(DataOf(sent)))
<1> DEFINE ps == sent[q]
           S == Seq(DataOf(sent))
           x == UnitIn(ps, n + 1)
           list(m) == [k \in 1..m |-> UnitIn(ps, k)]
           a == list(n)
           b == list(n + 1)
           c == Append(a, x)
<1>1. Len(ps) \in Nat
  BY Packets
<1>2. \A k \in 1..(n + 1) : UnitIn(ps, k) \in Seq(S)
  <2>1. \A k \in 1..(n + 1) : k \in 1..Len(ps)
    BY <1>1
  <2> QED BY <2>1, UnitType
<1> HIDE DEF ps, S
<1>3. /\ a \in Seq(Seq(S)) /\ Len(a) = n /\ \A k \in 1..n : a[k] = UnitIn(ps, k)
  <2>1. DOMAIN a = 1..n /\ a = [k \in DOMAIN a |-> a[k]] /\ \A k \in 1..n : a[k] = UnitIn(ps, k)
    OBVIOUS
  <2>2. \A k \in 1..n : k \in 1..(n + 1)
    OBVIOUS
  <2>3. \A k \in 1..n : a[k] \in Seq(S)
    BY <1>2, <2>1, <2>2
  <2> HIDE DEF a
  <2> QED BY <2>1, <2>3, IsSeq
<1>4. /\ b \in Seq(Seq(S)) /\ Len(b) = n + 1 /\ \A k \in 1..(n + 1) : b[k] = UnitIn(ps, k)
  <2>1. DOMAIN b = 1..(n + 1) /\ b = [k \in DOMAIN b |-> b[k]]
        /\ \A k \in 1..(n + 1) : b[k] = UnitIn(ps, k)
    OBVIOUS
  <2>2. \A k \in 1..(n + 1) : b[k] \in Seq(S)
    BY <1>2, <2>1
  <2>3. n + 1 \in Nat
    OBVIOUS
  <2> HIDE DEF b
  <2> QED BY <2>1, <2>2, <2>3, IsSeq
<1>5. x \in Seq(S)
  <2>1. n + 1 \in 1..(n + 1)
    OBVIOUS
  <2> QED BY <1>2, <2>1
<1>6. UnitsTo(ps, n) = FlattenSeq(a) /\ UnitsTo(ps, n + 1) = FlattenSeq(b)
  BY DEF UnitsTo
<1>7. b[n + 1] = x
  <2>1. n + 1 \in 1..(n + 1)
    OBVIOUS
  <2> QED BY <2>1
<1> HIDE DEF a, b, x
<1>8. c \in Seq(Seq(S)) /\ Len(c) = n + 1 /\ c[n + 1] = x /\ \A k \in 1..n : c[k] = a[k]
  BY <1>3, <1>5, AppendProperties
<1> HIDE DEF c
<1>9. \A k \in 1..(n + 1) : b[k] = c[k]
  <2>1. \A k \in 1..(n + 1) : k \in 1..n \/ k = n + 1
    OBVIOUS
  <2>2. \A k \in 1..n : k \in 1..(n + 1)
    OBVIOUS
  <2> QED BY <1>3, <1>4, <1>7, <1>8, <2>1, <2>2
<1>10. b = c
  BY <1>4, <1>8, <1>9, SeqEqual
<1>11. FlattenSeq(c) = FlattenSeq(a) \o x /\ FlattenSeq(a) \in Seq(S)
  BY <1>3, <1>5, FlattenAppend, FlattenType DEF c
<1> QED
  BY <1>5, <1>6, <1>10, <1>11 DEF x, ps, S

LEMMA UnitsType ==
    ASSUME NEW sent \in Feeds, NEW q \in DOMAIN sent, NEW n \in 0..Len(sent[q])
    PROVE  UnitsTo(sent[q], n) \in Seq(Seq(DataOf(sent)))
<1> DEFINE S == Seq(DataOf(sent))
           ps == sent[q]
<1>1. Len(ps) \in Nat
  BY Packets
<1>2. CASE n > 0
  <2> DEFINE m == n - 1
             a == UnitsTo(ps, m)
             x == UnitIn(ps, m + 1)
  <2>1. m \in Nat /\ m < Len(ps) /\ m + 1 = n
    BY <1>1, <1>2
  <2> HIDE DEF m
  <2>2. UnitsTo(ps, m + 1) = a \o x /\ a \in Seq(S) /\ x \in Seq(S)
    BY <2>1, UnitsGrow
  <2> HIDE DEF a, x, S
  <2>3. a \o x \in Seq(S)
    BY <2>2, ConcatProperties
  <2> QED BY <2>1, <2>2, <2>3 DEF S
<1>3. CASE n = 0
  <2>1. [k \in 1..n |-> UnitIn(ps, k)] = <<>>
    BY <1>3
  <2>2. <<>> \in Seq(S)
    BY EmptySeq
  <2> QED BY <2>1, <2>2, FlattenNone DEF UnitsTo
<1>4. n > 0 \/ n = 0
  BY <1>1
<1> QED
  BY <1>2, <1>3, <1>4

\* One sequence is the beginning of another.
Leads(s, t) == Len(s) <= Len(t) /\ \A i \in 1..Len(s) : t[i] = s[i]

LEMMA LeadsOn ==
    ASSUME NEW S, NEW r, Len(r) \in Nat, NEW s \in Seq(S), Leads(r, s), NEW x \in Seq(S)
    PROVE  Leads(r, s \o x)
<1> DEFINE t == s \o x
<1>1. Len(s) \in Nat /\ Len(x) \in Nat /\ Len(t) = Len(s) + Len(x)
      /\ \A i \in 1..Len(s) : t[i] = s[i]
  <2>1. Len(s) \in Nat /\ Len(x) \in Nat
    BY LenProperties
  <2>2. Len(t) = Len(s) + Len(x)
        /\ \A i \in 1..(Len(s) + Len(x)) : t[i] = IF i <= Len(s) THEN s[i] ELSE x[i - Len(s)]
    BY ConcatProperties
  <2> HIDE DEF t
  <2> QED BY <2>1, <2>2
<1> HIDE DEF t
<1>2. \A i \in 1..Len(r) : i \in 1..Len(s)
  BY <1>1 DEF Leads
<1>3. Leads(r, t)
  BY <1>1, <1>2 DEF Leads
<1> QED
  BY <1>3 DEF t

LEMMA UnitsLead ==
    ASSUME NEW sent \in Feeds, NEW q \in DOMAIN sent, NEW n \in 0..Len(sent[q])
    PROVE  Leads(UnitsTo(sent[q], n), UnitsIn(sent[q]))
<1> DEFINE ps == sent[q]
           S == Seq(DataOf(sent))
           r == UnitsTo(ps, n)
           T == {m \in n..Len(ps) : ~Leads(r, UnitsTo(ps, m))}
<1>1. Len(ps) \in Nat /\ DOMAIN ps = 1..Len(ps)
  BY Packets
<1>2. Len(r) \in Nat
  <2>1. r \in Seq(S)
    BY UnitsType
  <2> HIDE DEF r
  <2> QED BY <2>1, LenProperties
<1>3. ASSUME T # {} PROVE FALSE
  <2>1. T \subseteq Nat
    BY <1>1
  <2>2. PICK m \in T : \A i \in T : m <= i
    <3> HIDE DEF T
    <3> QED BY <1>3, <2>1, LeastNat
  <2>3. m # n
    <3>1. Leads(r, r)
      BY <1>2 DEF Leads
    <3> QED BY <2>2, <3>1
  <2> DEFINE k == m - 1
             s == UnitsTo(ps, k)
             x == UnitIn(ps, k + 1)
  <2>4. k \in n..Len(ps) /\ k \in Nat /\ k < Len(ps) /\ k + 1 = m /\ k < m
    BY <1>1, <2>2, <2>3
  <2>5. Leads(r, s)
    <3>1. k \notin T
      BY <2>1, <2>2, <2>4
    <3> QED BY <2>4, <3>1
  <2> HIDE DEF k
  <2>6. UnitsTo(ps, k + 1) = s \o x /\ s \in Seq(S) /\ x \in Seq(S)
    BY <2>4, UnitsGrow
  <2>7. ~Leads(r, UnitsTo(ps, k + 1))
    BY <2>2, <2>4
  <2> HIDE DEF r, s, x, S
  <2>8. Leads(r, s \o x)
    BY <1>2, <2>5, <2>6, LeadsOn
  <2> QED BY <2>6, <2>7, <2>8
<1>4. Leads(r, UnitsTo(ps, Len(ps)))
  <2>1. Len(ps) \in n..Len(ps)
    BY <1>1
  <2> QED BY <1>3, <2>1
<1>5. UnitsIn(ps) = UnitsTo(ps, Len(ps))
  BY <1>1 DEF UnitsIn, UnitsTo
<1> QED
  BY <1>4, <1>5

-----------------------------------------------------------------------------
\* What a sample and a file have when n packets have come, of which the b-th began the
\* last unit: that unit so far, and as the last one written the one before.
Closes(s, x) == s # <<>> /\ s[Len(s)] = x

Given(packets, n, b, s, pieces) ==
    /\ Begins(packets, b, n)
    /\ s = UnitSoFar(packets, b, n)
    /\ UnitsTo(packets, n) = UnitsTo(packets, b - 1) \o UnitIn(packets, b)
    /\ pieces # <<>> => Closes(UnitsTo(packets, b - 1), pieces[Len(pieces)].data)

\* A unit that may be written next.
MayFollow(all, s, pieces) ==
    \E k \in 1..Len(all) :
        /\ all[k] = s
        /\ pieces = <<>> \/ (k > 1 /\ pieces[Len(pieces)].data = all[k - 1])

LEMMA GivenRest ==
    ASSUME NEW sent \in Feeds, NEW q \in DOMAIN sent, NEW n \in Nat, n < Len(sent[q]),
           ~sent[q][n + 1].start, NEW b, NEW s, NEW pieces, Given(sent[q], n, b, s, pieces)
    PROVE  Given(sent[q], n + 1, b, s \o sent[q][n + 1].data, pieces)
<1> DEFINE ps == sent[q]
           S == Seq(DataOf(sent))
           u == UnitsTo(ps, n)
<1>1. b \in 1..n /\ Begins(ps, b, n) /\ s = UnitSoFar(ps, b, n)
  BY DEF Given, Begins
<1>2. Begins(ps, b, n + 1)
  BY <1>1, BeginsBefore
<1>3. UnitSoFar(ps, b, n + 1) = s \o ps[n + 1].data
  BY <1>1, SoFarGrows
<1>4. UnitsTo(ps, n + 1) = u \o UnitIn(ps, n + 1) /\ u \in Seq(S)
  BY UnitsGrow
<1>5. UnitIn(ps, n + 1) = <<>>
  BY DEF UnitIn
<1>6. u \o <<>> = u
  <2> HIDE DEF u, S
  <2> QED BY <1>4, ConcatEmptySeq
<1>7. UnitsTo(ps, n + 1) = UnitsTo(ps, n)
  BY <1>4, <1>5, <1>6
<1> QED
  BY <1>2, <1>3, <1>7 DEF Given

LEMMA GivenFirst ==
    ASSUME NEW sent \in Feeds, NEW q \in DOMAIN sent, NEW n \in Nat, n < Len(sent[q]),
           sent[q][n + 1].start, NEW pieces,
           pieces # <<>> => Closes(UnitsTo(sent[q], n), pieces[Len(pieces)].data)
    PROVE  Given(sent[q], n + 1, n + 1, sent[q][n + 1].data, pieces)
<1> DEFINE ps == sent[q]
           m == n + 1
<1>1. Begins(ps, m, m)
  BY BeginsHere
<1>2. m \in 1..Len(ps) /\ m \in 1..m /\ m - 1 = n
  BY Packets
<1>3. UnitSoFar(ps, m, m) = ps[m].data
  BY <1>2, SoFarType
<1>4. UnitsTo(ps, m) = UnitsTo(ps, n) \o UnitIn(ps, m)
  BY UnitsGrow
<1> HIDE DEF m
<1>5. Given(ps, m, m, ps[m].data, pieces)
  BY <1>1, <1>2, <1>3, <1>4 DEF Given, m
<1> QED
  BY <1>5 DEF m

\* When the next unit begins, the one before is complete.
LEMMA GivenWhole ==
    ASSUME NEW sent \in Feeds, NEW q \in DOMAIN sent, NEW n \in Nat, n < Len(sent[q]),
           sent[q][n + 1].start, NEW b, NEW s, NEW pieces, Given(sent[q], n, b, s, pieces)
    PROVE  /\ s = <<>> => UnitsTo(sent[q], n) = UnitsTo(sent[q], b - 1)
           /\ s # <<>> => /\ Closes(UnitsTo(sent[q], n), s)
                          /\ MayFollow(UnitsIn(sent[q]), s, pieces)
<1> DEFINE ps == sent[q]
           S == Seq(DataOf(sent))
           u == UnitsTo(ps, n)
           v == UnitsTo(ps, b - 1)
           all == UnitsIn(ps)
<1>1. b \in 1..n /\ Begins(ps, b, n) /\ s = UnitSoFar(ps, b, n) /\ u = v \o UnitIn(ps, b)
  BY DEF Given, Begins
<1>2. Len(ps) \in Nat
  BY Packets
<1>3. b \in 1..Len(ps) /\ n \in b..Len(ps) /\ b - 1 \in 0..Len(ps) /\ n \in 0..Len(ps)
  BY <1>1, <1>2
<1>4. IsLast(ps, n) /\ ps[b].start
  BY <1>1 DEF IsLast, Begins
<1>5. UnitAt(ps, b) = s
  <2> HIDE DEF ps
  <2> QED BY <1>1, <1>2, <1>3, <1>4, UnitEnds DEF UnitSoFar
<1>6. UnitIn(ps, b) = IF s = <<>> THEN <<>> ELSE <<s>>
  BY <1>4, <1>5 DEF UnitIn
<1>7. v \in Seq(S) /\ u \in Seq(S) /\ UnitIn(ps, b) \in Seq(S)
  BY <1>3, UnitsType, UnitType
<1>8. Leads(u, all)
  BY <1>3, UnitsLead
<1>9. pieces # <<>> => Closes(v, pieces[Len(pieces)].data)
  BY DEF Given
<1>10. Len(all) \in Nat
  <2>1. Len(ps) \in 0..Len(ps) /\ DOMAIN ps = 1..Len(ps)
    BY <1>2, Packets
  <2>2. all = UnitsTo(ps, Len(ps))
    BY <2>1 DEF UnitsIn, UnitsTo
  <2>3. all \in Seq(S)
    BY <2>1, <2>2, UnitsType
  <2> HIDE DEF all, S
  <2> QED BY <2>3, LenProperties
<1> HIDE DEF u, v, all, S
<1>11. s = <<>> => u = v
  BY <1>1, <1>6, <1>7, ConcatEmptySeq
<1>12. ASSUME s # <<>> PROVE Closes(u, s) /\ MayFollow(all, s, pieces)
  <2> DEFINE x == <<s>>
             m == Len(v)
             k == m + 1
  <2>1. u = v \o x /\ x \in Seq(S) /\ Len(x) = 1 /\ x[1] = s
    BY <1>1, <1>6, <1>7, <1>12
  <2> HIDE DEF x
  <2>2. m \in Nat /\ Len(u) = k /\ u[k] = s /\ \A i \in 1..m : u[i] = v[i]
    <3>1. m \in Nat
      BY <1>7, LenProperties
    <3>2. Len(v \o x) = m + 1 /\ \A i \in 1..(m + 1) : (v \o x)[i] = IF i <= m THEN v[i] ELSE x[i - m]
      <4>1. /\ Len(v \o x) = Len(v) + Len(x)
            /\ \A i \in 1..(Len(v) + Len(x)) : (v \o x)[i] = IF i <= Len(v) THEN v[i] ELSE x[i - Len(v)]
        <5>1. v \in Seq(S) /\ x \in Seq(S)
          BY <1>7, <2>1
        <5> QED BY <5>1, ConcatProperties
      <4> QED BY <2>1, <4>1 DEF m
    <3> HIDE DEF m
    <3>3. k \in 1..(m + 1) /\ ~(k <= m) /\ k - m = 1 /\ \A i \in 1..m : i \in 1..(m + 1) /\ i <= m
      BY <3>1
    <3> HIDE DEF k
    <3> QED BY <2>1, <3>1, <3>2, <3>3 DEF k
  <2> HIDE DEF m
  <2>3. u # <<>>
    <3>1. Len(<<>>) = 0 /\ k # 0
      BY <2>2
    <3> QED BY <2>2, <3>1
  <2>4. k \in 1..Len(all) /\ all[k] = s
    <3>1. k \in 1..Len(u)
      BY <2>2
    <3>2. Len(all) >= k
      BY <1>8, <2>2 DEF Leads
    <3>3. Len(all) \in Nat
      BY <1>10
    <3> QED BY <1>8, <2>2, <3>1, <3>2, <3>3 DEF Leads
  <2>5. ASSUME pieces # <<>> PROVE k > 1 /\ pieces[Len(pieces)].data = all[k - 1]
    <3>1. v # <<>> /\ v[m] = pieces[Len(pieces)].data
      BY <1>9, <2>5 DEF Closes, m
    <3>2. m # 0
      BY <1>7, <3>1, EmptySeq DEF m
    <3>3. m \in 1..m /\ m \in 1..Len(u) /\ k - 1 = m
      BY <2>2, <3>2
    <3>4. all[m] = u[m] /\ u[m] = v[m]
      BY <1>8, <2>2, <3>3 DEF Leads
    <3> QED BY <2>2, <3>1, <3>2, <3>3, <3>4
  <2> HIDE DEF k
  <2> QED BY <2>2, <2>3, <2>4, <2>5 DEF Closes, MayFollow
<1> QED
  BY <1>11, <1>12 DEF u, v, all

-----------------------------------------------------------------------------
\* A file of which the sample was begun, and to which one stream belongs.
Told(f, q) ==
    /\ Belongs(f, q)
    /\ \E b : Given(feed[q], at[q], b, sample[f], file[f])

TellsUnits == \A f \in begun : \A q \in DOMAIN feed : carries[f] = {q} => Told(f, q)

UnitInv ==
    /\ OrderInv
    /\ units = UnitsOf(feed, carries)
    /\ ~dmxSeen.stray => TellsUnits

\* The streams whose packets go to a file are those that it shares.
InShares ==
    \A f \in Dmx!Files : \A q \in DOMAIN feed :
        f = Dmx!FileOf(Dmx!packetType(pid2type, q)) => q \in carries[f]

LEMMA AreInShares == DmxInv /\ Shared /\ ~dmxSeen.stray => InShares
BY SharedIn DEF InShares

\* A packet that comes when nothing is stray, nor is then.
Plain(pid, p) == UnitInv /\ Quiet(pid, p) /\ InShares' /\ carries' = carries

LEMMA FileShares ==
    ASSUME NEW pid, NEW p, Plain(pid, p), NEW f \in Dmx!Files, ToFile(f, p)
    PROVE  pid \in carries[f]
<1>1. pid \in DOMAIN feed /\ feed' = feed /\ p.pid = pid /\ carries' = carries
  BY DEF Plain, Quiet, Comes
<1>2. CASE GoesOnIn(f, p)
  <2>1. f = Dmx!FileOf(Dmx!packetType(pid2type', pid))
    BY <1>1, <1>2 DEF GoesOnIn
  <2> QED BY <1>1, <2>1 DEF Plain, InShares
<1>3. CASE BeginsIn(f, p)
  <2>1. f = Dmx!FileOf(Dmx!packetType(pid2type, pid))
    BY <1>1, <1>3 DEF BeginsIn
  <2>2. pid \in DOMAIN pid2type
    BY <2>1, HasType
  <2>3. pid2type'[pid] = pid2type[pid] /\ pid \in DOMAIN pid2type'
    BY <2>2, StepTypes DEF Plain, Quiet, KeepsType
  <2>4. f = Dmx!FileOf(Dmx!packetType(pid2type', pid))
    BY <2>1, <2>2, <2>3 DEF Dmx!packetType
  <2> QED BY <1>1, <2>4 DEF Plain, InShares
<1> QED
  BY <1>2, <1>3 DEF ToFile

\* Which samples are begun.
LEMMA BegunNext ==
    ASSUME NEW p, NEW j, Dmx!onPacket(p, j), begun \subseteq Dmx!Files
    PROVE  /\ begun \subseteq begun' /\ begun' \subseteq Dmx!Files
           /\ \A f \in begun' : f \in begun \/ BeginsIn(f, p)
<1>1. CASE Dmx!OnUnit(p)
  <2> DEFINE f == Dmx!FileOf(Dmx!packetType(pid2type, p.pid))
  <2>1. f \in Dmx!Files \/ f = "none"
    BY DEF Dmx!FileOf, Dmx!Files
  <2>2. f \in Dmx!Files /\ begun' = begun \cup {f} /\ BeginsIn(f, p)
    BY <1>1, <2>1 DEF Dmx!OnUnit, Dmx!InPAT, BeginsIn
  <2> HIDE DEF f
  <2> QED BY <2>2
<1>2. CASE ~Dmx!OnUnit(p)
  BY <1>2 DEF Dmx!onPacket, Dmx!OnPAT, Dmx!OnTable, Dmx!OnRest, Dmx!OnOther
<1> QED
  BY <1>1, <1>2

\* The next packet of the only stream of a file: it goes to the file, or no unit of a
\* known type has begun.
LEMMA OwnNext ==
    ASSUME NEW pid, NEW p, Plain(pid, p), NEW f \in Dmx!Files, Belongs(f, pid)'
    PROVE  /\ Belongs(f, pid)
           /\ p.start => BeginsIn(f, p)
           /\ ~p.start /\ f \in begun => GoesOnIn(f, p)
<1> DEFINE m == at[pid] + 1
<1>1. pid \in DOMAIN pid2type'
  BY HasType DEF Belongs
<1>2. m \in DOMAIN feed[pid] /\ p.start = feed[pid][m].start /\ p.pes = feed[pid][m].pes /\ p.pid = pid
      /\ feed' = feed /\ pid \in DOMAIN feed
  <2>1. m \in DOMAIN feed[pid]
    BY NextPacket, Packets DEF Plain, Quiet, OrderInv, DmxInv
  <2> QED BY <2>1 DEF Plain, Quiet, Comes, Coming
<1>3. pid # 0 /\ pid \notin DOMAIN dmxPat'.programs /\ (p.start => p.pes)
  BY <1>1, <1>2 DEF Plain, Quiet, OwnStreams
<1>4. Dmx!onPacket(p, junk)
  BY DEF Plain, Quiet, Comes
<1>5. dmxPat' = dmxPat
  BY <1>2, <1>3, <1>4 DEF Dmx!onPacket, Dmx!OnPAT, Dmx!OnTable, Dmx!OnUnit, Dmx!OnRest, Dmx!OnOther
<1>6. pid2type' = pid2type
  BY <1>2, <1>3, <1>4, <1>5
     DEF Dmx!onPacket, Dmx!OnPAT, Dmx!OnTable, Dmx!OnUnit, Dmx!OnRest, Dmx!OnOther, Dmx!InPAT
<1>7. Belongs(f, pid)
  BY <1>6 DEF Belongs
<1>8. f = Dmx!FileOf(Dmx!packetType(pid2type, pid))
  BY <1>7 DEF Belongs
<1> QED
  BY <1>2, <1>3, <1>5, <1>6, <1>7, <1>8 DEF BeginsIn, GoesOnIn

\* What is written to a file: nothing, or a unit that may be next.
Writes(f, q) ==
    \/ file'[f] = file[f]
    \/ /\ MayFollow(UnitsIn(feed[q]), sample[f], file[f])
       /\ \E c : file'[f] = Append(file[f], [data |-> sample[f], cells |-> c])

LEMMA OtherFile ==
    ASSUME NEW pid, NEW p, Plain(pid, p), NEW f \in Dmx!Files, NEW q \in DOMAIN feed,
           carries[f] = {q}, q # pid
    PROVE  Writes(f, q) /\ (f \in begun' => Told(f, q)')
<1>1. ~ToFile(f, p)
  BY FileShares
<1>2. /\ Dmx!onPacket(p, junk) /\ SampleInv /\ begun \subseteq Dmx!Files
      /\ feed' = feed /\ at'[q] = at[q]
      /\ [Next]_vars
  BY DEF Plain, Quiet, Comes, OrderInv, TypeInv, TypeOK
<1>3. sample'[f] = sample[f] /\ file'[f] = file[f]
  BY <1>1, <1>2, PacketFills DEF ToFile
<1>4. f \in begun' => f \in begun
  BY <1>1, <1>2, BegunNext DEF ToFile
<1>5. ASSUME f \in begun' PROVE Told(f, q)'
  <2>1. Told(f, q)
    BY <1>4, <1>5 DEF Plain, UnitInv, Quiet, TellsUnits
  <2>2. Belongs(f, q)'
    <3>1. q \in DOMAIN pid2type
      BY <2>1, HasType DEF Told, Belongs
    <3> QED BY <1>2, <2>1, <3>1, BelongsKept DEF Told
  <2> QED BY <1>2, <1>3, <2>1, <2>2 DEF Told
<1> QED
  BY <1>3, <1>5 DEF Writes

\* The packet is of the stream of the file.
LEMMA StreamPacket ==
    ASSUME NEW pid, NEW p, Plain(pid, p)
    PROVE  LET n == at[pid] IN
           /\ feed \in Feeds /\ pid \in DOMAIN feed /\ n \in Nat /\ n < Len(feed[pid])
           /\ p.start = feed[pid][n + 1].start /\ p.data = feed[pid][n + 1].data
           /\ at'[pid] = n + 1 /\ feed' = feed
           /\ Dmx!onPacket(p, junk) /\ SampleInv /\ begun \subseteq Dmx!Files
           /\ [Next]_vars
           /\ \A f \in Dmx!Files : f \notin begun => sample[f] = <<>> /\ file[f] = <<>>
<1>1. feed \in Feeds /\ pid \in DOMAIN feed /\ Stream(feed, at) /\ at[pid] < Len(feed[pid])
  BY DEF Plain, Quiet, OrderInv, DmxInv
<1>2. at[pid] \in Nat
  BY <1>1, NextPacket
<1> QED
  BY <1>1, <1>2 DEF Plain, Quiet, Comes, Coming, OrderInv, TypeInv, TypeOK

LEMMA BegunFile ==
    ASSUME NEW pid, NEW p, Plain(pid, p), NEW f \in Dmx!Files, f \in begun, carries[f] = {pid}
    PROVE  Writes(f, pid) /\ Told(f, pid)'
<1> DEFINE n == at[pid]
           ps == feed[pid]
           s == sample[f]
           fl == file[f]
<1>1. /\ feed \in Feeds /\ pid \in DOMAIN feed /\ n \in Nat /\ n < Len(ps)
      /\ p.start = ps[n + 1].start /\ p.data = ps[n + 1].data
      /\ at'[pid] = n + 1 /\ feed' = feed
      /\ Dmx!onPacket(p, junk) /\ SampleInv
      /\ [Next]_vars
  BY StreamPacket
<1>2. Told(f, pid)
  BY <1>1 DEF Plain, UnitInv, Quiet, TellsUnits
<1>3. PICK b : Given(ps, n, b, s, fl)
  BY <1>2 DEF Told
<1>4. Belongs(f, pid)'
  <2>1. pid \in DOMAIN pid2type
    BY <1>2, HasType DEF Told, Belongs
  <2> QED BY <1>1, <1>2, <2>1, BelongsKept DEF Told
<1>5. (p.start => BeginsIn(f, p)) /\ (~p.start => GoesOnIn(f, p))
  BY <1>4, OwnNext
<1>6. CASE ~p.start
  <2>1. sample'[f] = s \o p.data /\ file'[f] = fl
    BY <1>1, <1>5, <1>6, PacketFills
  <2>2. Given(ps, n + 1, b, s \o ps[n + 1].data, fl)
    BY <1>1, <1>3, <1>6, GivenRest
  <2>3. Given(feed[pid], at'[pid], b, sample'[f], file'[f])
    BY <1>1, <2>1, <2>2
  <2> QED BY <1>1, <1>4, <2>1, <2>3 DEF Told, Writes
<1>7. CASE p.start
  <2> DEFINE r == Piece(f, p)
             new == IF s = <<>> THEN fl ELSE Append(fl, r)
             u == UnitsTo(ps, n)
  <2>1. sample'[f] = p.data /\ file'[f] = new
    BY <1>1, <1>5, <1>7, PacketFills
  <2>2. /\ s = <<>> => u = UnitsTo(ps, b - 1)
        /\ s # <<>> => Closes(u, s) /\ MayFollow(UnitsIn(ps), s, fl)
    BY <1>1, <1>3, <1>7, GivenWhole
  <2>3. fl # <<>> => Closes(UnitsTo(ps, b - 1), fl[Len(fl)].data)
    BY <1>3 DEF Given
  <2>4. s # <<>> => new[Len(new)].data = s
    <3> DEFINE P == Pieces(feed) \cup {r}
    <3>1. fl \in Seq(Pieces(feed))
      BY DEF Plain, Quiet, OrderInv, FilesInv
    <3>2. r.data = s
      BY DEF Piece
    <3>3. Pieces(feed) \subseteq P /\ r \in P
      OBVIOUS
    <3> HIDE DEF P, r, fl, s
    <3>4. fl \in Seq(P)
      BY <3>1, <3>3, SeqMonotonic
    <3>5. Len(Append(fl, r)) = Len(fl) + 1 /\ Append(fl, r)[Len(fl) + 1] = r
      BY <3>3, <3>4, AppendProperties
    <3> QED BY <3>2, <3>5
  <2>5. new # <<>> => Closes(u, new[Len(new)].data)
    <3>1. CASE s = <<>>
      BY <2>2, <2>3, <3>1
    <3>2. CASE s # <<>>
      BY <2>2, <2>4, <3>2
    <3> QED BY <3>1, <3>2
  <2> HIDE DEF new, r
  <2>6. Given(ps, n + 1, n + 1, ps[n + 1].data, new)
    BY <1>1, <1>7, <2>5, GivenFirst
  <2>7. Given(feed[pid], at'[pid], n + 1, sample'[f], file'[f])
    BY <1>1, <2>1, <2>6
  <2>8. Writes(f, pid)
    BY <2>1, <2>2 DEF Writes, new, r, Piece
  <2> QED BY <1>1, <1>4, <2>7, <2>8 DEF Told
<1> QED
  BY <1>6, <1>7

LEMMA FreshFile ==
    ASSUME NEW pid, NEW p, Plain(pid, p), NEW f \in Dmx!Files, f \notin begun, carries[f] = {pid}
    PROVE  Writes(f, pid) /\ (f \in begun' => Told(f, pid)')
<1> DEFINE n == at[pid]
           ps == feed[pid]
<1>1. /\ feed \in Feeds /\ pid \in DOMAIN feed /\ n \in Nat /\ n < Len(ps)
      /\ p.start = ps[n + 1].start /\ p.data = ps[n + 1].data
      /\ at'[pid] = n + 1 /\ feed' = feed
      /\ Dmx!onPacket(p, junk) /\ SampleInv /\ begun \subseteq Dmx!Files
      /\ [Next]_vars
      /\ sample[f] = <<>> /\ file[f] = <<>>
  BY StreamPacket
<1>2. ~GoesOnIn(f, p)
  BY DEF GoesOnIn
<1>3. file'[f] = file[f]
  BY <1>1, <1>2, PacketFills
<1>4. ASSUME f \in begun' PROVE Told(f, pid)'
  <2>1. BeginsIn(f, p)
    BY <1>1, <1>4, BegunNext
  <2>2. Belongs(f, pid)'
    <3>1. p.pid = pid
      BY DEF Plain, Quiet, Comes
    <3>2. f = Dmx!FileOf(Dmx!packetType(pid2type, pid))
      BY <2>1, <3>1 DEF BeginsIn
    <3>3. Belongs(f, pid) /\ pid \in DOMAIN pid2type
      BY <3>2, HasType DEF Belongs
    <3> QED BY <1>1, <3>3, BelongsKept
  <2>3. sample'[f] = p.data /\ p.start
    BY <1>1, <2>1, PacketFills DEF BeginsIn
  <2>4. Given(ps, n + 1, n + 1, ps[n + 1].data, file[f])
    BY <1>1, <2>3, GivenFirst
  <2>5. Given(feed[pid], at'[pid], n + 1, sample'[f], file'[f])
    BY <1>1, <1>3, <2>3, <2>4
  <2> QED BY <1>1, <2>2, <2>5 DEF Told
<1> QED
  BY <1>3, <1>4 DEF Writes

LEMMA FileNext ==
    ASSUME NEW pid, NEW p, Plain(pid, p), NEW f \in Dmx!Files, NEW q \in DOMAIN feed,
           carries[f] = {q}
    PROVE  Writes(f, q) /\ (f \in begun' => Told(f, q)')
<1>1. CASE q # pid
  BY <1>1, OtherFile
<1>2. CASE q = pid /\ f \in begun
  BY <1>2, BegunFile
<1>3. CASE q = pid /\ f \notin begun
  BY <1>3, FreshFile
<1> QED
  BY <1>1, <1>2, <1>3

LEMMA ComesPlain ==
    ASSUME UnitInv, NEW pid \in DOMAIN feed, Receive(pid), ~dmxSeen'.stray
    PROVE  Plain(pid, Coming(pid, at[pid] + 1)) /\ ~dmxSeen.stray
<1> DEFINE p == Coming(pid, at[pid] + 1)
<1>1. OrderInv /\ OrderInv'
  BY OrderReceive DEF UnitInv
<1>2. [Next]_vars /\ at[pid] < Len(feed[pid]) /\ carries' = carries
  BY DEF Next, Receive, More
<1>3. ~dmxSeen.stray
  BY DmxReceive DEF UnitInv, OrderInv
<1>4. Comes(pid, p)
  BY <1>1, PacketComes DEF OrderInv, DmxInv
<1>5. (DmxInv /\ ~dmxSeen.stray => OwnStreams)'
  BY AreOwn, PTL
<1>6. (DmxInv /\ Shared /\ ~dmxSeen.stray => InShares)'
  BY AreInShares, PTL
<1>7. OwnStreams' /\ InShares'
  BY <1>1, <1>5, <1>6 DEF OrderInv
<1> HIDE DEF p
<1>8. Plain(pid, p)
  BY <1>1, <1>2, <1>3, <1>4, <1>7 DEF Plain, Quiet
<1> QED
  BY <1>3, <1>8 DEF p

LEMMA UnitReceive ==
    ASSUME UnitInv, NEW pid \in DOMAIN feed, Receive(pid)
    PROVE  UnitInv'
<1>1. OrderInv'
  BY OrderReceive DEF UnitInv
<1>2. feed' = feed /\ carries' = carries /\ units' = units
  BY DEF Receive
<1>3. (units = UnitsOf(feed, carries))'
  BY <1>2 DEF UnitInv, UnitsOf
<1>4. ASSUME ~dmxSeen'.stray PROVE TellsUnits'
  <2> DEFINE p == Coming(pid, at[pid] + 1)
  <2>1. Plain(pid, p)
    BY <1>4, ComesPlain
  <2> HIDE DEF p
  <2>2. begun' \subseteq Dmx!Files
    BY <1>1 DEF OrderInv, TypeInv, TypeOK
  <2>3. \A f \in begun' : \A q \in DOMAIN feed : carries[f] = {q} => Told(f, q)'
    BY <2>1, <2>2, FileNext
  <2> QED BY <1>2, <2>3 DEF TellsUnits
<1> QED
  BY <1>1, <1>3, <1>4 DEF UnitInv

LEMMA UnitNext == ASSUME UnitInv, [Next]_vars PROVE UnitInv'
<1>1. CASE UNCHANGED vars
  <2>1. OrderInv'
    BY OrderNext DEF UnitInv
  <2>2. /\ feed' = feed /\ carries' = carries /\ units' = units /\ dmxSeen' = dmxSeen /\ at' = at
        /\ begun' = begun /\ sample' = sample /\ file' = file /\ pid2type' = pid2type
    BY <1>1 DEF vars, dmxVars
  <2>3. (units = UnitsOf(feed, carries))' /\ (TellsUnits <=> TellsUnits')
    BY <2>2 DEF UnitInv, UnitsOf, TellsUnits, Told, Belongs
  <2> QED BY <2>1, <2>2, <2>3 DEF UnitInv
<1> QED
  BY <1>1, UnitReceive DEF Next

LEMMA UnitInit == ASSUME Init PROVE UnitInv
<1>1. OrderInv
  BY OrderInit
<1>2. begun = {} /\ units = UnitsOf(feed, carries)
  BY DEF Init, Dmx!Init
<1> QED
  BY <1>1, <1>2 DEF UnitInv, TellsUnits

-----------------------------------------------------------------------------
\* What is written, as ElementaryStreams sees it.
LEMMA WrittenIs ==
    ASSUME FilesInv, NEW f \in Dmx!Files
    PROVE  /\ Written(f) = WrittenOf(file[f])
           /\ Len(Written(f)) = Len(file[f])
           /\ file[f] = <<>> => Written(f) = <<>>
           /\ file[f] # <<>> => Written(f)[Len(file[f])] = file[f][Len(file[f])].data
<1> DEFINE fl == file[f]
           P == Pieces(feed)
           D == DataOf(feed)
<1>1. fl \in Seq(P) /\ \A r \in P : r.data \in Seq(D)
  BY PiecesData DEF FilesInv
<1>2. Written(f) = WrittenOf(fl)
  BY DEF Written, WrittenOf
<1> HIDE DEF fl, P, D
<1>3. Len(WrittenOf(fl)) = Len(fl) /\ Len(fl) \in Nat
  BY <1>1, WrittenType, LenProperties
<1>4. fl = <<>> => WrittenOf(fl) = <<>>
  BY DEF WrittenOf
<1>5. ASSUME fl # <<>> PROVE WrittenOf(fl)[Len(fl)] = fl[Len(fl)].data
  <2>1. Len(fl) \in 1..Len(fl)
    BY <1>1, <1>3, <1>5, EmptySeq
  <2> QED BY <2>1 DEF WrittenOf
<1> QED
  BY <1>2, <1>3, <1>4, <1>5 DEF fl

\* At most one file is written to.
LEMMA OneFile ==
    ASSUME NEW pid, NEW p, Plain(pid, p), NEW f \in Dmx!Files, file'[f] # file[f],
           NEW g \in Dmx!Files, g # f
    PROVE  file'[g] = file[g]
<1>1. Dmx!onPacket(p, junk) /\ SampleInv
  BY StreamPacket
<1>2. BeginsIn(f, p)
  BY <1>1, PacketFills
<1>3. ~BeginsIn(g, p)
  BY <1>2 DEF BeginsIn
<1> QED
  BY <1>1, <1>3, PacketFills

\* The units of a file are those of its only stream.
LEMMA FileUnits ==
    ASSUME UnitInv, NEW f \in DOMAIN units
    PROVE  /\ f \in Dmx!Files
           /\ \E q \in DOMAIN feed : carries[f] = {q} /\ units[f] = UnitsIn(feed[q])
<1>1. units = UnitsOf(feed, carries) /\ carries = SharesOf(feed)
  BY DEF UnitInv, OrderInv, Shared
<1>2. f \in Dmx!Files /\ \E q \in carries[f] : carries[f] = {q}
  BY <1>1 DEF UnitsOf
<1>3. PICK q \in carries[f] : carries[f] = {q}
  BY <1>2
<1>4. q \in DOMAIN feed
  BY <1>1, <1>2 DEF SharesOf
<1>5. units[f] = UnitsIn(feed[CHOOSE pid \in carries[f] : TRUE])
  BY <1>1 DEF UnitsOf
<1>6. (CHOOSE pid \in carries[f] : TRUE) = q
  BY <1>3
<1> QED
  BY <1>2, <1>3, <1>4, <1>5, <1>6

LEMMA UnitWritten ==
    ASSUME UnitInv, UnitInv', units' = units, feed' = feed, NEW f \in DOMAIN units,
           NEW q \in DOMAIN feed, units[f] = UnitsIn(feed[q]), Writes(f, q), file'[f] # file[f]
    PROVE  \E k \in 1..Len(units[f]) :
              /\ Written(f)' = Append(Written(f), units[f][k])
              /\ \/ Written(f) = <<>>
                 \/ k > 1 /\ Written(f)[Len(Written(f))] = units[f][k - 1]
<1> DEFINE fl == file[f]
           s == sample[f]
           P == Pieces(feed)
           D == DataOf(feed)
<1>1. f \in Dmx!Files /\ FilesInv /\ FilesInv'
  BY FileUnits DEF UnitInv, OrderInv
<1>2. PICK k \in 1..Len(units[f]) :
        /\ units[f][k] = s
        /\ fl = <<>> \/ (k > 1 /\ fl[Len(fl)].data = units[f][k - 1])
  BY DEF Writes, MayFollow
<1>3. PICK c : file'[f] = Append(fl, [data |-> s, cells |-> c])
  BY DEF Writes
<1> DEFINE r == [data |-> s, cells |-> c]
           Q == P \cup {r}
<1>4. Written(f)' = WrittenOf(file'[f])
  BY DEF Written, WrittenOf
<1>5. WrittenOf(Append(fl, r)) = Append(WrittenOf(fl), s)
  <2>1. fl \in Seq(P) /\ (\A x \in P : x.data \in Seq(D)) /\ s \in Seq(D)
    BY <1>1, PiecesData DEF FilesInv
  <2>2. r.data = s
    OBVIOUS
  <2>3. P \subseteq Q /\ r \in Q /\ \A x \in Q : x \in P \/ x = r
    OBVIOUS
  <2> HIDE DEF Q, P, r, D, fl, s
  <2>4. fl \in Seq(Q) /\ \A x \in Q : x.data \in Seq(D)
    BY <2>1, <2>2, <2>3, SeqMonotonic
  <2>5. WrittenOf(Append(fl, r)) = Append(WrittenOf(fl), r.data)
    BY <2>3, <2>4, WrittenAppend
  <2> QED BY <2>2, <2>5
<1>6. /\ Written(f) = WrittenOf(fl) /\ Len(Written(f)) = Len(fl)
      /\ fl = <<>> => Written(f) = <<>>
      /\ fl # <<>> => Written(f)[Len(fl)] = fl[Len(fl)].data
  BY <1>1, WrittenIs
<1>7. Written(f)' = Append(Written(f), units[f][k])
  BY <1>2, <1>3, <1>4, <1>5, <1>6
<1>8. Written(f) = <<>> \/ (k > 1 /\ Written(f)[Len(Written(f))] = units[f][k - 1])
  BY <1>2, <1>6
<1> QED
  BY <1>7, <1>8

\* The files, as ElementaryStreams sees them.
StreamFiles == [f \in DOMAIN units |-> Written(f)]

LEMMA UnitStep ==
    ASSUME UnitInv, NEW pid \in DOMAIN feed, Receive(pid), ~dmxSeen'.stray
    PROVE  (Streams!Write /\ units' = units) \/ (units' = units /\ StreamFiles' = StreamFiles)
<1> DEFINE p == Coming(pid, at[pid] + 1)
<1>1. Plain(pid, p)
  BY ComesPlain
<1> HIDE DEF p
<1>2. UnitInv' /\ feed' = feed /\ units' = units
  BY UnitReceive DEF Receive
<1>3. ASSUME NEW g \in DOMAIN units, file'[g] = file[g] PROVE Written(g)' = Written(g)
  BY <1>3 DEF Written
<1>4. CASE \A g \in DOMAIN units : file'[g] = file[g]
  <2>1. \A g \in DOMAIN units : Written(g)' = Written(g)
    BY <1>3, <1>4
  <2> QED BY <1>2, <2>1 DEF StreamFiles
<1>5. ASSUME NEW f \in DOMAIN units, file'[f] # file[f] PROVE Streams!Write
  <2>1. f \in Dmx!Files
    BY FileUnits
  <2>2. PICK q \in DOMAIN feed : carries[f] = {q} /\ units[f] = UnitsIn(feed[q])
    BY FileUnits
  <2>3. Writes(f, q)
    BY <1>1, <2>1, <2>2, FileNext
  <2>4. PICK k \in 1..Len(units[f]) :
          /\ Written(f)' = Append(Written(f), units[f][k])
          /\ \/ Written(f) = <<>>
             \/ k > 1 /\ Written(f)[Len(Written(f))] = units[f][k - 1]
    BY <1>2, <1>5, <2>2, <2>3, UnitWritten
  <2>5. \A g \in DOMAIN units : g # f => Written(g)' = Written(g)
    <3>1. \A g \in DOMAIN units : g # f => file'[g] = file[g]
      BY <1>1, <1>5, <2>1, FileUnits, OneFile
    <3> QED BY <1>3, <3>1
  <2>6. StreamFiles' = [StreamFiles EXCEPT ![f] = Append(@, units[f][k])]
    BY <1>2, <2>4, <2>5 DEF StreamFiles
  <2>7. Streams!Follows(f, k)
    BY <2>4 DEF Streams!Follows
  <2> QED BY <1>2, <2>6, <2>7 DEF Streams!Write, StreamFiles
<1> QED
  BY <1>2, <1>4, <1>5

\* Every file to which one stream belongs is given that stream's access units, whole, in
\* order, none twice, none left out after the first, however many packets of other PIDs
\* come between those of a unit: the demultiplexer implements ElementaryStreams.  (A
\* start ends one unit in MP2TFileDemux::onPacket and begins the next; the rest is
\* appended.)
THEOREM UnitsWritten == Spec => WritesUnits
<1>1. Init => UnitInv
  BY UnitInit
<1>2. UnitInv /\ [Next]_vars => UnitInv'
  BY UnitNext
<1>3. Init => Streams!Init
  <2> SUFFICES ASSUME Init PROVE Streams!Init
    OBVIOUS
  <2>1. UnitInv /\ FilesInv /\ \A f \in Dmx!Files : file[f] = <<>>
    BY UnitInit DEF Init, Dmx!Init, UnitInv, OrderInv
  <2>2. \A f \in DOMAIN units : Written(f) = <<>>
    BY <2>1, FileUnits, WrittenIs
  <2>3. ~dmxSeen.stray
    BY DEF Init, Unseen
  <2> QED BY <2>2, <2>3 DEF Streams!Init
<1>4. UnitInv /\ [Next]_vars
        => [(~dmxSeen.stray)' = FALSE \/ (Streams!Write /\ units' = units)]_<<units, StreamFiles>>
  <2>1. CASE UNCHANGED vars
    <3>1. units' = units /\ file' = file
      BY <2>1 DEF vars, dmxVars
    <3>2. StreamFiles' = StreamFiles
      BY <3>1 DEF StreamFiles, Written
    <3> QED BY <3>1, <3>2
  <2>2. CASE dmxSeen'.stray
    BY <2>2
  <2>3. ASSUME UnitInv, NEW pid \in DOMAIN feed, Receive(pid), ~dmxSeen'.stray
        PROVE  (Streams!Write /\ units' = units) \/ (units' = units /\ StreamFiles' = StreamFiles)
    BY <2>3, UnitStep
  <2> QED BY <2>1, <2>2, <2>3 DEF Next
<1> QED
  BY <1>1, <1>2, <1>3, <1>4, PTL DEF Spec, WritesUnits, Streams!Spec, StreamFiles
=============================================================================
