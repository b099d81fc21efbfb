----------------------------- MODULE ProgramMap -----------------------------
(***************************************************************************)
(* lcss::ProgramMapTable (mp2tp/src/tspmt.cpp): a program map table that   *)
(* is put together from the payloads of packets, read, changed and         *)
(* written.  An instance is a record                                       *)
(*   buffer  _buffer, the payloads added so far                            *)
(*   pmt     _pmt, the header as it was parsed                             *)
(*   info    _program_info, the descriptors of the program                 *)
(*   elmts   _program_elmts                                                *)
(*   crc     the bytes that CRC_32_ was computed over                      *)
(* and a method is an operator from records to records.                    *)
(*                                                                         *)
(* The four bytes of a CRC stand in a table as CrcByte; what the value of  *)
(* CRC_32_ depends on is in crc.                                           *)
(***************************************************************************)
EXTENDS Payloads

CrcByte == 255

NewTable == [buffer |-> <<>>, pmt |-> <<>>, info |-> <<>>, elmts |-> <<>>,
             crc |-> <<>>]

\* pointer_field, as parse() and table_id() use it to find the table_id
TableAt(v) == IF v[1] = 0 THEN 1 ELSE v[1]

Add(p, payload) == [p EXCEPT !.buffer = @ \o payload]

\* The length that the section states.  It is in _buffer until a parse began,
\* and in _pmt then; the bounds are those of _buffer in both cases.
section_length(p, junk) ==
    LET v == IF p.pmt = <<>> THEN p.buffer ELSE p.pmt
        cur == v[1] + 2
    IN  IF p.buffer = <<>> \/ cur + 1 > Len(p.buffer)
        THEN 0
        ELSE Short(v, cur, 1024, junk)

\* A section shorter than a payload is taken to be there.  The size of _buffer less 4
\* is unsigned.
canParse(p, junk) ==
    LET len == section_length(p, junk)
    IN  len # 0 /\ (len < PayloadSize \/ Len(p.buffer) \notin 4..(len + 3))

-----------------------------------------------------------------------------
\* uint8_t Descriptor::length()
DescLength(d) == Len(d.value) % 256

ES_info_length(e) == Total([k \in DOMAIN e.descs |-> 2 + DescLength(e.descs[k])])

\* addDescriptor, and lines 337-340: the first descriptor of a tag stays.
addDescriptor(ds, d) ==
    IF \E k \in 1..Len(ds) : ds[k].tag = d.tag THEN ds ELSE Append(ds, d)

\* No two descriptors are of a tag.
DistinctTags(ds) == \A i, j \in 1..Len(ds) : ds[i].tag = ds[j].tag => i = j

\* The descriptors from "from" to "to", and where the last of them ends.
Descriptors(v, from, to, junk) ==
    Walk([c \in Nat |-> [tag |-> At(v, c, junk),
                         value |-> Take(v, c + 2, At(v, c + 1, junk), junk)]],
         [c \in Nat |-> c + 2 + At(v, c + 1, junk)], from, to)

\* The descriptors of the program element at cur, and where it ends.
ElementInfo(v, cur, junk) ==
    Descriptors(v, cur + 5, cur + 5 + Short(v, cur + 3, 1024, junk), junk)

\* Lines 343-383.
ElementsFrom(v, from, crcPos, junk) ==
    Walk([c \in Nat |-> [type |-> At(v, c, junk),
                         pid |-> Short(v, c + 1, 8192, junk),
                         descs |-> FoldLeft(addDescriptor, <<>>, ElementInfo(v, c, junk).list)]],
         [c \in Nat |-> ElementInfo(v, c, junk).end], from, crcPos).list

-----------------------------------------------------------------------------
programInfoLength(p) == Short(p.pmt, p.pmt[1] + 11, 4096, 0)

\* The descriptors and the program elements as they are written.
DescBytes(ds) ==
    FlattenSeq([k \in 1..Len(ds) |->
        <<ds[k].tag, DescLength(ds[k])>> \o SubSeq(ds[k].value, 1, DescLength(ds[k]))])

ElemBytes(es) ==
    FlattenSeq([k \in 1..Len(es) |->
        <<es[k].type>> \o Bytes2(es[k].pid + 57344)
           \o Bytes2(ES_info_length(es[k]) + 61440) \o DescBytes(es[k].descs)])

\* The bytes that the CRC covers: all but the pointer_field, and the CRC.
Covered(p) ==
    Tail(p.pmt) \o (IF programInfoLength(p) > 0 THEN DescBytes(p.info) ELSE <<>>)
      \o ElemBytes(p.elmts)

calcCRC(p) == [p EXCEPT !.crc = Covered(p)]

serialize(p) ==
    <<p.pmt[1]>> \o Covered(p) \o <<CrcByte, CrcByte, CrcByte, CrcByte>>

\* len | 0xB000
Or0xB000(len) ==
    (IF (len \div 16384) % 2 = 1 THEN 61440 ELSE 45056) + (len % 4096)

set_section_length(p, len) ==
    LET at == p.pmt[1] + 3
        b == Bytes2(len)
    IN  [p EXCEPT !.pmt[at] = b[1], !.pmt[at + 1] = b[2]]

calcLen(p) ==
    LET len == 13 + Total([k \in DOMAIN p.elmts |-> 5 + ES_info_length(p.elmts[k])])
                 + programInfoLength(p)
    IN  set_section_length(p, Or0xB000(len % 65536))

-----------------------------------------------------------------------------
\* The reserved bits of program_info_length are set, bits 10 and 11 cleared.
InfoLengthByte(b) == 240 + (b % 4)

\* What parse() leaves when the table_id is not 2: _pmt has grown by the pointer
\* field and the stuffing.
Refused(p) == [p EXCEPT !.pmt = @ \o SubSeq(p.buffer, 1, TableAt(p.buffer))]

\* Lines 276-387, with a table_id of 2.  _buffer is never cleared, so _pmt[0] is
\* _buffer[0]; what a parse finds is added to what an earlier one found.
Accepted(p, junk) ==
    LET v == p.buffer
        cur == TableAt(v)
        infoAt == cur + 12
        ds == Descriptors(v, infoAt, infoAt + Short(v, cur + 10, 1024, junk), junk)
        crcPos == cur + 3 + Short(v, cur + 1, 1024, junk) - 4
        header == [Take(v, 0, infoAt, junk) EXCEPT ![infoAt - 1] = InfoLengthByte(@)]
    IN  calcCRC([p EXCEPT
          !.pmt = @ \o header,
          !.info = FoldLeft(addDescriptor, @, ds.list),
          !.elmts = @ \o ElementsFrom(v, ds.end, crcPos, junk)])

\* parse(): the table after it, and its verdict.
parse(p, junk) ==
    IF ~canParse(p, junk) THEN [ok |-> FALSE, table |-> p]
    ELSE IF At(p.buffer, TableAt(p.buffer), junk) # 2
         THEN [ok |-> FALSE, table |-> Refused(p)]
         ELSE [ok |-> TRUE, table |-> Accepted(p, junk)]

-----------------------------------------------------------------------------
addProgramElement(p, e) == calcCRC(calcLen([p EXCEPT !.elmts = Append(@, e)]))

\* Mutant: the CRC is computed before the length.
Bug_removeProgramElement(p, e) ==
    calcLen(calcCRC([p EXCEPT !.elmts =
        RemoveFirstMatch(@, LAMBDA x : x.type = e.type /\ x.pid = e.pid)]))

removeProgramElement(p, e) ==
    calcCRC(calcLen([p EXCEPT !.elmts =
        RemoveFirstMatch(@, LAMBDA x : x.type = e.type /\ x.pid = e.pid)]))

\* addDescriptor of an element reached through begin(), which is not const.
editElement(p, k, d) == [p EXCEPT !.elmts[k].descs = addDescriptor(@, d)]

\* The accessors of lines 419-575.
Header(p) ==
    LET cur == p.pmt[1]
    IN  [table_id |-> At(p.pmt, TableAt(p.pmt), 255),
         program_number |-> Short(p.pmt, cur + 4, 65536, 0),
         version |-> (At(p.pmt, cur + 6, 0) \div 2) % 32,
         current |-> At(p.pmt, cur + 6, 0) % 2,
         section |-> At(p.pmt, cur + 7, 0),
         last |-> At(p.pmt, cur + 8, 0),
         PCR_PID |-> Short(p.pmt, cur + 9, 8192, 0),
         info |-> programInfoLength(p)]
=============================================================================
