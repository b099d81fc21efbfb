------------------------- MODULE ProgramAssociation -------------------------
(***************************************************************************)
(* lcss::ProgramAssociationTable (mp2tp/src/tspat.cpp): a map from the PID *)
(* of a program map table to the number of its program, the fields of the  *)
(* section, and the bytes that CRC_32_ was computed over, or read from.    *)
(* Bytes are as in ProgramMap.                                             *)
(***************************************************************************)
EXTENDS ProgramMap

NewPAT == [programs |-> <<>>, pointer_field |-> 0, table_id |-> 0, section_length |-> 13,
           id |-> 1, version |-> 0, current |-> 0, section |-> 0, last |-> 0, crc |-> <<>>]

\* The k-th of some PIDs, in the order of a std::map.
Nth(pids, k) == CHOOSE p \in pids : Cardinality({q \in pids : q <= p}) = k

\* The entries are written in the order of their PIDs, with section_len computed from
\* their number (not section_length_).
EntryBytes(programs) ==
    FlattenSeq([k \in 1..Cardinality(DOMAIN programs) |->
        LET pid == Nth(DOMAIN programs, k)
        IN  Bytes2(programs[pid]) \o Bytes2(pid + 57344)])

PATCovered(pat) ==
    LET len == 9 + 4 * Cardinality(DOMAIN pat.programs)
    IN  <<pat.table_id>> \o Bytes2(len + 45056) \o Bytes2(pat.id)
          \o <<193, pat.section, pat.last>> \o EntryBytes(pat.programs)

PATserialize(pat) ==
    <<pat.pointer_field>> \o PATCovered(pat) \o <<CrcByte, CrcByte, CrcByte, CrcByte>>

\* Inserts into a std::map: what a PID has, or is given first, stays.
Learn(programs, entries) ==
    LET first(pid) == CHOOSE k \in 1..Len(entries) :
                        /\ entries[k].pid = pid
                        /\ \A j \in 1..(k - 1) : entries[j].pid # pid
    IN  [q \in DOMAIN programs \cup {entries[k].pid : k \in 1..Len(entries)} |->
            IF q \in DOMAIN programs THEN programs[q] ELSE entries[first(q)].program]

\* addProgram of a PID that has none yet, and calcCRC.
addProgram(pat, program, pid) ==
    IF pid \in DOMAIN pat.programs THEN pat
    ELSE LET new == [pat EXCEPT !.programs = Learn(@, <<[program |-> program, pid |-> pid]>>)]
         IN  [new EXCEPT !.crc = PATCovered(new)]

\* Mutant: the CRC is taken for a program.
Bug_last(cur, len) == cur + len - 5

\* Where the entries end, which begin at cur.
last(cur, len) == cur + len - 9

\* parse(): the table is taken to be in this packet, whatever its length, and
\* programs learned before stay.  The version is not shifted and has five bits: it comes
\* out doubled, without its highest bit.
PATparse(pat, table, junk) ==
    LET cur == TableAt(table)
        len == Short(table, cur + 1, 4096, junk)
        entries == Walk([c \in Nat |-> [program |-> Short(table, c, 65536, junk),
                                        pid |-> Short(table, c + 2, 8192, junk)]],
                        [c \in Nat |-> c + 4], cur + 8, last(cur + 8, len))
        flags == At(table, cur + 5, junk)
    IN  [programs |-> Learn(pat.programs, entries.list),
         pointer_field |-> table[1],
         table_id |-> At(table, cur, junk),
         section_length |-> len,
         id |-> Short(table, cur + 3, 65536, junk),
         version |-> 2 * ((flags \div 2) % 16),
         current |-> flags % 2,
         section |-> At(table, cur + 6, junk),
         last |-> At(table, cur + 7, junk),
         crc |-> Take(table, entries.end, 4, junk)]
=============================================================================
