------------------------------- MODULE Decoder -------------------------------
(***************************************************************************)
(* mp2tpser::TsDecoder (src/TsDecoder.cpp): what the program makes of each *)
(* packet.  Of its report, "reports" has the program map tables, each as   *)
(* the elements that were printed; the rest of the text is left out.       *)
(*                                                                         *)
(* A packet is a record of pid, start (payload_unit_start_indicator) and   *)
(* data (its payload), and more that only the demultiplexer asks for.      *)
(***************************************************************************)
EXTENDS ProgramAssociation

VARIABLES
    pat,            \* _pat
    pmt,            \* _pmt, one for all programs
    reports

Init ==
    /\ pat = NewPAT
    /\ pmt = NewTable
    /\ reports = <<>>

\* _pat.find(pid) != _pat.end(), and the program it finds is not number 0.
InPAT(pid) == pid \in DOMAIN pat.programs
HasProgram(pid) == InPAT(pid) /\ pat.programs[pid] # 0

\* _pmt is "table", parse() is called, and what it accepts is printed.
ParseTable(table, junk) ==
    \E read \in {parse(table, junk)} :
        /\ pmt' = read.table
        /\ reports' = IF read.ok THEN Append(reports, read.table.elmts) ELSE reports

\* Lines 32-36.
OnPAT(p, junk) ==
    /\ p.start
    /\ p.pid = 0
    /\ pat' = PATparse(pat, p.data, junk)
    /\ UNCHANGED <<pmt, reports>>

\* Lines 44-51.
OnTable(p, junk) ==
    /\ p.start
    /\ p.pid # 0
    /\ HasProgram(p.pid)
    /\ ParseTable(Add(NewTable, p.data), junk)
    /\ UNCHANGED pat

\* Mutant: the rest of a table is appended, and not parsed.
Bug_OnRestOfTable(p, junk) ==
    /\ ~p.start
    /\ HasProgram(p.pid)
    /\ pmt' = Add(pmt, p.data)
    /\ UNCHANGED <<pat, reports>>

\* Lines 62-74.
OnRestOfTable(p, junk) ==
    /\ ~p.start
    /\ HasProgram(p.pid)
    /\ ParseTable(Add(pmt, p.data), junk)
    /\ UNCHANGED pat

\* Lines 40-43 and 53-60, and what is left of the else branch: a network
\* information table is only announced, a PES packet printed by itself.
OnOther(p) ==
    /\ ~HasProgram(p.pid)
    /\ ~(p.start /\ p.pid = 0)
    /\ UNCHANGED <<pat, pmt, reports>>

onPacket(p, junk) ==
    \/ OnPAT(p, junk)
    \/ OnTable(p, junk)
    \/ OnRestOfTable(p, junk)
    \/ OnOther(p)
=============================================================================
