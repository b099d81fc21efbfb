------------------------------- MODULE Fields -------------------------------
(***************************************************************************)
(* A program that changes packets of a stream, as modifytest does          *)
(* (tests/modifytest/src/main.cpp): a TransportPacket, a PESPacket read    *)
(* from its payload and written back to it, and calls of their methods in  *)
(* any order.  modifytest's order is Parse, AddSecond, WriteBack, SetPID.  *)
(***************************************************************************)
EXTENDS TransportPacket, PESHeader

CONSTANTS
    Packets,        \* the packets considered, and the clock reference of each:
                    \*   records of bytes, and clock, which may be None
    Stamps,         \* time stamps
    PIDs,           \* of 13 bits
    MaxCalls,       \* bound: calls for one packet
    None

\* A clock reference is in an adaptation field that is long enough for it and leaves
\* room for a payload, as the packer writes it; otherwise there is no flag of one.
ASSUME PacketsAssumption ==
    \A g \in Packets :
        /\ g.bytes \in Seq(0..255) /\ Len(g.bytes) = TS_SIZE
        /\ PrintsPCR(insert(g.bytes)) <=> g.clock # None
        /\ g.clock # None =>
             /\ g.clock.base \subseteq 0..32 /\ g.clock.ext \subseteq 0..8
             /\ SubSeq(g.bytes, 7, 12) = writePcrBits(g.clock)
             /\ 7 <= g.bytes[5] /\ g.bytes[5] <= PayloadSize - 2

ASSUME PIDsAssumption == PIDs \subseteq 0..8191 /\ None \notin PIDs

VARIABLES
    pckt,
    pes,
    \* history
    given,          \* the member of Packets that pckt was made from
    calls,          \* how many calls there were
    fresh,          \* pes was reset, or is new, since it was last parsed
    asked,          \* the time stamps that pes was last given: PTS and DTS
    written,        \* the PESPacket that was last written back, if one was
    sized,          \* all that were written back took the place of a header of their size
    counted,        \* calls of incrementCC
    named           \* the PID that was last set, or None

vars == <<pckt, pes, given, calls, fresh, asked, written, sized, counted, named>>

NotAsked == [PTS |-> None, DTS |-> None]

\* A byte behind the packet, which a read of a header may reach.
Junk == 255

Init ==
    /\ given \in Packets
    /\ pckt \in {insert(given.bytes), NewPacket}
    /\ pes = NewPES
    /\ calls = 0
    /\ fresh = TRUE
    /\ asked = NotAsked
    /\ written = {}
    /\ sized = TRUE
    /\ counted = 0
    /\ named = None

\* All bytes were put in.
Complete == pckt.pos = TS_SIZE

Call == Complete /\ calls < MaxCalls /\ calls' = calls + 1 /\ UNCHANGED given

\* A packet that was not made from data at once is put together byte by byte.
PushBack ==
    /\ ~Complete
    /\ pckt' = push_back(pckt, given.bytes[pckt.pos + 1])
    /\ UNCHANGED <<pes, given, calls, fresh, asked, written, sized, counted, named>>

\* pes.parse(pckt.getData())
Parse ==
    /\ Call
    /\ pes' = PESparse(pes, getPayload(pckt), Junk).pes
    /\ fresh' = FALSE
    /\ asked' = NotAsked
    /\ UNCHANGED <<pckt, written, sized, counted, named>>

Reset ==
    /\ Call
    /\ pes' = reset(pes)
    /\ fresh' = TRUE
    /\ UNCHANGED <<pckt, asked, written, sized, counted, named>>

SetPTS(ts) ==
    /\ Call
    /\ pes' = setPTS(pes, ts)
    /\ asked' = [PTS |-> ts, DTS |-> None]
    /\ UNCHANGED <<pckt, fresh, written, sized, counted, named>>

SetDTS(ts) ==
    /\ Call
    /\ pes' = setDTS(pes, ts)
    /\ asked' = [asked EXCEPT !.DTS = ts]
    /\ UNCHANGED <<pckt, fresh, written, sized, counted, named>>

AddSecond == SetPTS(Plus(pts(pes), 90000))

\* The packet as it came, and what a reader of a packet, a new PESPacket, finds in it.
original == insert(given.bytes)
Reads(p) == PESparse(NewPES, getPayload(p), Junk)

\* The header that would be written is as long as the one of the original, and says so.
FitsOriginal ==
    /\ hasPacketStartCodePrefix(pes)
    /\ pes.stream_id \notin Bare
    /\ Reads(original).read = Len(PESserialize(pes))
    /\ Reads(original).read = pes.PES_header_data_length + 9

\* Lines 113-116: getPayload, serialize over its beginning, setPayload.
WriteBack ==
    LET header == PESserialize(pes)
        payload == getPayload(pckt)
    IN  /\ Call
        /\ pckt' = setPayload(pckt, SubSeq(header \o SubSeq(payload, Len(header) + 1, Len(payload)),
                                           1, Len(payload)))
        /\ written' = {pes}
        /\ sized' = (sized /\ FitsOriginal)
        /\ UNCHANGED <<pes, fresh, asked, counted, named>>

SetPID(pid) ==
    /\ Call
    /\ pckt' = setPID(pckt, pid)
    /\ named' = pid
    /\ UNCHANGED <<pes, fresh, asked, written, sized, counted>>

IncrementCC ==
    /\ Call
    /\ pckt' = incrementCC(pckt)
    /\ counted' = counted + 1
    /\ UNCHANGED <<pes, fresh, asked, written, sized, named>>

\* A byte too many.
PushOneMore ==
    /\ Call
    /\ pckt' = push_back(pckt, 0)
    /\ UNCHANGED <<pes, fresh, asked, written, sized, counted, named>>

Next ==
    \/ PushBack
    \/ PushOneMore
    \/ Parse
    \/ Reset
    \/ \E ts \in Stamps : SetPTS(ts) \/ SetDTS(ts)
    \/ AddSecond
    \/ WriteBack
    \/ \E pid \in PIDs : SetPID(pid)
    \/ IncrementCC

Spec == Init /\ [][Next]_vars

-----------------------------------------------------------------------------
(***************************************************************************)
(* Correctness.                                                            *)
(***************************************************************************)
\* The bytes of the elementary stream.
DataIn(p) == SubSeq(getPayload(p), Reads(p).read + 1, Len(getPayload(p)))

\* The control field says that there is a payload.  If it does not, getPayload gives
\* the adaptation field, and incrementCC makes the packet say that there is.
HasPayload(p) == adaptationFieldExist(p) \in {1, 3}

\* The header of the packet shows what was asked for, and nothing else of it changed,
\* whatever the order of the calls: the flags stay when the PID is set; the counter
\* wraps.  Named exceptions: a PID becomes its upper byte, twice; scrambling is lost
\* when the counter is incremented.
HeaderHolds ==
    Complete =>
        /\ HeaderFlags(pckt) = HeaderFlags(original)
        /\ cc(pckt) = (cc(original) + counted) % 16
        /\ counted = 0 => scramblingControl(pckt) = scramblingControl(original)
        /\ HasPayload(original) => adaptationFieldExist(pckt) = adaptationFieldExist(original)
        /\ PID(pckt) = IF named = None THEN PID(original) ELSE (257 * (named \div 256)) % 8192

\* The payload is where it was and, unless a header was written into it, what it was:
\* calls that change the header of the packet do not reach it.
PayloadStays ==
    Complete /\ HasPayload(original) =>
        /\ data_byte(pckt) = data_byte(original)
        /\ written = {} => getPayload(pckt) = getPayload(original)

\* The data of the elementary stream survives a change of the time stamps if each
\* header written back is as long as the one that was there.  It is not if that had a
\* DTS and setPTS dropped it, if it had stuffing, or no flags at all.
KeepsUnit ==
    HasPayload(original) /\ written # {} /\ sized => DataIn(pckt) = DataIn(original)

\* A reader of the changed packet finds the stamps that the PESPacket had when it was
\* written, and all of its header, if it was read from a packet itself, and fits.
StampsArrive ==
    \A w \in written :
        HasPayload(original) /\ hasPacketStartCodePrefix(w) /\ w.stream_id \notin Bare \cup {0}
          /\ Len(PESserialize(w)) <= data_byte(pckt) =>
            LET found == Reads(pckt).pes
            IN  /\ pts(found) = pts(w)
                /\ dts(found) = dts(w)
                /\ found.PES_packet_length = w.PES_packet_length
                /\ found.flags1 = w.flags1

\* What pts() and dts() make of a time stamp that was set.
Kept(ts) == (ts \cap 0..29) \cup (IF 31 \in ts THEN {31, 32} ELSE {})

\* pts() and dts() are what was asked for, also when the other is set, and the packer,
\* which has its own encoder, would have written the same bytes.  Named exceptions: bits
\* 30 to 32 (the stamps of the first three hours have none), and a DTS that was set
\* before the PTS.
StampsValue ==
    /\ asked.PTS # None =>
         /\ pts(pes) = Kept(asked.PTS)
         /\ asked.PTS \subseteq 0..29 => pes.PTS = writePTS({1}, asked.PTS)
    /\ asked.DTS # None =>
         /\ dts(pes) = Kept(asked.DTS)
         /\ asked.DTS \subseteq 0..29 => decodeTimestamp(writePTS({1}, asked.DTS)) = dts(pes)

\* A PESPacket that is reset and used again reads a packet like a new one: no stamp of
\* an earlier packet is left.  Named exception: after a header without flags, and after
\* a payload that is no PES packet, they are those of the earlier packet.
ReadsLikeNew ==
    [][Parse /\ fresh =>
         LET found == Reads(pckt).pes
         IN  found.stream_id \notin Bare \cup {0} => pts(pes') = pts(found) /\ dts(pes') = dts(found)]_vars

\* The clock reference that the packer wrote is the one that the report shows, whatever
\* was changed in the packet, and is shown only where there is one.  Named exception: of
\* the base the lowest bit is missing, of the extension the highest.
ClockArrives ==
    Complete /\ HasPayload(original) =>
        /\ PrintsPCR(pckt) <=> given.clock # None
        /\ given.clock # None =>
             readPcrBits(getPCR(pckt)) = [base |-> given.clock.base \ {0},
                                          ext |-> given.clock.ext \ {8}]
=============================================================================
