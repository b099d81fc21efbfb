------------------------------ MODULE Mp2tpSer ------------------------------
(***************************************************************************)
(* The loop of the mp2tpser program (src/main.cpp): it reads a stream in   *)
(* blocks of N bytes, has the parser of module TSParser frame each of them *)
(* in strict mode, reports what the parser rejects, and stops at the end   *)
(* of the input or once enough packets were seen.  The caller of TSParser  *)
(* is this loop here, so minRead is N.                                     *)
(***************************************************************************)
EXTENDS TSParser

CONSTANT Limits     \* arguments of -n; 0 stands for no limit

ASSUME LimitsAssumption == Limits \subseteq Nat

VARIABLES
    app,        \* where the loop is
    limit,      \* -n
    errors,     \* values of bytesRead a "Parsing error" was printed with
    status      \* what main returns, once it has

appVars == <<app, limit, errors, status>>
allVars == <<vars, appVars>>

\* Mutant: the limit is met, or missed.
Bug_CanStop == limit # 0 /\ Len(packets) = limit

\* canStop(decoder->packetCount(), limit)
CanStop == limit # 0 /\ Len(packets) > limit

-----------------------------------------------------------------------------
AppInit ==
    /\ Init
    /\ minRead = N
    /\ app = "start"
    /\ limit \in Limits
    /\ errors = {}
    /\ status = "none"

\* decoder->setPacketSize(packetSize)
Start(sz) ==
    /\ app = "start"
    /\ SetPacketSize(sz)
    /\ app' = "reading"
    /\ UNCHANGED <<limit, errors, status>>

\* The condition of the loop, then its read and its call of parse.
ReadBlock ==
    /\ app = "reading"
    /\ Call(N, TRUE)
    /\ app' = "parsing"
    /\ UNCHANGED <<limit, errors, status>>

EndOfInput ==
    /\ app = "reading"
    /\ ~more
    /\ app' = "exit"
    /\ status' = "ok"
    /\ UNCHANGED vars
    /\ UNCHANGED <<limit, errors>>

Parsing ==
    /\ app = "parsing"
    /\ Parse
    /\ UNCHANGED appVars

\* Mutant: any block that is not accepted ends the program.
Bug_RejectAny ==
    /\ app = "parsing"
    /\ pc = "idle"
    /\ ~result
    /\ app' = "exit"
    /\ status' = "rejected"
    /\ UNCHANGED vars
    /\ UNCHANGED <<limit, errors>>

\* Lines 107-112: "... is not a valid MPEG-2 TS file."
Reject ==
    /\ app = "parsing"
    /\ pc = "idle"
    /\ ~result
    /\ read = N
    /\ app' = "exit"
    /\ status' = "rejected"
    /\ UNCHANGED vars
    /\ UNCHANGED <<limit, errors>>

\* Lines 107-121 otherwise.
Continue ==
    /\ app = "parsing"
    /\ pc = "idle"
    /\ result \/ read # N
    /\ errors' = IF result THEN errors ELSE errors \cup {read}
    /\ IF CanStop THEN app' = "exit" /\ status' = "ok"
                  ELSE app' = "reading" /\ UNCHANGED status
    /\ UNCHANGED vars
    /\ UNCHANGED limit

AppNext ==
    \/ \E sz \in PacketSizes : Start(sz)
    \/ ReadBlock
    \/ EndOfInput
    \/ Parsing
    \/ Reject
    \/ Continue

\* One thread, which nothing it waits for can stop for ever: the input is a
\* file, or a pipe whose writer goes on until it closes it.
AppSpec == AppInit /\ [][AppNext]_allVars /\ WF_allVars(AppNext)

-----------------------------------------------------------------------------
\* The input was read to its end: the limit did not stop the loop before.
ReadToTheEnd == status = "ok" /\ ~CanStop

\* A defect-free stream of packets of TS_SIZE bytes is not rejected, and no
\* error is printed while it is read.  The exceptions are what the code does
\* when the stream ends where a block does, because the empty block that the
\* next read gives makes a strict parse() return false (line 108 of
\* tsprsr.cpp): one message then, and if the stream is that one block, the
\* program's refusal, bytesRead being N still.
AcceptsStreams ==
    Aligned /\ file.size # 0 /\ packetSize = TS_SIZE /\ file.size % TS_SIZE = 0 =>
        /\ status = "rejected" => file.size = N
        /\ errors \subseteq {file.size}
        /\ errors # {} => file.size % N = 0

\* What tsprsr.h lines 33-34 say of the value of parse() on a stream it frames:
\* such a stream is not refused.
NeverRejectsStream ==
    Aligned /\ file.size # 0 /\ packetSize = TS_SIZE /\ file.size % TS_SIZE = 0 =>
        status # "rejected"

\* A defect-free stream that was read to its end gave all its packets: as N is
\* a multiple of TS_SIZE, none waits in _buffer when the input ends.
GivesEveryPacket ==
    Aligned /\ packetSize = TS_SIZE /\ ReadToTheEnd => Len(packets) = file.size \div TS_SIZE

\* The stream is made of packets with a time code before each of them (AVCHD,
\* "m2ts"): packetSize bytes apart, the first byte of the time code being no
\* sync byte, and the others and the payload being anything.
TimeCode == packetSize - TS_SIZE
AVCHD ==
    /\ packetSize > TS_SIZE
    /\ \A k \in 0..file.size :
          /\ k * packetSize \notin file.sync
          /\ k * packetSize + TimeCode < file.size => k * packetSize + TimeCode \in file.sync

\* A stream with time codes that was read to its end gave every packet, the
\* last one perhaps excepted, in order and from its first byte: skipping a
\* time code at a time (line 62 of tsprsr.cpp) never loses the packets, as the
\* array's size is a multiple of a time code's and so is the distance of two
\* packets, so that a block never begins inside a time code.
AVCHDGivesAllButLast ==
    AVCHD /\ packetSize % TimeCode = 0 /\ N % TimeCode = 0 =>
        /\ \A m \in 1..Len(packets) : packets[m][1] = (m - 1) * packetSize + TimeCode
        /\ ReadToTheEnd => Len(packets) + 1 >= file.size \div packetSize

\* What the program's -s option and the parser's contract (tsprsr.h lines
\* 22-25) promise of such a stream: all its packets reach onPacket.
AVCHDGivesEveryPacket ==
    AVCHD /\ packetSize % TimeCode = 0 /\ N % TimeCode = 0 /\ ReadToTheEnd =>
        Len(packets) = file.size \div packetSize

\* The loop goes past the limit by no more than what one block can hold, a
\* packet that waited in _buffer included, and does not stop short of it.
StopsAtLimit ==
    /\ limit # 0 => Len(packets) <= limit + N \div TS_SIZE + 1
    /\ status = "ok" /\ more => Len(packets) > limit

\* The program ends, whatever the input.
Terminates == <>(app = "exit")
=============================================================================
