--------------------------- MODULE Mp2tpSerProofs ---------------------------
(***************************************************************************)
(* Proofs about Mp2tpSer, for every stream, limit and block size, on top   *)
(* of those about the parser: the program is a caller of it.               *)
(***************************************************************************)
EXTENDS Mp2tpSer, TSParserProofs

\* The parser works when the loop is in its call of parse, and at no other time.
CallInv ==
    /\ minRead = N
    /\ app \in {"start", "reading", "parsing", "exit"}
    /\ app # "parsing" => pc = "idle"
    /\ app = "start" => packets = <<>> /\ read = 0
    /\ limit \in Nat

\* A new program is a new parser and caller.
LEMMA CallInit == AppInit => Init /\ CallInv
BY LimitsAssumption DEF AppInit, Init, CallInv

\* A step of the program is one of the parser and its caller, or neither's.
LEMMA StepOfParser ==
    ASSUME TypeInv, CallInv, [AppNext]_allVars
    PROVE  [Next]_vars
<1>1. N \in minRead..N
    BY SizesAssumption DEF CallInv
<1>2. ASSUME NEW sz \in PacketSizes, Start(sz) PROVE [Next]_vars
    BY <1>2 DEF Start, Next
<1>3. CASE ReadBlock
    BY <1>1, <1>3 DEF ReadBlock, Next
<1>4. CASE Parsing
    BY <1>4 DEF Parsing, Next
<1>5. CASE EndOfInput \/ Reject \/ Continue \/ UNCHANGED allVars
    BY <1>5 DEF EndOfInput, Reject, Continue, allVars
<1> QED BY <1>2, <1>3, <1>4, <1>5 DEF AppNext

\* What the turns of parse() leave alone.
LEMMA ParseKeeps ==
    ASSUME Parse
    PROVE  UNCHANGED <<file, minRead, read, more, len, strict, packetSize>> /\ pc # "idle"
BY DEF Parse, Enter, Skip, DeliverInPlace, DeliverBuffered, Carry, Return, callerVars

\* Every step keeps where the loop and the parser are.
LEMMA CallKept ==
    ASSUME CallInv, [AppNext]_allVars
    PROVE  CallInv'
<1>1. ASSUME NEW sz \in PacketSizes, Start(sz) PROVE CallInv'
    BY <1>1 DEF Start, SetPacketSize, callerVars, CallInv
<1>2. CASE ReadBlock
    BY <1>2 DEF ReadBlock, Call, CallInv
<1>3. CASE Parsing
    BY <1>3, ParseKeeps DEF Parsing, appVars, CallInv
<1>4. CASE EndOfInput \/ Reject \/ Continue
    BY <1>4 DEF EndOfInput, Reject, Continue, CallInv, vars
<1>5. CASE UNCHANGED allVars
    BY <1>5 DEF allVars, appVars, vars, CallInv
<1> QED BY <1>1, <1>2, <1>3, <1>4, <1>5 DEF AppNext

\* The program's parser is the one of TSParser: it keeps its type and frames packets
\* as proved there, and so on for whatever is an invariant of that specification.
BaseInv == NoLossInv /\ VerdictInv /\ CallInv

LEMMA BaseInit == AppInit => BaseInv
BY CallInit, NoLossInit, VerdictInit DEF BaseInv

LEMMA BaseStep ==
    ASSUME BaseInv, [AppNext]_allVars
    PROVE  BaseInv'
<1>1. NoLossInv /\ TypeInv /\ VerdictInv /\ CallInv
    BY DEF BaseInv, NoLossInv
<1>2. [Next]_vars
    BY <1>1, StepOfParser
<1> QED BY <1>1, <1>2, NoLossStep, VerdictStep, CallKept DEF BaseInv
-----------------------------------------------------------------------------
(***************************************************************************)
(* The limit.                                                              *)
(***************************************************************************)

\* How far parse() is in its block.
Reached == IF i < len THEN i ELSE len

\* A packet may have been handed over from _buffer.
Ahead == IF i < len /\ Len(buffer) > 0 THEN 0 ELSE TS_SIZE

\* What parse() was given beyond the limit it has handed over, by bytes.
LimitInv ==
    /\ status = "ok" => app = "exit" /\ (more => CanStop)
    /\ limit # 0 =>
         /\ app \in {"start", "reading"} \/ pc = "enter" => Len(packets) <= limit
         /\ pc = "scan" => Given <= TS_SIZE * limit + Reached + Ahead
         /\ pc = "idle" => Given <= TS_SIZE * limit + N + TS_SIZE
    /\ pc = "enter" => i = 0

\* The bound on the packets from that on the bytes.
LEMMA Quotient ==
    ASSUME NEW d \in Nat, d > 0, NEW n \in Nat, NEW p \in Nat, NEW l \in Nat,
           d * p <= d * l + n + d
    PROVE  p <= l + n \div d + 1
<1> DEFINE q == n \div d
<1>1. q \in Nat /\ n < d * (q + 1)
    OBVIOUS
<1> HIDE DEF q
<1>2. d * p < d * l + d * (q + 1) + d
    BY <1>1
<1>3. d * l + d * (q + 1) + d = d * (l + q + 2)
    BY <1>1
<1>4. d * p < d * (l + q + 2)
    BY <1>1, <1>2, <1>3
<1>5. p < l + q + 2
    <2>1. SUFFICES ASSUME p >= l + q + 2 PROVE FALSE
        BY <1>1
    <2>2. \A a, b \in Nat : a >= b => d * a >= d * b
        OBVIOUS
    <2> QED BY <1>1, <1>4, <2>1, <2>2
<1> QED BY <1>1, <1>5 DEF q

\* Sums of natural numbers.
LEMMA Below ==
    ASSUME NEW m \in Nat, NEW a \in Nat, NEW b \in Nat
    PROVE  /\ \A g \in Nat : g <= m => g <= m + a + b
           /\ \A g, c, d \in Nat : c <= a /\ d <= b /\ g <= m + c + d => g <= m + a + b
OBVIOUS

\* The turns of parse() keep what it has handed over behind what it has reached.
LEMMA LimitParse ==
    ASSUME TypeInv, CallInv, limit # 0, LimitInv, Parse, limit' = limit
    PROVE  /\ pc' = "scan" => Given' <= TS_SIZE * limit + Reached' + Ahead'
           /\ pc' = "idle" => Given' <= TS_SIZE * limit + N + TS_SIZE
           /\ pc' # "enter"
<1>0. TypeOK /\ Ready
    BY DEF TypeInv
<1>1. /\ TS_SIZE \in Nat /\ TS_SIZE > 0 /\ N \in Nat /\ limit \in Nat
      /\ Given \in Nat /\ i \in Nat /\ len \in Nat /\ len <= N /\ len' = len
      /\ Len(buffer) \in Nat /\ TS_SIZE * limit \in Nat
    <2>1. TS_SIZE \in Nat /\ limit \in Nat
        BY <1>0, TypeFacts DEF CallInv
    <2>2. TS_SIZE * limit \in Nat
        BY <2>1
    <2> QED BY <1>0, <2>1, <2>2, TypeFacts, GivenFacts, ParseKeeps
<1> DEFINE M == TS_SIZE * limit
<1>2. M \in Nat
    BY <1>1
<1>3. pc = "enter" => Given <= M
    <2> SUFFICES ASSUME pc = "enter" PROVE Given <= M
        OBVIOUS
    <2>1. Len(packets) <= limit /\ Len(packets) \in Nat
        BY <1>0, GivenFacts DEF LimitInv, TypeInv
    <2> QED BY <1>1, <2>1 DEF Given
<1>4. pc = "scan" => Given <= M + Reached + Ahead
    BY DEF LimitInv
<1> HIDE DEF M
<1>5. CASE Enter
    <2>1. pc = "enter" /\ pc' = "scan" /\ packets' = packets /\ i = 0
        BY <1>5 DEF Enter, LimitInv
    <2>2. Given' = Given
        BY <2>1 DEF Given
    <2>3. i' \in Nat
        <3>1. CASE Len(buffer) \in 1..(TS_SIZE - 1)
            BY <1>1, <1>5, <3>1 DEF Enter
        <3>2. CASE Len(buffer) \notin 1..(TS_SIZE - 1)
            BY <1>1, <1>5, <3>2 DEF Enter
        <3> QED BY <3>1, <3>2
    <2>4. Reached' \in Nat /\ Ahead' \in Nat
        BY <1>1, <2>3 DEF Reached, Ahead
    <2>5. Given' <= M + Reached' + Ahead'
        <3>1. Given' \in Nat /\ Given' <= M
            BY <1>1, <1>3, <2>1, <2>2
        <3> QED BY <1>2, <2>4, <3>1, Below
    <2> QED BY <2>1, <2>5 DEF M
<1>6. CASE Skip
    <2>1. i' \in Nat /\ i' >= i /\ buffer' = buffer /\ packets' = packets /\ pc' = pc /\ pc = "scan" /\ i < len
        BY <1>0, <1>6, TypeFacts DEF Skip
    <2>2. Given' = Given
        BY <2>1 DEF Given
    <2>3. Reached \in Nat /\ Ahead \in Nat /\ Reached' \in Nat /\ Ahead' \in Nat
        BY <1>1, <2>1 DEF Reached, Ahead
    <2>4. Reached' >= Reached /\ Ahead' >= Ahead
        <3>1. CASE i' < len
            BY <1>1, <2>1, <3>1 DEF Reached, Ahead
        <3>2. CASE ~(i' < len)
            BY <1>1, <2>1, <3>2 DEF Reached, Ahead
        <3> QED BY <3>1, <3>2
    <2>5. Given' <= M + Reached' + Ahead'
        <3>1. Given' \in Nat /\ Given' <= M + Reached + Ahead
            BY <1>1, <1>4, <2>1, <2>2
        <3> QED BY <1>2, <2>3, <2>4, <3>1, Below
    <2> QED BY <2>1, <2>5 DEF M
<1>7. CASE DeliverInPlace
    <2>1. /\ buffer = <<>> /\ buffer' = buffer /\ i' = i + TS_SIZE /\ i + TS_SIZE <= len
          /\ pc' = pc /\ pc = "scan" /\ i < len /\ packets' = Append(packets, Bytes(i, TS_SIZE))
        BY <1>7 DEF DeliverInPlace, Fits
    <2>2. Bytes(i, TS_SIZE) \in Seq(Int)
        BY <1>0, <1>1, <2>1, BytesType DEF TypeOK
    <2>3. Given' = Given + TS_SIZE
        BY <2>1, <2>2, GivenFacts
    <2>4. Reached = i /\ Ahead = TS_SIZE /\ Reached' = i + TS_SIZE /\ Ahead' = TS_SIZE
        BY <1>1, <2>1 DEF Reached, Ahead
    <2> QED BY <1>1, <1>2, <1>4, <2>1, <2>3, <2>4 DEF M
<1>8. CASE DeliverBuffered
    <2>1. /\ Len(buffer) > 0 /\ buffer' = <<>> /\ i' = i /\ pc' = pc /\ pc = "scan" /\ i < len
          /\ packets' = Append(packets, SubSeq(buffer, 1, TS_SIZE))
        BY <1>1, <1>8 DEF DeliverBuffered
    <2>2. SubSeq(buffer, 1, TS_SIZE) \in Seq(Int)
        BY <1>0, <1>1, <2>1, TypeFacts DEF Ready
    <2>3. Given' = Given + TS_SIZE
        BY <2>1, <2>2, GivenFacts
    <2>4. Reached = i /\ Ahead = 0 /\ Reached' = i /\ Ahead' = TS_SIZE
        BY <1>1, <2>1 DEF Reached, Ahead
    <2> QED BY <1>1, <1>2, <1>4, <2>1, <2>3, <2>4 DEF M
<1>9. CASE Carry
    <2>1. i' = len /\ packets' = packets /\ pc' = pc /\ pc = "scan" /\ i < len
        BY <1>9 DEF Carry
    <2>2. Given' = Given
        BY <2>1 DEF Given
    <2>3. Reached' = len /\ Ahead' = TS_SIZE
        BY <1>1, <2>1 DEF Reached, Ahead
    <2>4. Reached <= len /\ Ahead <= TS_SIZE /\ Reached \in Nat /\ Ahead \in Nat
        BY <1>1, <2>1 DEF Reached, Ahead
    <2> QED BY <1>1, <1>2, <1>4, <2>1, <2>2, <2>3, <2>4 DEF M
<1>10. CASE Return
    <2>1. packets' = packets /\ pc = "scan" /\ pc' = "idle" /\ i >= len
        BY <1>10 DEF Return
    <2>2. Given' = Given
        BY <2>1 DEF Given
    <2>3. Reached = len /\ Ahead = TS_SIZE
        BY <1>1, <2>1 DEF Reached, Ahead
    <2> QED BY <1>1, <1>2, <1>4, <2>1, <2>2, <2>3 DEF M
<1> QED BY <1>5, <1>6, <1>7, <1>8, <1>9, <1>10 DEF Parse

\* A new program has not reached its limit.
LEMMA LimitInit == AppInit => LimitInv
<1> SUFFICES ASSUME AppInit PROVE LimitInv
    OBVIOUS
<1>1. pc = "idle" /\ packets = <<>> /\ limit \in Nat /\ status = "none"
    BY LimitsAssumption DEF AppInit, Init
<1>2. TS_SIZE \in Nat /\ N \in Nat
    BY SizesAssumption
<1>3. Len(packets) = 0 /\ TS_SIZE * limit \in Nat
    BY <1>1, <1>2
<1>4. Given = 0
    BY <1>2, <1>3 DEF Given
<1> QED BY <1>1, <1>2, <1>3, <1>4 DEF LimitInv

\* Every step of the program keeps it.
LEMMA LimitStep ==
    ASSUME TypeInv, CallInv, LimitInv, [AppNext]_allVars
    PROVE  LimitInv'
<1>1. /\ TS_SIZE \in Nat /\ N \in Nat /\ limit \in Nat /\ Len(packets) \in Nat /\ Given \in Nat
      /\ TS_SIZE * limit \in Nat
    <2>1. TS_SIZE \in Nat /\ limit \in Nat
        BY SizesAssumption DEF CallInv
    <2> QED BY <2>1, SizesAssumption, GivenFacts
<1>2. Len(packets) <= limit => Given <= TS_SIZE * limit + N + TS_SIZE
    BY <1>1 DEF Given
<1>3. ASSUME NEW sz \in PacketSizes, Start(sz) PROVE LimitInv'
    <2>1. /\ packets' = packets /\ limit' = limit /\ status' = status /\ app' = "reading"
          /\ pc' = "idle" /\ app = "start"
        BY <1>3 DEF Start, SetPacketSize
    <2>2. Given' = Given /\ Len(packets') = Len(packets)
        BY <2>1 DEF Given
    <2> QED BY <1>1, <1>2, <2>1, <2>2 DEF LimitInv
<1>4. CASE ReadBlock
    <2>1. /\ packets' = packets /\ limit' = limit /\ status' = status /\ app' = "parsing"
          /\ pc' = "enter" /\ i' = 0 /\ app = "reading"
        BY <1>4 DEF ReadBlock, Call
    <2>2. Len(packets') = Len(packets)
        BY <2>1
    <2> QED BY <2>1, <2>2 DEF LimitInv
<1>5. CASE EndOfInput
    <2>1. /\ packets' = packets /\ limit' = limit /\ status' = "ok" /\ app' = "exit"
          /\ pc' = pc /\ app = "reading" /\ more' = more /\ ~more /\ pc = "idle" /\ i' = i
        BY <1>5 DEF EndOfInput, vars, CallInv
    <2>2. Given' = Given /\ Len(packets') = Len(packets)
        BY <2>1 DEF Given
    <2> QED BY <1>1, <1>2, <2>1, <2>2 DEF LimitInv
<1>6. CASE Parsing
    <2>1. /\ limit' = limit /\ status' = status /\ app' = "parsing" /\ app = "parsing" /\ Parse
        BY <1>6 DEF Parsing, appVars
    <2>2. status' # "ok"
        BY <2>1 DEF LimitInv
    <2>3. ASSUME limit # 0
          PROVE  /\ pc' = "scan" => Given' <= TS_SIZE * limit + Reached' + Ahead'
                 /\ pc' = "idle" => Given' <= TS_SIZE * limit + N + TS_SIZE
        BY <2>1, <2>3, LimitParse
    <2>4. pc' # "enter"
        BY <2>1 DEF Parse, Enter, Skip, DeliverInPlace, DeliverBuffered, Carry, Return
    <2> QED BY <2>1, <2>2, <2>3, <2>4 DEF LimitInv
<1>7. CASE Reject
    <2>1. /\ packets' = packets /\ limit' = limit /\ status' # "ok" /\ app' = "exit"
          /\ pc' = "idle" /\ pc = "idle"
        BY <1>7 DEF Reject, vars
    <2>2. Given' = Given
        BY <2>1 DEF Given
    <2> QED BY <2>1, <2>2 DEF LimitInv
<1>8. CASE Continue
    <2>1. /\ packets' = packets /\ limit' = limit /\ more' = more /\ app = "parsing"
          /\ pc' = "idle" /\ pc = "idle" /\ i' = i
          /\ IF CanStop THEN app' = "exit" /\ status' = "ok"
                        ELSE app' = "reading" /\ status' = status
        BY <1>8 DEF Continue, vars
    <2>2. Given' = Given /\ (CanStop' <=> CanStop)
        BY <2>1 DEF Given, CanStop
    <2>3. status # "ok"
        BY <2>1 DEF LimitInv
    <2>4. CASE CanStop
        BY <2>1, <2>2, <2>4 DEF LimitInv
    <2>5. CASE ~CanStop
        <3>1. limit # 0 => Len(packets) <= limit
            BY <1>1, <2>5 DEF CanStop
        <3>2. app' = "reading" /\ status' # "ok"
            BY <2>1, <2>3, <2>5
        <3> QED BY <2>1, <2>2, <3>1, <3>2 DEF LimitInv
    <2> QED BY <2>4, <2>5
<1>9. CASE UNCHANGED allVars
    BY <1>9 DEF allVars, appVars, vars, LimitInv, Given, Reached, Ahead, CanStop
<1> QED BY <1>3, <1>4, <1>5, <1>6, <1>7, <1>8, <1>9 DEF AppNext

\* For every stream, block size and limit: what onPacket was given beyond the limit are
\* the packets of one block and one that waited in _buffer; and the loop does not stop
\* before the end of the input unless the limit was passed.
THEOREM StopsInTime == AppSpec => []StopsAtLimit
<1>1. BaseInv /\ LimitInv => StopsAtLimit
    <2> SUFFICES ASSUME BaseInv, LimitInv PROVE StopsAtLimit
        OBVIOUS
    <2>1. TypeInv /\ CallInv
        BY DEF BaseInv, NoLossInv
    <2>2. ASSUME limit # 0 PROVE Len(packets) <= limit + N \div TS_SIZE + 1
        <3>1. /\ TS_SIZE \in Nat /\ TS_SIZE > 0 /\ N \in Nat /\ limit \in Nat
              /\ Len(packets) \in Nat /\ i \in Nat /\ len \in Nat /\ len <= N
            BY <2>1, TypeFacts, GivenFacts DEF CallInv, TypeInv
        <3>2. Reached + Ahead <= N + TS_SIZE /\ Reached + Ahead \in Nat
            BY <3>1 DEF Reached, Ahead
        <3>3. TS_SIZE * limit \in Nat /\ Given \in Nat
            BY <2>1, <3>1, GivenFacts
        <3>4. CASE pc = "enter"
            <4>1. Len(packets) <= limit
                BY <2>2, <3>4 DEF LimitInv
            <4>2. N \div TS_SIZE \in Nat
                BY <3>1
            <4> QED BY <3>1, <4>1, <4>2
        <3>5. CASE pc # "enter"
            <4>1. Given <= TS_SIZE * limit + N + TS_SIZE
                <5>1. pc \in {"idle", "scan"}
                    BY <2>1, <3>5 DEF TypeInv, TypeOK
                <5>2. CASE pc = "idle"
                    BY <2>2, <5>2 DEF LimitInv
                <5>3. CASE pc = "scan"
                    <6>1. Given <= TS_SIZE * limit + Reached + Ahead
                        BY <2>2, <5>3 DEF LimitInv
                    <6>2. \A a, b \in Nat : a <= N + TS_SIZE => b + a <= b + N + TS_SIZE
                        BY <3>1
                    <6> QED BY <3>1, <3>2, <3>3, <6>1, <6>2 DEF Reached, Ahead
                <5> QED BY <5>1, <5>2, <5>3
            <4> QED BY <3>1, <4>1, Quotient DEF Given
        <3> QED BY <3>4, <3>5
    <2>3. ASSUME status = "ok", more PROVE Len(packets) > limit
        BY <2>3 DEF LimitInv, CanStop
    <2> QED BY <2>2, <2>3 DEF StopsAtLimit
<1>2. BaseInv /\ LimitInv /\ [AppNext]_allVars => (BaseInv /\ LimitInv)'
    BY BaseStep, LimitStep DEF BaseInv, NoLossInv
<1> QED BY BaseInit, LimitInit, <1>1, <1>2, PTL DEF AppSpec
-----------------------------------------------------------------------------
(***************************************************************************)
(* Blocks that hold a whole number of packets, as 188 * 7 bytes do: on an  *)
(* aligned stream nothing waits in _buffer before the last block.          *)
(***************************************************************************)
WholeBlocks ==
    /\ \E k \in Nat : N = TS_SIZE * k
    /\ N >= 2 * TS_SIZE - 1

\* What was read are whole blocks until the read that meets the end, and after it if it
\* gave nothing.
ReadInv ==
    /\ ~more => read = file.size
    /\ more \/ len = 0 => \E k \in Nat : read = N * k
    /\ app = "parsing" => (more <=> len = N)

\* The last packet is the only one that may be incomplete.
AllButRest == ~more /\ Given <= read /\ read < Given + TS_SIZE

EveryInv ==
    Aligned =>
        /\ pc = "idle" => (more /\ Len(buffer) = 0 /\ Given = read) \/ AllButRest
        /\ pc = "enter" => Len(buffer) = 0 /\ Given = base /\ i = 0
        /\ pc = "scan" => \/ Len(buffer) = 0 /\ Given = base + i /\ i <= len
                          \/ i = len /\ AllButRest

\* What was refused, or reported, is an empty read at the end of whole blocks.
RefusalInv ==
    /\ app = "start" => errors = {} /\ status = "none"
    /\ Aligned /\ packetSize = TS_SIZE =>
         /\ \A e \in errors : e = file.size /\ \E k \in Nat : file.size = N * k
         /\ status = "rejected" => file.size = N

WholeInv == BaseInv /\ LimitInv /\ ReadInv /\ EveryInv /\ RefusalInv

LEMMA BlockFacts ==
    ASSUME BaseInv
    PROVE  /\ NoLossInv /\ VerdictInv /\ CallInv /\ TypeInv /\ TypeOK
           /\ TS_SIZE \in Nat /\ TS_SIZE > 0 /\ N \in Nat /\ N > 0 /\ file.size \in Nat
           /\ read \in Nat /\ read <= file.size /\ len \in Nat /\ len <= N /\ i \in Nat
           /\ Len(buffer) \in Nat /\ Given \in Nat /\ Len(packets) \in Nat
           /\ (Aligned /\ WholeBlocks => Clean)
<1>1. NoLossInv /\ VerdictInv /\ CallInv /\ TypeInv /\ TypeOK
    BY DEF BaseInv, NoLossInv, TypeInv
<1>2. Aligned /\ WholeBlocks => Clean
    BY <1>1 DEF CallInv, WholeBlocks, Clean
<1> QED BY <1>1, <1>2, TypeFacts, GivenFacts

\* A program that has read nothing.
LEMMA WholeInit == AppInit => WholeInv
<1> SUFFICES ASSUME AppInit PROVE WholeInv
    OBVIOUS
<1>1. BaseInv /\ LimitInv
    BY BaseInit, LimitInit
<1>2. /\ pc = "idle" /\ packets = <<>> /\ read = 0 /\ more = TRUE /\ buffer = <<>>
      /\ app = "start" /\ errors = {} /\ status = "none" /\ len = 0
    BY DEF AppInit, Init
<1>3. N \in Nat /\ TS_SIZE \in Nat
    BY SizesAssumption
<1>4. N * 0 = 0 /\ Given = 0
    BY <1>2, <1>3 DEF Given
<1>5. ReadInv
    BY <1>2, <1>4 DEF ReadInv
<1>6. EveryInv
    BY <1>2, <1>4 DEF EveryInv
<1> QED BY <1>1, <1>2, <1>5, <1>6 DEF WholeInv, RefusalInv

\* A read of N bytes, or of what is left.
LEMMA ReadStep ==
    ASSUME BaseInv, ReadInv, [AppNext]_allVars
    PROVE  ReadInv'
<1>0. N \in Nat /\ N > 0 /\ file.size \in Nat /\ read \in Nat /\ read <= file.size /\ CallInv
    BY BlockFacts
<1>1. CASE ReadBlock
    <2>1. /\ more /\ file' = file /\ read' = read + len' /\ more' = (len' = N)
          /\ len' = IF N <= file.size - read THEN N ELSE file.size - read
        BY <1>1 DEF ReadBlock, Call
    <2>2. PICK k \in Nat : read = N * k
        BY <2>1 DEF ReadInv
    <2>3. CASE len' = N
        <3>1. read' = N * (k + 1) /\ k + 1 \in Nat
            BY <1>0, <2>1, <2>2, <2>3
        <3> QED BY <2>1, <2>3, <3>1 DEF ReadInv
    <2>4. CASE len' # N
        <3>1. len' = file.size - read
            BY <2>1, <2>4
        <3>2. read' = file.size
            BY <1>0, <2>1, <3>1
        <3>3. ~more'
            BY <2>1, <2>4
        <3>4. len' = 0 => read' = N * k
            BY <1>0, <2>1, <2>2
        <3> QED BY <2>1, <2>2, <2>4, <3>2, <3>3, <3>4 DEF ReadInv
    <2> QED BY <2>3, <2>4
<1>2. ASSUME UNCHANGED <<file, read, more, len>>, app' = "parsing" => app = "parsing"
      PROVE  ReadInv'
    BY <1>2 DEF ReadInv
<1>3. ASSUME NEW sz \in PacketSizes, Start(sz) PROVE ReadInv'
    BY <1>2, <1>3 DEF Start, SetPacketSize, callerVars
<1>4. CASE Parsing
    BY <1>2, <1>4, ParseKeeps DEF Parsing
<1>5. CASE EndOfInput \/ Reject \/ Continue
    BY <1>2, <1>5 DEF EndOfInput, Reject, Continue, vars
<1>6. CASE UNCHANGED allVars
    BY <1>2, <1>6 DEF allVars, appVars, vars
<1> QED BY <1>1, <1>3, <1>4, <1>5, <1>6 DEF AppNext

\* Two multiples of a number are at least that number apart.
LEMMA NextMultiple ==
    ASSUME NEW d \in Nat, d > 0, NEW p \in Nat, NEW m \in Nat, d * p < d * m
    PROVE  d * p + d <= d * m
<1>1. p < m
    <2>1. \A a, b \in Nat : a >= b => d * a >= d * b
        OBVIOUS
    <2>2. d * p \in Nat /\ d * m \in Nat
        OBVIOUS
    <2> QED BY <2>1, <2>2
<1>2. PICK q \in Nat : m = p + 1 + q
    <2>1. m - p - 1 \in Nat /\ m = p + 1 + (m - p - 1)
        BY <1>1
    <2> QED BY <2>1
<1>3. d * m = d * p + d + d * q /\ d * q \in Nat /\ d * p \in Nat
    BY <1>2
<1> QED BY <1>3

\* If more is to come, a packet that begins in a block of whole packets ends in it.
LEMMA Contained ==
    ASSUME BaseInv, ReadInv, WholeBlocks, more, Given < read
    PROVE  Given + TS_SIZE <= read
<1>0. TS_SIZE \in Nat /\ TS_SIZE > 0 /\ Len(packets) \in Nat
    BY BlockFacts
<1>1. PICK k \in Nat : read = N * k
    BY DEF ReadInv
<1>2. PICK n \in Nat : N = TS_SIZE * n
    BY DEF WholeBlocks
<1>3. read = TS_SIZE * (n * k) /\ n * k \in Nat
    BY <1>0, <1>1, <1>2
<1> DEFINE m == n * k
<1> HIDE DEF m
<1>4. read = TS_SIZE * m /\ m \in Nat
    BY <1>3 DEF m
<1> QED BY <1>0, <1>4, NextMultiple DEF Given

\* On aligned streams, nothing waits.
LEMMA EveryStep ==
    ASSUME BaseInv, ReadInv, EveryInv, WholeBlocks, [AppNext]_allVars
    PROVE  EveryInv'
<1>0. /\ NoLossInv /\ CallInv /\ TypeInv /\ TypeOK
      /\ TS_SIZE \in Nat /\ TS_SIZE > 0 /\ N \in Nat /\ N > 0 /\ file.size \in Nat
      /\ read \in Nat /\ len \in Nat /\ len <= N /\ i \in Nat
      /\ Len(buffer) \in Nat /\ Given \in Nat
      /\ (Aligned => Clean)
    BY BlockFacts
<1>1. Aligned' => Aligned
    <2>1. file' = file
        BY DEF AppNext, Start, SetPacketSize, ReadBlock, Call, Parsing, Parse, Enter, Skip,
               DeliverInPlace, DeliverBuffered, Carry, Return, EndOfInput, Reject, Continue,
               callerVars, vars, allVars
    <2> QED BY <2>1 DEF Aligned
<1>2. CASE ~Aligned
    BY <1>1, <1>2 DEF EveryInv
<1>3. CASE Aligned
    <2>0. Clean
        BY <1>0, <1>3
    <2>1. ASSUME UNCHANGED <<read, more, len, buffer, packets, pc, i>> PROVE EveryInv'
        <3>1. Given' = Given
            BY <2>1 DEF Given
        <3> QED BY <1>3, <2>1, <3>1 DEF EveryInv, AllButRest, base
    <2>2. ASSUME NEW sz \in PacketSizes, Start(sz) PROVE EveryInv'
        BY <2>1, <2>2 DEF Start, SetPacketSize, callerVars
    <2>3. CASE EndOfInput \/ Reject \/ Continue \/ UNCHANGED allVars
        BY <2>1, <2>3 DEF EndOfInput, Reject, Continue, allVars, vars
    <2>4. CASE ReadBlock
        <3>1. /\ pc = "idle" /\ pc' = "enter" /\ more /\ i' = 0 /\ read' = read + len'
              /\ buffer' = buffer /\ packets' = packets
              /\ len' = IF N <= file.size - read THEN N ELSE file.size - read
            BY <2>4 DEF ReadBlock, Call
        <3>2. Len(buffer) = 0 /\ Given = read
            BY <1>3, <3>1 DEF EveryInv, AllButRest
        <3>3. base' = read
            BY <1>0, <3>1 DEF base
        <3>4. Given' = Given /\ Len(buffer') = 0
            BY <3>1, <3>2 DEF Given
        <3> QED BY <3>1, <3>2, <3>3, <3>4 DEF EveryInv
    <2>5. CASE Parsing
        <3>0. Parse /\ UNCHANGED <<read, more, len>>
            BY <2>5, ParseKeeps DEF Parsing
        <3>1. base' = base /\ base \in Int /\ read = base + len
            BY <1>0, <3>0 DEF base
        <3>2. CASE Enter
            <4>1. pc = "enter" /\ pc' = "scan" /\ packets' = packets
                BY <3>2 DEF Enter
            <4>2. Len(buffer) = 0 /\ Given = base /\ i = 0
                BY <1>3, <4>1 DEF EveryInv
            <4>3. i' = i /\ buffer' = buffer
                BY <3>2, <4>2 DEF Enter
            <4>4. Given' = Given
                BY <4>1 DEF Given
            <4> QED BY <1>0, <3>0, <3>1, <4>1, <4>2, <4>3, <4>4 DEF EveryInv
        <3>3. ~Skip
            BY <1>0, <2>0, ScanAtSync DEF Skip
        <3>4. CASE DeliverInPlace
            <4>1. /\ pc = "scan" /\ pc' = pc /\ i < len /\ i + TS_SIZE <= len /\ i' = i + TS_SIZE
                  /\ packets' = Append(packets, Bytes(i, TS_SIZE)) /\ buffer' = buffer
                BY <3>4 DEF DeliverInPlace, Fits
            <4>2. Len(buffer) = 0 /\ Given = base + i
                BY <1>0, <1>3, <4>1 DEF EveryInv
            <4>3. Bytes(i, TS_SIZE) \in Seq(Int)
                BY <1>0, <4>1, BytesType DEF TypeOK
            <4>4. Given' = Given + TS_SIZE
                BY <1>0, <4>1, <4>3, GivenFacts
            <4>5. Given' = base' + i' /\ i' <= len' /\ Len(buffer') = 0
                BY <1>0, <3>0, <3>1, <4>1, <4>2, <4>4
            <4> QED BY <4>1, <4>5 DEF EveryInv
        <3>5. ~DeliverBuffered
            <4>1. SUFFICES ASSUME DeliverBuffered PROVE FALSE
                OBVIOUS
            <4>2. pc = "scan" /\ i < len /\ buffer # <<>>
                BY <4>1 DEF DeliverBuffered
            <4>3. Len(buffer) = 0
                BY <1>0, <1>3, <4>2 DEF EveryInv
            <4>4. buffer \in Seq(Int)
                BY <1>0 DEF TypeOK
            <4> QED BY <4>2, <4>3, <4>4
        <3>6. CASE Carry
            <4>1. /\ pc = "scan" /\ pc' = pc /\ i < len /\ i + TS_SIZE > len /\ i' = len
                  /\ packets' = packets
                BY <1>0, <3>6 DEF Carry, Fits
            <4>2. Given = base + i
                BY <1>0, <1>3, <4>1 DEF EveryInv
            <4>3. Given < read /\ read < Given + TS_SIZE
                BY <1>0, <3>1, <4>1, <4>2
            <4>4. ~more
                <5>1. SUFFICES ASSUME more PROVE FALSE
                    OBVIOUS
                <5>2. Given + TS_SIZE <= read
                    BY <4>3, <5>1, Contained
                <5> QED BY <1>0, <4>3, <5>2
            <4>5. Given' = Given
                BY <4>1 DEF Given
            <4>6. AllButRest'
                BY <1>0, <3>0, <4>3, <4>4, <4>5 DEF AllButRest
            <4> QED BY <3>0, <4>1, <4>6 DEF EveryInv
        <3>7. CASE Return
            <4>1. pc = "scan" /\ pc' = "idle" /\ i >= len /\ packets' = packets /\ buffer' = buffer
                BY <3>7 DEF Return
            <4>2. Given' = Given
                BY <4>1 DEF Given
            <4>3. CASE Len(buffer) = 0 /\ Given = base + i /\ i <= len
                <5>1. Given = read
                    BY <1>0, <3>1, <4>1, <4>3
                <5>2. more \/ AllButRest
                    BY <1>0, <5>1 DEF AllButRest
                <5> QED BY <3>0, <4>1, <4>2, <4>3, <5>1, <5>2 DEF EveryInv, AllButRest
            <4>4. CASE AllButRest
                BY <3>0, <4>1, <4>2, <4>4 DEF EveryInv, AllButRest
            <4> QED BY <1>3, <4>1, <4>3, <4>4 DEF EveryInv
        <3> QED BY <3>0, <3>2, <3>3, <3>4, <3>5, <3>6, <3>7 DEF Parse
    <2> QED BY <2>2, <2>3, <2>4, <2>5 DEF AppNext
<1> QED BY <1>2, <1>3

\* What is refused or reported of an aligned stream is an empty read.
LEMMA RefusalStep ==
    ASSUME BaseInv, ReadInv, RefusalInv, WholeBlocks, [AppNext]_allVars
    PROVE  RefusalInv'
<1>0. /\ VerdictInv /\ CallInv /\ N \in Nat /\ N > 0 /\ len \in Nat /\ (Aligned => Clean)
    BY BlockFacts
<1>1. file' = file /\ (app # "start" => packetSize' = packetSize)
    BY DEF AppNext, Start, SetPacketSize, ReadBlock, Call, Parsing, Parse, Enter, Skip,
           DeliverInPlace, DeliverBuffered, Carry, Return, EndOfInput, Reject, Continue,
           callerVars, vars, allVars
<1>2. Aligned' <=> Aligned
    BY <1>1 DEF Aligned
<1>3. ASSUME Aligned, packetSize = TS_SIZE, app = "parsing", pc = "idle", ~result
      PROVE  read = file.size /\ \E k \in Nat : file.size = N * k
    <2>1. len = 0
        BY <1>0, <1>3 DEF VerdictInv
    <2>2. ~more
        BY <1>0, <1>3, <2>1 DEF ReadInv
    <2> QED BY <2>1, <2>2 DEF ReadInv
<1>4. ASSUME NEW sz \in PacketSizes, Start(sz) PROVE RefusalInv'
    <2>1. errors' = {} /\ status' = "none" /\ app' = "reading"
        BY <1>4 DEF Start, RefusalInv
    <2> QED BY <2>1 DEF RefusalInv
<1>5. ASSUME app # "start", app' # "start", errors' = errors, status' = status PROVE RefusalInv'
    BY <1>1, <1>2, <1>5 DEF RefusalInv
<1>6. CASE ReadBlock
    BY <1>5, <1>6 DEF ReadBlock
<1>7. CASE Parsing
    BY <1>5, <1>7 DEF Parsing, appVars
<1>8. CASE EndOfInput
    <2>1. app # "start" /\ app' = "exit" /\ errors' = errors /\ status' # "rejected"
        BY <1>8 DEF EndOfInput
    <2> QED BY <1>1, <1>2, <2>1 DEF RefusalInv
<1>9. CASE Reject
    <2>1. /\ app = "parsing" /\ pc = "idle" /\ ~result /\ read = N
          /\ app' = "exit" /\ errors' = errors
        BY <1>9 DEF Reject
    <2>2. Aligned /\ packetSize = TS_SIZE => file.size = N
        BY <1>3, <2>1
    <2> QED BY <1>1, <1>2, <2>1, <2>2 DEF RefusalInv
<1>10. CASE Continue
    <2>1. /\ app = "parsing" /\ pc = "idle" /\ app' # "start"
          /\ errors' = IF result THEN errors ELSE errors \cup {read}
          /\ status' # "rejected" \/ status' = status
        BY <1>10 DEF Continue
    <2>2. CASE result
        BY <1>1, <1>2, <2>1, <2>2 DEF RefusalInv
    <2>3. CASE ~result
        <3>1. Aligned /\ packetSize = TS_SIZE =>
                read = file.size /\ \E k \in Nat : file.size = N * k
            BY <1>3, <2>1, <2>3
        <3>2. errors' = errors \cup {read}
            BY <2>1, <2>3
        <3> QED BY <1>1, <1>2, <2>1, <3>1, <3>2 DEF RefusalInv
    <2> QED BY <2>2, <2>3
<1>11. CASE UNCHANGED allVars
    BY <1>1, <1>2, <1>11 DEF allVars, appVars, RefusalInv
<1> QED BY <1>4, <1>6, <1>7, <1>8, <1>9, <1>10, <1>11 DEF AppNext

\* All of it together.
LEMMA WholeStep ==
    ASSUME WholeBlocks, WholeInv, [AppNext]_allVars
    PROVE  WholeInv'
<1>1. TypeInv /\ CallInv
    BY BlockFacts DEF WholeInv
<1> QED BY <1>1, BaseStep, LimitStep, ReadStep, EveryStep, RefusalStep DEF WholeInv

\* A number between two multiples.
LEMMA QuotientIs ==
    ASSUME NEW d \in Nat, d > 0, NEW p \in Nat, NEW n \in Nat, d * p <= n, n < d * p + d
    PROVE  n \div d = p
<1> DEFINE q == n \div d
<1>1. q \in Nat /\ d * q <= n /\ n < d * q + d
    OBVIOUS
<1> HIDE DEF q
<1>2. d * p \in Nat /\ d * q \in Nat
    BY <1>1
<1>3. ~(d * p < d * q)
    <2>1. SUFFICES ASSUME d * p < d * q PROVE FALSE
        OBVIOUS
    <2>2. d * p + d <= d * q
        BY <1>1, <2>1, NextMultiple
    <2> QED BY <1>1, <1>2, <2>2
<1>4. ~(d * q < d * p)
    <2>1. SUFFICES ASSUME d * q < d * p PROVE FALSE
        OBVIOUS
    <2>2. d * q + d <= d * p
        BY <1>1, <2>1, NextMultiple
    <2> QED BY <1>1, <1>2, <2>2
<1>5. \A a, b \in Nat : a < b => d * a < d * b
    OBVIOUS
<1> QED BY <1>1, <1>2, <1>3, <1>4, <1>5 DEF q

LEMMA Remainder ==
    ASSUME NEW d \in Nat, d > 0, NEW p \in Nat
    PROVE  (d * p) % d = 0
<1> DEFINE n == d * p
<1>0. \A a \in Nat : a % d \in Nat /\ a = d * (a \div d) + (a % d)
    OBVIOUS
<1>1. n \in Nat
    OBVIOUS
<1>2. d * p <= n /\ n < d * p + d
    OBVIOUS
<1> HIDE DEF n
<1>3. n \div d = p
    BY <1>1, <1>2, QuotientIs
<1>4. n % d \in Nat /\ n = d * p + (n % d)
    BY <1>0, <1>1, <1>3
<1>5. n = d * p
    BY DEF n
<1>6. n % d = 0
    BY <1>1, <1>4, <1>5
<1> QED BY <1>6 DEF n

\* For every stream of packets without a defect that is read in whole blocks: at the end
\* of the input onPacket was given all of its packets.
THEOREM GivesAll == ASSUME WholeBlocks PROVE AppSpec => []GivesEveryPacket
<1>1. WholeInv => GivesEveryPacket
    <2> SUFFICES ASSUME WholeInv, Aligned, status = "ok", ~CanStop
                 PROVE  Len(packets) = file.size \div TS_SIZE
        BY DEF GivesEveryPacket, ReadToTheEnd
    <2>1. /\ CallInv /\ TS_SIZE \in Nat /\ TS_SIZE > 0 /\ Len(packets) \in Nat
          /\ file.size \in Nat
        BY BlockFacts DEF WholeInv
    <2>2. app = "exit" /\ ~more
        BY DEF WholeInv, LimitInv
    <2>3. pc = "idle"
        BY <2>1, <2>2 DEF CallInv
    <2>4. AllButRest /\ read = file.size
        BY <2>2, <2>3 DEF WholeInv, EveryInv, ReadInv
    <2> QED BY <2>1, <2>4, QuotientIs DEF AllButRest, Given
<1>2. WholeBlocks /\ WholeInv /\ [AppNext]_allVars => WholeInv'
    BY WholeStep
<1>3. ASSUME WholeBlocks PROVE AppSpec => []GivesEveryPacket
    <2>1. WholeInv /\ [AppNext]_allVars => WholeInv'
        BY <1>2, <1>3
    <2> QED BY WholeInit, <1>1, <2>1, PTL DEF AppSpec
<1> QED BY <1>3

\* No such stream is refused, nor anything of it reported, but at the end of a stream
\* that ends with a block, where the code does.
THEOREM AcceptsAll == ASSUME WholeBlocks PROVE AppSpec => []AcceptsStreams
<1>1. WholeInv => AcceptsStreams
    <2> SUFFICES ASSUME WholeInv, Aligned, packetSize = TS_SIZE
                 PROVE  /\ status = "rejected" => file.size = N
                        /\ errors \subseteq {file.size}
                        /\ errors # {} => file.size % N = 0
        BY DEF AcceptsStreams
    <2>1. N \in Nat /\ N > 0
        BY SizesAssumption
    <2>2. \A e \in errors : e = file.size /\ \E k \in Nat : file.size = N * k
        BY DEF WholeInv, RefusalInv
    <2>3. status = "rejected" => file.size = N
        BY DEF WholeInv, RefusalInv
    <2>4. errors # {} => file.size % N = 0
        BY <2>1, <2>2, Remainder
    <2> QED BY <2>2, <2>3, <2>4
<1>2. WholeBlocks /\ WholeInv /\ [AppNext]_allVars => WholeInv'
    BY WholeStep
<1>3. ASSUME WholeBlocks PROVE AppSpec => []AcceptsStreams
    <2>1. WholeInv /\ [AppNext]_allVars => WholeInv'
        BY <1>2, <1>3
    <2> QED BY WholeInit, <1>1, <2>1, PTL DEF AppSpec
<1> QED BY <1>3
-----------------------------------------------------------------------------
(***************************************************************************)
(* Streams with time codes.                                                *)
(***************************************************************************)
TimeCodes == AVCHD /\ packetSize % TimeCode = 0 /\ N % TimeCode = 0

\* Where time code k begins, and the packet after it.
Code(k) == k * packetSize
Packet(k) == Code(k) + TimeCode

Handed == Len(packets)

\* Between two blocks at p: nothing waits, or the beginning of a packet does.
Between(p) ==
    \/ Len(buffer) = 0 /\ p \in {Code(Handed), Packet(Handed)}
    \/ /\ Len(buffer) \in TimeCode..(TS_SIZE - 1) /\ buffer[1] = Packet(Handed)
       /\ p = Packet(Handed) + Len(buffer)

\* In a block: nothing waits; or a packet does that was completed with the first bytes
\* of the block; or one that began with the last.
Inside(p) ==
    \/ Len(buffer) = 0 /\ p \in {Code(Handed), Packet(Handed)} /\ i <= len
    \/ /\ Len(buffer) = TS_SIZE /\ buffer[1] = Packet(Handed) /\ i <= len
       /\ \/ p = Code(Handed + 1) /\ i + TimeCode <= TS_SIZE
          \/ p = Packet(Handed + 1) /\ i <= TS_SIZE
    \/ /\ Len(buffer) \in 1..(TS_SIZE - 1) /\ buffer[1] = Packet(Handed) /\ i = len
       /\ p = Packet(Handed) + Len(buffer)

\* The input has ended, and of what it holds at most one packet was not handed over.
Over == ~more /\ file.size < Code(Handed + 2)

HeadsInv == \A m \in 1..Handed : packets[m][1] = Packet(m - 1)

PlaceInv ==
    /\ pc = "idle" => (more /\ Between(read)) \/ Over
    /\ pc = "enter" => Between(base) /\ i = 0
    /\ pc = "scan" => Inside(base + i) \/ (i >= len /\ Over)

CodesInv ==
    /\ app = "start" => buffer = <<>> /\ more
    /\ TimeCodes => HeadsInv /\ PlaceInv

\* A number without a remainder is a multiple.
LEMMA Divides ==
    ASSUME NEW a \in Nat, NEW d \in Nat, d > 0, a % d = 0
    PROVE  \E t \in Nat : a = d * t
<1> DEFINE q == a \div d
<1>1. q \in Nat /\ a = d * q + (a % d)
    OBVIOUS
<1> HIDE DEF q
<1>2. d * q \in Nat
    BY <1>1
<1>3. a = d * q
    BY <1>1, <1>2
<1> QED BY <1>1, <1>3

\* The time codes are a packetSize apart.
LEMMA CodeFacts ==
    ASSUME TypeInv, TimeCodes, NEW k \in Nat
    PROVE  /\ TimeCode \in Nat /\ TimeCode > 0 /\ packetSize = TS_SIZE + TimeCode
           /\ Code(k) \in Nat /\ k <= Code(k)
           /\ Code(k + 1) = Packet(k) + TS_SIZE
           /\ Code(k + 2) = Packet(k + 1) + TS_SIZE
           /\ k + 1 \in Nat
<1>1. TS_SIZE \in Nat /\ TS_SIZE > 0 /\ packetSize \in Nat /\ packetSize > TS_SIZE
    BY TypeFacts DEF TypeInv, TimeCodes, AVCHD
<1>2. /\ TimeCode \in Nat /\ TimeCode > 0 /\ packetSize = TS_SIZE + TimeCode
    BY <1>1 DEF TimeCode
<1>3. \A p \in Nat : p > 0 => /\ k * p \in Nat /\ k <= k * p
                              /\ (k + 1) * p = k * p + p /\ (k + 2) * p = k * p + p + p
    OBVIOUS
<1> DEFINE a == k * packetSize
<1>4. /\ a \in Nat /\ k <= a
      /\ (k + 1) * packetSize = a + packetSize /\ (k + 2) * packetSize = a + packetSize + packetSize
    BY <1>1, <1>3
<1> HIDE DEF a
<1>5. /\ a + packetSize = a + TimeCode + TS_SIZE
      /\ a + packetSize + packetSize = a + packetSize + TimeCode + TS_SIZE
    BY <1>1, <1>2, <1>4
<1> QED BY <1>2, <1>4, <1>5 DEF Code, Packet, a

\* What the stream has at the places where parse() looks.
LEMMA CodeSync ==
    ASSUME TypeInv, TimeCodes, NEW k \in Nat
    PROVE  /\ Code(k) < file.size => Code(k) \notin file.sync
           /\ Packet(k) < file.size => Packet(k) \in file.sync
<1>1. Code(k) \in Nat /\ k <= Code(k) /\ TimeCode \in Nat /\ file.size \in Nat
    BY CodeFacts, TypeFacts DEF TypeInv
<1>2. Packet(k) \in Nat /\ Packet(k) >= Code(k)
    BY <1>1 DEF Packet
<1>3. Code(k) < file.size \/ Packet(k) < file.size => k \in 0..file.size
    BY <1>1, <1>2
<1> QED BY <1>3 DEF TimeCodes, AVCHD, Code, Packet

\* A block that is not the last one does not end inside a time code, nor nearer to one
\* than another would be long.
LEMMA CodeWhole ==
    ASSUME BaseInv, ReadInv, TimeCodes, more, NEW k \in Nat
    PROVE  /\ Code(k) < read => Packet(k) <= read
           /\ Packet(k) < read => Packet(k) + TimeCode <= read
<1>1. TypeInv /\ N \in Nat /\ read \in Nat
    BY BlockFacts
<1>2. /\ TimeCode \in Nat /\ TimeCode > 0 /\ packetSize = TS_SIZE + TimeCode /\ Code(k) \in Nat
      /\ packetSize \in Nat
    BY <1>1, CodeFacts, TypeFacts DEF TypeInv
<1>3. PICK j \in Nat : read = N * j
    BY DEF ReadInv
<1> DEFINE c == TimeCode
<1>4. c \in Nat /\ c > 0
    BY <1>2
<1>5. N % c = 0 /\ packetSize % c = 0
    BY DEF TimeCodes
<1> HIDE DEF c
<1>6. PICK n \in Nat : N = c * n
    BY <1>1, <1>4, <1>5, Divides
<1>7. PICK t \in Nat : packetSize = c * t
    BY <1>2, <1>4, <1>5, Divides
<1>8. read = c * (n * j) /\ n * j \in Nat
    BY <1>3, <1>4, <1>6
<1>9. k * packetSize = c * (k * t) /\ k * t \in Nat
    BY <1>4, <1>7
<1> DEFINE x == k * t
           y == n * j
<1>10. /\ x \in Nat /\ y \in Nat /\ read = c * y /\ Code(k) = c * x
    BY <1>8, <1>9 DEF Code
<1> HIDE DEF x, y
<1>11. x + 1 \in Nat /\ c * (x + 1) = c * x + c
    BY <1>4, <1>10
<1>12. Packet(k) = c * x + c
    BY <1>10 DEF Packet, c
<1>13. c * x < c * y => c * x + c <= c * y
    BY <1>4, <1>10, NextMultiple
<1>14. c * (x + 1) < c * y => c * (x + 1) + c <= c * y
    BY <1>4, <1>10, <1>11, NextMultiple
<1> QED BY <1>10, <1>11, <1>12, <1>13, <1>14 DEF c

\* Packets are handed over in order, each from its first byte.
LEMMA HeadsAfter ==
    ASSUME TypeInv, TimeCodes, HeadsInv, NEW p \in Seq(Int), packets' = Append(packets, p),
           p[1] = Packet(Handed), packetSize' = packetSize
    PROVE  HeadsInv' /\ Handed' = Handed + 1
<1>1. packets \in Seq(Seq(Int)) /\ Handed \in Nat
    BY DEF TypeInv, TypeOK, Handed
<1>2. /\ Len(packets') = Handed + 1 /\ packets'[Handed + 1] = p
      /\ \A m \in 1..Handed : packets'[m] = packets[m]
    BY <1>1, AppendLast DEF Handed
<1>3. \A k : Packet(k)' = Packet(k)
    BY DEF Packet, Code, TimeCode
<1>4. ASSUME NEW m \in 1..(Handed + 1)
      PROVE  packets'[m][1] = Packet(m - 1)
    <2>1. CASE m = Handed + 1
        <3>1. m - 1 = Handed
            BY <1>1, <2>1
        <3> QED BY <1>2, <2>1, <3>1
    <2>2. CASE m # Handed + 1
        <3>1. m \in 1..Handed
            BY <1>1, <2>2
        <3> QED BY <1>2, <3>1 DEF HeadsInv
    <2> QED BY <2>1, <2>2
<1>5. Handed' = Handed + 1
    BY <1>2 DEF Handed
<1> QED BY <1>3, <1>4, <1>5 DEF HeadsInv

\* What the turns of parse() start from.
LEMMA CodeBlock ==
    ASSUME BaseInv, ReadInv, TimeCodes, N >= 2 * TS_SIZE
    PROVE  /\ TypeInv /\ TypeOK /\ BlockInv /\ Handed \in Nat
           /\ TS_SIZE \in Nat /\ TS_SIZE > 0 /\ N \in Nat /\ file.size \in Nat
           /\ read \in Nat /\ len \in Nat /\ len <= N /\ i \in Nat /\ Len(buffer) \in Nat
           /\ TimeCode \in Nat /\ TimeCode > 0
           /\ Code(Handed) \in Nat /\ Packet(Handed) = Code(Handed) + TimeCode
           /\ Code(Handed + 1) = Packet(Handed) + TS_SIZE
           /\ Packet(Handed + 1) = Code(Handed + 1) + TimeCode
           /\ Code(Handed + 2) = Packet(Handed + 1) + TS_SIZE
           /\ ~more => read = file.size
           /\ pc # "idle" => base \in Nat /\ read = base + len /\ (more => len = N)
           /\ pc # "idle" /\ i < len => memblock[i] = base + i
<1>1. /\ TypeInv /\ TypeOK /\ BlockInv /\ Handed \in Nat /\ CallInv
      /\ TS_SIZE \in Nat /\ TS_SIZE > 0 /\ N \in Nat /\ file.size \in Nat
      /\ read \in Nat /\ len \in Nat /\ len <= N /\ i \in Nat /\ Len(buffer) \in Nat
    BY BlockFacts DEF NoLossInv, Handed
<1>2. /\ TimeCode \in Nat /\ TimeCode > 0
      /\ Code(Handed) \in Nat
      /\ Code(Handed + 1) = Packet(Handed) + TS_SIZE
      /\ Code(Handed + 2) = Packet(Handed + 1) + TS_SIZE
    BY <1>1, CodeFacts
<1>3. /\ Packet(Handed) = Code(Handed) + TimeCode
      /\ Packet(Handed + 1) = Code(Handed + 1) + TimeCode
    BY DEF Packet
<1>4. ~more => read = file.size
    BY DEF ReadInv
<1>5. /\ pc # "idle" => base \in Nat /\ base + len = read
      /\ pc # "idle" /\ i < len => memblock[i] = base + i
    BY <1>1, BaseFacts
<1>6. pc # "idle" /\ more => len = N
    BY <1>1 DEF BlockInv, CallInv
<1> QED BY <1>1, <1>2, <1>3, <1>4, <1>5, <1>6

\* What parse() looks at is in the stream.
LEMMA InFile ==
    ASSUME BaseInv, pc # "idle", i < len
    PROVE  base + i < file.size
<1>1. TypeInv /\ BlockInv
    BY BlockFacts DEF NoLossInv
<1>2. base \in Nat /\ base + len = read
    BY <1>1, BaseFacts
<1>3. read <= file.size /\ file.size \in Nat /\ i \in Nat /\ len \in Nat
    BY <1>1, TypeFacts DEF TypeInv
<1>4. \A b, j, l, z \in Nat : j < l /\ b + l <= z => b + j < z
    OBVIOUS
<1> QED BY <1>2, <1>3, <1>4

\* As long as no packet is handed over the places stay what they are.
LEMMA SamePlaces ==
    ASSUME UNCHANGED <<packets, packetSize>>
    PROVE  /\ Handed' = Handed /\ (HeadsInv => HeadsInv')
           /\ TimeCode' = TimeCode
           /\ \A k : Code(k)' = Code(k) /\ Packet(k)' = Packet(k)
BY DEF Handed, HeadsInv, TimeCode, Code, Packet

LEMMA CodesEnter ==
    ASSUME BaseInv, ReadInv, TimeCodes, N >= 2 * TS_SIZE, HeadsInv, PlaceInv, Enter
    PROVE  HeadsInv' /\ PlaceInv'
<1>0. /\ TypeInv /\ TypeOK
      /\ TS_SIZE \in Nat /\ TS_SIZE > 0 /\ N \in Nat
      /\ read \in Nat /\ len \in Nat /\ len <= N /\ Len(buffer) \in Nat
      /\ TimeCode \in Nat /\ TimeCode > 0
      /\ Code(Handed) \in Nat /\ Packet(Handed) = Code(Handed) + TimeCode
      /\ Code(Handed + 1) = Packet(Handed) + TS_SIZE
      /\ Packet(Handed + 1) = Code(Handed + 1) + TimeCode
      /\ Code(Handed + 2) = Packet(Handed + 1) + TS_SIZE
      /\ ~more => read = file.size
    BY CodeBlock
<1>1. /\ pc = "enter" /\ pc' = "scan"
      /\ UNCHANGED <<file, read, more, len, packets, packetSize>>
    BY DEF Enter, callerVars
<1>2. base \in Nat /\ read = base + len /\ (more => len = N) /\ base' = base
    BY <1>1, CodeBlock DEF base
<1>3. Between(base) /\ i = 0
    BY <1>1 DEF PlaceInv
<1>4. /\ Handed' = Handed /\ HeadsInv' /\ TimeCode' = TimeCode
      /\ \A k : Code(k)' = Code(k) /\ Packet(k)' = Packet(k)
    BY <1>1, SamePlaces
<1>5. CASE Len(buffer) = 0
    <2>1. i' = 0 /\ buffer' = buffer
        BY <1>3, <1>5 DEF Enter
    <2>2. base \in {Code(Handed), Packet(Handed)}
        BY <1>0, <1>3, <1>5 DEF Between
    <2>3. base' + i' = base /\ i' <= len'
        BY <1>0, <1>1, <1>2, <2>1
    <2>4. Inside(base + i)'
        BY <1>1, <1>4, <1>5, <2>1, <2>2, <2>3 DEF Inside
    <2> QED BY <1>1, <1>4, <2>4 DEF PlaceInv
<1>6. CASE Len(buffer) # 0
    <2>1. /\ Len(buffer) \in TimeCode..(TS_SIZE - 1) /\ buffer[1] = Packet(Handed)
          /\ base = Packet(Handed) + Len(buffer)
        BY <1>3, <1>6 DEF Between
    <2>2. Len(buffer) \in 1..(TS_SIZE - 1)
        BY <1>0, <2>1
    <2>3. i' = TS_SIZE - Len(buffer) /\ buffer' = buffer \o Bytes(0, TS_SIZE - Len(buffer))
        BY <2>2 DEF Enter
    <2>4. Len(buffer') = TS_SIZE /\ buffer'[1] = buffer[1]
        <3> DEFINE n == TS_SIZE - Len(buffer)
        <3>1. n \in Nat /\ 0 + n <= N /\ buffer \in Seq(Int) /\ 1 \in 1..Len(buffer)
            <4>1. TS_SIZE <= N /\ memblock \in [0..(N - 1) -> Int] /\ buffer \in Seq(Int)
                BY <1>0, TypeFacts DEF TypeOK
            <4>2. \A m \in 1..(TS_SIZE - 1) : TS_SIZE - m \in Nat /\ 0 + (TS_SIZE - m) <= TS_SIZE
                                               /\ 1 \in 1..m
                BY <1>0
            <4>3. n \in Nat /\ 0 + n <= TS_SIZE /\ 1 \in 1..Len(buffer)
                BY <2>2, <4>2
            <4> QED BY <1>0, <4>1, <4>3
        <3>2. Bytes(0, n) \in Seq(Int)
            BY <1>0, <3>1, BytesType DEF TypeOK
        <3>3. (buffer \o Bytes(0, n))[1] = buffer[1]
            BY <3>1, <3>2, ConcatFacts
        <3> QED BY <1>0, <2>2, <2>3, <3>3, FillType
    <2>5. base' + i' = Code(Handed + 1) /\ i' + TimeCode <= TS_SIZE /\ i' \in Nat
        <3> DEFINE b == Len(buffer)
        <3>1. /\ b \in TimeCode..(TS_SIZE - 1) /\ base = Packet(Handed) + b
              /\ i' = TS_SIZE - b
            BY <2>1, <2>3
        <3> HIDE DEF b
        <3>2. b \in Nat /\ Packet(Handed) \in Nat
            BY <1>0, <3>1
        <3>3. \A p, c, n, d \in Nat : d <= c /\ c < n =>
                /\ (p + c) + (n - c) = p + n
                /\ (n - c) + d <= n
                /\ n - c \in Nat
            OBVIOUS
        <3>4. TimeCode <= b /\ b < TS_SIZE
            BY <1>0, <3>1
        <3>5. /\ (Packet(Handed) + b) + (TS_SIZE - b) = Packet(Handed) + TS_SIZE
              /\ (TS_SIZE - b) + TimeCode <= TS_SIZE /\ TS_SIZE - b \in Nat
            <4>1. TS_SIZE \in Nat /\ TimeCode \in Nat
                BY <1>0
            <4> QED BY <3>2, <3>3, <3>4, <4>1
        <3>6. base' + i' = (Packet(Handed) + b) + (TS_SIZE - b)
            BY <1>2, <3>1
        <3>7. Code(Handed + 1) = Packet(Handed) + TS_SIZE
            BY <1>0
        <3> QED BY <3>1, <3>5, <3>6, <3>7, Zenon
    <2>6. CASE i' <= len
        <3>1. Inside(base + i)'
            BY <1>1, <1>4, <2>1, <2>4, <2>5, <2>6 DEF Inside
        <3> QED BY <1>1, <1>4, <3>1 DEF PlaceInv
    <2>7. CASE ~(i' <= len)
        <3>0. i' <= TS_SIZE /\ TS_SIZE <= N
            <4>1. \A a, b, c \in Nat : a + b <= c => a <= c
                OBVIOUS
            <4>2. i' <= TS_SIZE
                BY <1>0, <2>5, <4>1
            <4> QED BY <1>0, <4>2, TypeFacts
        <3>1. ~more
            BY <1>0, <1>2, <2>5, <2>7, <3>0
        <3>2. file.size < Code(Handed + 2)
            BY <1>0, <1>2, <2>5, <2>7, <3>1
        <3>3. i' >= len' /\ Over'
            BY <1>0, <1>1, <1>4, <2>5, <2>7, <3>1, <3>2 DEF Over
        <3> QED BY <1>1, <1>4, <3>3 DEF PlaceInv
    <2> QED BY <2>6, <2>7
<1> QED BY <1>5, <1>6

LEMMA CodesSkip ==
    ASSUME BaseInv, ReadInv, TimeCodes, N >= 2 * TS_SIZE, HeadsInv, PlaceInv, Skip
    PROVE  HeadsInv' /\ PlaceInv'
<1>0. /\ TypeInv /\ Handed \in Nat
      /\ TS_SIZE \in Nat /\ TS_SIZE > 0 /\ N \in Nat /\ file.size \in Nat
      /\ read \in Nat /\ len \in Nat /\ len <= N /\ i \in Nat
      /\ TimeCode \in Nat /\ TimeCode > 0
      /\ Code(Handed) \in Nat /\ Packet(Handed) = Code(Handed) + TimeCode
      /\ Code(Handed + 1) = Packet(Handed) + TS_SIZE
      /\ Packet(Handed + 1) = Code(Handed + 1) + TimeCode
      /\ Code(Handed + 2) = Packet(Handed + 1) + TS_SIZE
      /\ ~more => read = file.size
    BY CodeBlock
<1>1. /\ pc = "scan" /\ pc' = pc /\ i < len /\ ~AtSync
      /\ UNCHANGED <<file, read, more, len, packets, packetSize, buffer>>
    BY DEF Skip, callerVars
<1>2. /\ base \in Nat /\ read = base + len /\ (more => len = N) /\ base' = base
      /\ memblock[i] = base + i
    BY <1>1, CodeBlock DEF base
<1>3. i' = i + TimeCode
    <2>1. packetSize # TS_SIZE
        <3>1. 0 \in Nat
            OBVIOUS
        <3>2. packetSize = TS_SIZE + TimeCode
            BY <1>0, <3>1, CodeFacts
        <3> QED BY <1>0, <3>2
    <2> QED BY <2>1 DEF Skip, TimeCode
<1>4. /\ Handed' = Handed /\ HeadsInv' /\ TimeCode' = TimeCode
      /\ \A k : Code(k)' = Code(k) /\ Packet(k)' = Packet(k)
    BY <1>1, SamePlaces
<1>5. Inside(base + i)
    BY <1>0, <1>1 DEF PlaceInv
<1>6. read <= file.size /\ base + i < file.size
    <2>1. pc # "idle" /\ i < len
        BY <1>1
    <2>2. read <= file.size
        BY <1>0, TypeFacts DEF TypeInv
    <2> QED BY <2>1, <2>2, InFile
<1>7. ASSUME NEW k \in Nat PROVE base + i # Packet(k)
    BY <1>0, <1>1, <1>2, <1>6, CodeSync DEF AtSync
<1>8. CASE Len(buffer) = 0
    <2>1. base + i = Code(Handed)
        BY <1>0, <1>5, <1>7, <1>8 DEF Inside
    <2>2. base' + i' = Packet(Handed)
        BY <1>0, <1>2, <1>3, <2>1
    <2>3. CASE i' <= len
        <3>1. Inside(base + i)'
            BY <1>1, <1>4, <1>8, <2>2, <2>3 DEF Inside
        <3> QED BY <1>1, <1>4, <3>1 DEF PlaceInv
    <2>4. CASE ~(i' <= len)
        <3>1. ~more
            <4>1. SUFFICES ASSUME more PROVE FALSE
                OBVIOUS
            <4>2. Code(Handed) < read
                BY <1>0, <1>1, <1>2, <2>1
            <4>3. Packet(Handed) <= read
                BY <1>0, <4>1, <4>2, CodeWhole
            <4> QED BY <1>0, <1>2, <1>3, <2>2, <2>4, <4>3
        <3>2. i' >= len' /\ file.size < Code(Handed + 2)
            BY <1>0, <1>1, <1>2, <1>3, <2>1, <2>4, <3>1
        <3> QED BY <1>1, <1>4, <3>1, <3>2 DEF PlaceInv, Over
    <2> QED BY <2>3, <2>4
<1>9. CASE Len(buffer) # 0
    <2>1. /\ Len(buffer) = TS_SIZE /\ buffer[1] = Packet(Handed)
          /\ base + i = Code(Handed + 1) /\ i + TimeCode <= TS_SIZE
        <3>1. Handed + 1 \in Nat
            BY <1>0
        <3>2. i # len
            BY <1>0, <1>1
        <3> QED BY <1>0, <1>5, <1>7, <1>9, <3>1, <3>2 DEF Inside
    <2>2. base' + i' = Packet(Handed + 1) /\ i' <= TS_SIZE
        BY <1>0, <1>2, <1>3, <2>1
    <2>3. CASE i' <= len
        <3>1. Inside(base + i)'
            BY <1>1, <1>4, <2>1, <2>2, <2>3 DEF Inside
        <3> QED BY <1>1, <1>4, <3>1 DEF PlaceInv
    <2>4. CASE ~(i' <= len)
        <3>1. ~more
            BY <1>0, <1>2, <1>3, <2>2, <2>4
        <3>2. i' >= len' /\ file.size < Code(Handed + 2)
            BY <1>0, <1>1, <1>2, <1>3, <2>1, <2>4, <3>1
        <3> QED BY <1>1, <1>4, <3>1, <3>2 DEF PlaceInv, Over
    <2> QED BY <2>3, <2>4
<1> QED BY <1>8, <1>9

LEMMA CodesDeliver ==
    ASSUME BaseInv, ReadInv, TimeCodes, N >= 2 * TS_SIZE, HeadsInv, PlaceInv,
           DeliverInPlace \/ DeliverBuffered
    PROVE  HeadsInv' /\ PlaceInv'
<1>0. /\ TypeInv /\ TypeOK /\ Handed \in Nat
      /\ TS_SIZE \in Nat /\ TS_SIZE > 0 /\ N \in Nat /\ file.size \in Nat
      /\ read \in Nat /\ len \in Nat /\ len <= N /\ i \in Nat /\ Len(buffer) \in Nat
      /\ TimeCode \in Nat /\ TimeCode > 0
      /\ Code(Handed) \in Nat /\ Packet(Handed) = Code(Handed) + TimeCode
      /\ Code(Handed + 1) = Packet(Handed) + TS_SIZE
      /\ Packet(Handed + 1) = Code(Handed + 1) + TimeCode
    BY CodeBlock
<1>1. /\ pc = "scan" /\ pc' = pc /\ i < len /\ AtSync /\ i + TS_SIZE <= len
      /\ UNCHANGED <<file, read, more, len, packetSize, memblock>>
    BY DEF DeliverInPlace, DeliverBuffered, callerVars, Fits
<1>2. /\ base \in Nat /\ read = base + len /\ base' = base /\ memblock[i] = base + i
    BY <1>1, CodeBlock DEF base
<1>3. \A k : Code(k)' = Code(k) /\ Packet(k)' = Packet(k)
    BY <1>1 DEF Code, Packet, TimeCode
<1>4. Inside(base + i)
    BY <1>0, <1>1 DEF PlaceInv
<1>5. base + i < file.size
    <2>1. pc # "idle" /\ i < len
        BY <1>1
    <2> QED BY <2>1, InFile
<1>6. ASSUME NEW k \in Nat PROVE base + i # Code(k)
    BY <1>0, <1>1, <1>2, <1>5, CodeSync DEF AtSync
<1>7. Handed + 1 \in Nat
    BY <1>0
<1>8. CASE DeliverInPlace
    <2>1. buffer = <<>> /\ buffer' = buffer /\ packets' = Append(packets, Bytes(i, TS_SIZE))
          /\ i' = i + TS_SIZE
        BY <1>8 DEF DeliverInPlace
    <2>2. base + i = Packet(Handed)
        BY <1>0, <1>4, <1>6, <2>1 DEF Inside
    <2>3. Bytes(i, TS_SIZE) \in Seq(Int) /\ Bytes(i, TS_SIZE)[1] = Packet(Handed)
        <3>1. i + TS_SIZE <= N
            BY <1>0, <1>1
        <3>2. Bytes(i, TS_SIZE) \in Seq(Int)
            BY <1>0, <3>1, BytesType DEF TypeOK
        <3>3. 1 \in 1..TS_SIZE /\ i + 1 - 1 = i
            BY <1>0
        <3> QED BY <1>2, <2>2, <3>2, <3>3 DEF Bytes
    <2>4. HeadsInv' /\ Handed' = Handed + 1
        BY <1>0, <1>1, <2>1, <2>3, HeadsAfter
    <2>5. base' + i' = Code(Handed + 1)
        BY <1>0, <1>2, <2>1, <2>2
    <2>6. Len(buffer') = 0 /\ i' <= len'
        BY <1>1, <2>1
    <2>7. Inside(base + i)'
        BY <1>3, <2>4, <2>5, <2>6 DEF Inside
    <2> QED BY <1>1, <2>4, <2>7 DEF PlaceInv
<1>9. CASE DeliverBuffered
    <2>1. /\ buffer # <<>> /\ buffer' = <<>> /\ packets' = Append(packets, SubSeq(buffer, 1, TS_SIZE))
          /\ i' = i
        BY <1>9 DEF DeliverBuffered
    <2>2. buffer \in Seq(Int) /\ Len(buffer) # 0
        BY <1>0, <2>1 DEF TypeOK
    <2>3. /\ Len(buffer) = TS_SIZE /\ buffer[1] = Packet(Handed)
          /\ base + i = Packet(Handed + 1)
        <3>1. i # len
            BY <1>0, <1>1
        <3> QED BY <1>0, <1>4, <1>6, <1>7, <2>2, <3>1 DEF Inside
    <2>4. SubSeq(buffer, 1, TS_SIZE) \in Seq(Int) /\ SubSeq(buffer, 1, TS_SIZE)[1] = Packet(Handed)
        BY <1>0, <2>2, <2>3
    <2>5. HeadsInv' /\ Handed' = Handed + 1
        BY <1>0, <1>1, <2>1, <2>4, HeadsAfter
    <2>6. Len(buffer') = 0 /\ i' <= len' /\ base' + i' = Packet(Handed + 1)
        BY <1>0, <1>1, <1>2, <2>1, <2>3
    <2>7. Inside(base + i)'
        BY <1>3, <2>5, <2>6 DEF Inside
    <2> QED BY <1>1, <2>5, <2>7 DEF PlaceInv
<1> QED BY <1>8, <1>9

LEMMA CodesCarry ==
    ASSUME BaseInv, ReadInv, TimeCodes, N >= 2 * TS_SIZE, HeadsInv, PlaceInv, Carry
    PROVE  HeadsInv' /\ PlaceInv'
<1>0. /\ TypeInv /\ TypeOK /\ Handed \in Nat
      /\ TS_SIZE \in Nat /\ TS_SIZE > 0 /\ N \in Nat /\ file.size \in Nat
      /\ read \in Nat /\ len \in Nat /\ len <= N /\ i \in Nat /\ Len(buffer) \in Nat
      /\ TimeCode \in Nat /\ TimeCode > 0
      /\ Code(Handed) \in Nat /\ Packet(Handed) = Code(Handed) + TimeCode
      /\ Code(Handed + 1) = Packet(Handed) + TS_SIZE
      /\ Packet(Handed + 1) = Code(Handed + 1) + TimeCode
      /\ Code(Handed + 2) = Packet(Handed + 1) + TS_SIZE
      /\ ~more => read = file.size
    BY CodeBlock
<1>1. /\ pc = "scan" /\ pc' = pc /\ i < len /\ AtSync /\ ~(i + TS_SIZE <= len)
      /\ UNCHANGED <<file, read, more, len, packets, packetSize>>
      /\ buffer' = buffer \o Bytes(i, len - i) /\ i' = len
    BY DEF Carry, callerVars, Fits
<1>2. /\ base \in Nat /\ read = base + len /\ (more => len = N) /\ base' = base
      /\ memblock[i] = base + i
    BY <1>1, CodeBlock DEF base
<1>3. /\ Handed' = Handed /\ HeadsInv' /\ TimeCode' = TimeCode
      /\ \A k : Code(k)' = Code(k) /\ Packet(k)' = Packet(k)
    BY <1>1, SamePlaces
<1>4. Inside(base + i)
    BY <1>0, <1>1 DEF PlaceInv
<1>5. base + i < file.size
    <2>1. pc # "idle" /\ i < len
        BY <1>1
    <2> QED BY <2>1, InFile
<1>6. ASSUME NEW k \in Nat PROVE base + i # Code(k)
    BY <1>0, <1>1, <1>2, <1>5, CodeSync DEF AtSync
<1>7. CASE Len(buffer) = 0
    <2>1. base + i = Packet(Handed)
        BY <1>0, <1>4, <1>6, <1>7 DEF Inside
    <2> DEFINE n == len - i
    <2>2. n \in 1..(TS_SIZE - 1) /\ n \in Nat /\ i + n = len /\ i + n <= N
        BY <1>0, <1>1
    <2>3. Bytes(i, n) \in Seq(Int) /\ Len(Bytes(i, n)) = n /\ Bytes(i, n)[1] = memblock[i]
        <3>1. Bytes(i, n) \in Seq(Int) /\ Len(Bytes(i, n)) = n
            BY <1>0, <2>2, BytesType DEF TypeOK
        <3>2. 1 \in 1..n /\ i + 1 - 1 = i
            BY <1>0, <2>2
        <3> QED BY <3>1, <3>2 DEF Bytes
    <2>4. buffer = <<>>
        BY <1>0, <1>7 DEF TypeOK
    <2>5. buffer' = Bytes(i, n)
        BY <1>1, <2>3, <2>4
    <2> HIDE DEF n
    <2>6. Len(buffer') = n /\ buffer'[1] = Packet(Handed)
        BY <1>2, <2>1, <2>3, <2>5
    <2>7. base' + i' = Packet(Handed) + Len(buffer')
        <3>1. base + len = (base + i) + n
            BY <1>0, <1>2, <2>2
        <3>2. base' + i' = Packet(Handed) + n
            BY <1>1, <1>2, <2>1, <3>1
        <3> QED BY <2>6, <3>2
    <2>8. Inside(base + i)'
        BY <1>1, <1>3, <2>2, <2>6, <2>7 DEF Inside
    <2> QED BY <1>1, <1>3, <2>8 DEF PlaceInv
<1>8. CASE Len(buffer) # 0
    <2>1. base + i = Packet(Handed + 1) /\ i <= TS_SIZE
        <3>1. i # len /\ Handed + 1 \in Nat
            BY <1>0, <1>1
        <3> QED BY <1>0, <1>4, <1>6, <1>8, <3>1 DEF Inside
    <2>2. ~more
        BY <1>0, <1>1, <1>2, <2>1
    <2>3. file.size < Code(Handed + 2)
        BY <1>0, <1>1, <1>2, <2>1, <2>2
    <2>4. i' >= len' /\ Over'
        BY <1>0, <1>1, <1>3, <2>2, <2>3 DEF Over
    <2> QED BY <1>1, <1>3, <2>4 DEF PlaceInv
<1> QED BY <1>7, <1>8

LEMMA CodesReturn ==
    ASSUME BaseInv, ReadInv, TimeCodes, N >= 2 * TS_SIZE, HeadsInv, PlaceInv, Return
    PROVE  HeadsInv' /\ PlaceInv'
<1>0. /\ TypeInv /\ TypeOK /\ Handed \in Nat
      /\ TS_SIZE \in Nat /\ TS_SIZE > 0 /\ N \in Nat /\ file.size \in Nat
      /\ read \in Nat /\ len \in Nat /\ len <= N /\ i \in Nat /\ Len(buffer) \in Nat
      /\ TimeCode \in Nat /\ TimeCode > 0
      /\ Code(Handed) \in Nat /\ Packet(Handed) = Code(Handed) + TimeCode
      /\ Code(Handed + 1) = Packet(Handed) + TS_SIZE
      /\ Packet(Handed + 1) = Code(Handed + 1) + TimeCode
      /\ Code(Handed + 2) = Packet(Handed + 1) + TS_SIZE
      /\ ~more => read = file.size
    BY CodeBlock
<1>1. /\ pc = "scan" /\ pc' = "idle" /\ i >= len
      /\ UNCHANGED <<file, read, more, packets, packetSize, buffer>>
    BY DEF Return, callerVars
<1>2. base \in Nat /\ read = base + len /\ (more => len = N)
    BY <1>1, CodeBlock
<1>3. /\ Handed' = Handed /\ HeadsInv' /\ TimeCode' = TimeCode
      /\ \A k : Code(k)' = Code(k) /\ Packet(k)' = Packet(k)
    BY <1>1, SamePlaces
<1>4. CASE Over
    BY <1>1, <1>3, <1>4 DEF PlaceInv, Over
<1>5. CASE Inside(base + i)
    <2>1. i = len /\ base + i = read
        BY <1>0, <1>1, <1>2, <1>5 DEF Inside
    <2>2. CASE Len(buffer) = 0
        <3>1. read \in {Code(Handed), Packet(Handed)}
            BY <1>0, <1>5, <2>1, <2>2 DEF Inside
        <3>2. CASE more
            <4>1. Between(read)'
                BY <1>1, <1>3, <2>2, <3>1 DEF Between
            <4> QED BY <1>1, <1>3, <3>2, <4>1 DEF PlaceInv
        <3>3. CASE ~more
            <4>1. file.size < Code(Handed + 2)
                BY <1>0, <3>1, <3>3
            <4> QED BY <1>1, <1>3, <3>3, <4>1 DEF PlaceInv, Over
        <3> QED BY <3>2, <3>3
    <2>3. CASE Len(buffer) \in 1..(TS_SIZE - 1)
        <3> DEFINE b == Len(buffer)
        <3>1. b \in 1..(TS_SIZE - 1) /\ buffer[1] = Packet(Handed) /\ read = Packet(Handed) + b
            BY <1>0, <1>5, <2>1, <2>3 DEF Inside
        <3> HIDE DEF b
        <3>2. CASE more
            <4>1. Packet(Handed) < read
                BY <1>0, <3>1
            <4>2. Packet(Handed) + TimeCode <= read
                BY <1>0, <3>2, <4>1, CodeWhole
            <4>3. b \in TimeCode..(TS_SIZE - 1)
                BY <1>0, <3>1, <4>2
            <4>4. Between(read)'
                BY <1>1, <1>3, <3>1, <4>3 DEF Between, b
            <4> QED BY <1>1, <1>3, <3>2, <4>4 DEF PlaceInv
        <3>3. CASE ~more
            <4>1. file.size < Code(Handed + 2)
                BY <1>0, <3>1, <3>3
            <4> QED BY <1>1, <1>3, <3>3, <4>1 DEF PlaceInv, Over
        <3> QED BY <3>2, <3>3
    <2>4. CASE Len(buffer) = TS_SIZE
        <3>1. /\ read \in {Code(Handed + 1), Packet(Handed + 1)} /\ i <= TS_SIZE
            BY <1>0, <1>5, <2>1, <2>4 DEF Inside
        <3>2. ~more
            BY <1>0, <1>2, <2>1, <3>1
        <3>3. file.size < Code(Handed + 2)
            BY <1>0, <3>1, <3>2
        <3> QED BY <1>1, <1>3, <3>2, <3>3 DEF PlaceInv, Over
    <2> QED BY <1>5, <2>2, <2>3, <2>4 DEF Inside
<1> QED BY <1>1, <1>4, <1>5 DEF PlaceInv

\* A new program.
LEMMA CodesInit == AppInit => CodesInv
<1> SUFFICES ASSUME AppInit PROVE CodesInv
    OBVIOUS
<1>1. buffer = <<>> /\ more /\ packetSize = TS_SIZE
    BY DEF AppInit, Init
<1>2. ~TimeCodes
    BY <1>1, SizesAssumption DEF TimeCodes, AVCHD
<1> QED BY <1>1, <1>2 DEF CodesInv

\* Every step of the program keeps the places.
LEMMA CodesStep ==
    ASSUME BaseInv, LimitInv, ReadInv, CodesInv, N >= 2 * TS_SIZE, [AppNext]_allVars
    PROVE  CodesInv'
<1>0. CallInv
    BY BlockFacts
<1>1. ASSUME NEW sz \in PacketSizes, Start(sz) PROVE CodesInv'
    <2>1. /\ app = "start" /\ app' = "reading" /\ pc = "idle" /\ pc' = "idle"
          /\ UNCHANGED <<file, read, more, len, buffer, packets>>
        BY <1>1 DEF Start, SetPacketSize, callerVars
    <2>2. buffer' = <<>> /\ more' /\ packets' = <<>> /\ read' = 0
        BY <1>0, <2>1 DEF CallInv, CodesInv
    <2>3. Handed' = 0 /\ Len(buffer') = 0
        BY <2>2 DEF Handed
    <2>4. ASSUME TimeCodes' PROVE HeadsInv' /\ PlaceInv'
        <3>1. HeadsInv'
            BY <2>3 DEF HeadsInv
        <3>2. packetSize' \in Nat
            BY <1>1, PacketSizesAssumption DEF Start, SetPacketSize
        <3>3. \A p \in Nat : 0 * p = 0
            OBVIOUS
        <3>4. Code(Handed)' = 0
            BY <2>3, <3>2, <3>3 DEF Code
        <3>5. Between(read)'
            BY <2>2, <2>3, <3>4 DEF Between
        <3> QED BY <2>1, <2>2, <3>1, <3>5 DEF PlaceInv
    <2> QED BY <2>1, <2>4 DEF CodesInv
<1>2. ASSUME app # "start", app' # "start", UNCHANGED <<file, packetSize>>,
             TimeCodes /\ HeadsInv /\ PlaceInv => HeadsInv' /\ PlaceInv'
      PROVE  CodesInv'
    <2>1. TimeCodes' => TimeCodes
        BY <1>2 DEF TimeCodes, AVCHD, TimeCode
    <2> QED BY <1>2, <2>1 DEF CodesInv
<1>3. ASSUME UNCHANGED <<file, read, more, len, buffer, packets, packetSize, pc, i>>
      PROVE  HeadsInv /\ PlaceInv => HeadsInv' /\ PlaceInv'
    BY <1>3 DEF HeadsInv, PlaceInv, Between, Inside, Over, Handed, Packet, Code, TimeCode, base
<1>4. CASE ReadBlock
    <2>1. /\ pc = "idle" /\ pc' = "enter" /\ more /\ i' = 0 /\ read' = read + len'
          /\ app = "reading" /\ app' = "parsing"
          /\ UNCHANGED <<file, buffer, packets, packetSize>>
        BY <1>4 DEF ReadBlock, Call
    <2>2. base' = read
        <3>1. read \in Nat /\ N \in Nat /\ file.size \in Nat
            BY BlockFacts
        <3>2. len' = IF N <= file.size - read THEN N ELSE file.size - read
            BY <1>4 DEF ReadBlock, Call
        <3>3. len' \in Int
            BY <3>1, <3>2
        <3>4. \A a \in Nat, b \in Int : (a + b) - b = a
            OBVIOUS
        <3>5. base' = (read + len') - len'
            BY <2>1 DEF base
        <3> QED BY <3>1, <3>3, <3>4, <3>5
    <2>3. ASSUME HeadsInv, PlaceInv PROVE HeadsInv' /\ PlaceInv'
        <3>1. Between(read)
            BY <2>1, <2>3 DEF PlaceInv, Over
        <3>2. /\ Handed' = Handed /\ HeadsInv' /\ TimeCode' = TimeCode
              /\ \A k : Code(k)' = Code(k) /\ Packet(k)' = Packet(k)
            BY <2>1, <2>3, SamePlaces
        <3>3. Between(base)'
            BY <2>1, <2>2, <3>1, <3>2 DEF Between
        <3> QED BY <2>1, <3>2, <3>3 DEF PlaceInv
    <2> QED BY <1>2, <2>1, <2>3
<1>5. CASE Parsing
    <2>1. /\ Parse /\ app = "parsing" /\ app' = app /\ UNCHANGED <<file, packetSize>>
        BY <1>5, ParseKeeps DEF Parsing, appVars
    <2>2. ASSUME TimeCodes, HeadsInv, PlaceInv PROVE HeadsInv' /\ PlaceInv'
        BY <2>1, <2>2, CodesEnter, CodesSkip, CodesDeliver, CodesCarry, CodesReturn DEF Parse
    <2> QED BY <1>2, <2>1, <2>2
<1>6. CASE EndOfInput \/ Reject \/ Continue
    <2>1. /\ app # "start" /\ app' # "start"
          /\ UNCHANGED <<file, read, more, len, buffer, packets, packetSize, pc, i>>
        BY <1>6 DEF EndOfInput, Reject, Continue, vars
    <2> QED BY <1>2, <1>3, <2>1
<1>7. CASE UNCHANGED allVars
    <2>1. /\ app' = app
          /\ UNCHANGED <<file, read, more, len, buffer, packets, packetSize, pc, i>>
        BY <1>7 DEF allVars, appVars, vars
    <2>2. CASE app = "start"
        BY <1>3, <2>1, <2>2 DEF CodesInv, TimeCodes, AVCHD, TimeCode
    <2>3. CASE app # "start"
        BY <1>2, <1>3, <2>1, <2>3
    <2> QED BY <2>2, <2>3
<1> QED BY <1>1, <1>4, <1>5, <1>6, <1>7 DEF AppNext

\* For every stream with time codes, whatever its payloads hold and wherever it ends: the
\* packets are handed over in order and from their first byte, and of those that are
\* whole at most the last one is not.  Blocks hold two packets at least.
THEOREM AVCHDGives == ASSUME N >= 2 * TS_SIZE PROVE AppSpec => []AVCHDGivesAllButLast
<1> DEFINE AVInv == BaseInv /\ LimitInv /\ ReadInv /\ CodesInv
<1>1. AVInv => AVCHDGivesAllButLast
    <2> SUFFICES ASSUME AVInv, TimeCodes
                 PROVE  /\ \A m \in 1..Len(packets) :
                             packets[m][1] = (m - 1) * packetSize + TimeCode
                        /\ ReadToTheEnd => Len(packets) + 1 >= file.size \div packetSize
        BY DEF AVCHDGivesAllButLast, TimeCodes
    <2>1. HeadsInv /\ PlaceInv
        BY DEF CodesInv
    <2>2. ASSUME ReadToTheEnd PROVE Len(packets) + 1 >= file.size \div packetSize
        <3>1. app = "exit" /\ ~more
            BY <2>2 DEF ReadToTheEnd, LimitInv
        <3>2. CallInv /\ TypeInv /\ file.size \in Nat /\ Handed \in Nat
            BY BlockFacts DEF Handed
        <3>3. pc = "idle"
            BY <3>1, <3>2 DEF CallInv
        <3>4. file.size < (Handed + 2) * packetSize
            BY <2>1, <3>1, <3>3 DEF PlaceInv, Over, Code
        <3>5. packetSize \in Nat /\ packetSize > 0
            BY <3>2, TypeFacts DEF TypeInv
        <3>6. \A n, p, q \in Nat : p > 0 /\ n < q * p => n \div p < q
            <4> TAKE n, p, q \in Nat
            <4> HAVE p > 0 /\ n < q * p
            <4> DEFINE d == n \div p
            <4>1. d \in Nat /\ p * d <= n
                OBVIOUS
            <4> HIDE DEF d
            <4>2. \A a, b \in Nat : a >= b => a * p >= b * p
                OBVIOUS
            <4>3. d * p = p * d /\ q * p \in Nat
                BY <4>1
            <4>4. d < q
                BY <4>1, <4>2, <4>3
            <4> QED BY <4>4 DEF d
        <3>7. Handed + 2 \in Nat
            BY <3>2
        <3>8. file.size \div packetSize < Handed + 2 /\ file.size \div packetSize \in Nat
            BY <3>2, <3>4, <3>5, <3>6, <3>7
        <3> HIDE DEF AVInv
        <3> DEFINE q == file.size \div packetSize
        <3>9. q < Handed + 2 /\ q \in Nat
            BY <3>8
        <3> HIDE DEF q
        <3>10. Handed + 1 >= q
            BY <3>2, <3>9
        <3> QED BY <3>10 DEF q, Handed
    <2> QED BY <2>1, <2>2 DEF HeadsInv, Handed, Packet, Code
<1>2. N >= 2 * TS_SIZE /\ AVInv /\ [AppNext]_allVars => AVInv'
    BY BaseStep, LimitStep, ReadStep, CodesStep, BlockFacts
<1>3. AppInit => AVInv
    BY WholeInit, CodesInit DEF WholeInv
<1>4. ASSUME N >= 2 * TS_SIZE PROVE AppSpec => []AVCHDGivesAllButLast
    <2>1. AVInv /\ [AppNext]_allVars => AVInv'
        BY <1>2, <1>4
    <2> HIDE DEF AVInv
    <2> QED BY <1>1, <1>3, <2>1, PTL DEF AppSpec
<1> QED BY <1>4
=============================================================================
