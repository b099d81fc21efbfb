---------------------------- MODULE CursorsProofs ----------------------------
(***************************************************************************)
(* Which of the loops of module Cursors come to an end, what they print of *)
(* descriptors and which cells they find in wrappers, for every length and *)
(* content.                                                                *)
(***************************************************************************)
EXTENDS Cursors, DataProofs

\* What a sequence holds.
LEMMA Element ==
    ASSUME NEW S, NEW s \in Seq(S), NEW k \in 1..Len(s)
    PROVE  s[k] \in S
OBVIOUS

\* A byte, whichever is asked for.
LEMMA ByteType ==
    ASSUME input \in Inputs, NEW k \in Nat
    PROVE  Byte(k) \in 0..255 /\ length \in Nat
<1>1. input.bytes \in Seq(0..255)
    BY InputsAssumption
<1>2. length \in Nat
    BY <1>1 DEF length
<1>3. CASE k < length
    <2>1. k + 1 \in 1..length
        BY <1>2, <1>3
    <2>2. input.bytes[k + 1] \in 0..255
        BY <1>1, <2>1, Element DEF length
    <2> QED BY <1>2, <1>3, <2>2 DEF Byte, At, length
<1>4. CASE ~(k < length)
    BY <1>2, <1>4 DEF Byte, At, length
<1> QED BY <1>3, <1>4

\* Where metadata_pointer_descriptor's loop can be.
PointerAt ==
    LET c8 == (Byte(8) \div 32) % 4
    IN  \/ cur \in {0, 2, 3, 7, 8}
        \/ cur \in {4, 5, 6} /\ format # 255
        \/ cur \in {9, 11} /\ carriage = c8
        \/ cur \in Nat /\ cur > 11 /\ c8 = 1

\* The place where the metadata_descriptor's loop is after its first flags.
FormatByte == Byte(2)
Once == AfterFlags(IF FormatByte = 255 THEN 8 ELSE 5)
Twice == FormatByte = 255 \/ Once \in {7, 8}

MetadataAt ==
    \/ cur \in {0, 2}
    \/ cur = 3 /\ format = FormatByte
    \/ cur \in {4, 5} /\ format = FormatByte /\ FormatByte # 255
    \/ cur \in {7, 8} /\ Twice
    \/ cur = Once /\ ~Twice
    \/ cur = AfterFlags(8) /\ Twice

STDAt == cur \in {0, 3, 6, 9}

\* Over a wrapper of two cells of one size, the second is read again and again.
WrapperAt ==
    Len(input.cells) > 1 /\ Len(input.cells[1]) = Len(input.cells[2]) =>
        cur \in {0, Len(input.cells[1])}

\* Where the loop is; and that it was not left where it has no end, and did not turn
\* without a change elsewhere.
LoopInv ==
    /\ input \in Inputs
    /\ Of({"pointer"}) => PointerAt
    /\ Of({"metadata"}) => MetadataAt
    /\ Of({"STD"}) => STDAt
    /\ Of({"wrapper"}) => WrapperAt
    /\ Endless => running
    /\ idle => Endless

LEMMA LoopInit == Init => LoopInv
<1> SUFFICES ASSUME Init PROVE LoopInv
    OBVIOUS
<1>1. cur = 0 /\ running /\ ~idle /\ input \in Inputs
    BY DEF Init
<1> QED BY <1>1 DEF LoopInv, PointerAt, MetadataAt, STDAt, WrapperAt

\* The flags of a metadata_descriptor take a byte or more.
LEMMA FlagsFacts ==
    ASSUME input \in Inputs
    PROVE  /\ \A place \in Nat : AfterFlags(place) \in Nat /\ AfterFlags(place) > place
           /\ Once \in Nat /\ Once > 5 /\ (Once > 8 \/ FormatByte # 255)
           /\ FormatByte \in 0..255 /\ length \in Nat
<1>1. ASSUME NEW place \in Nat PROVE AfterFlags(place) \in Nat /\ AfterFlags(place) > place
    <2>1. place + 1 \in Nat /\ Byte(place + 1) \in 0..255
        BY ByteType
    <2> HIDE DEF Byte
    <2> QED BY <2>1 DEF AfterFlags
<1>2. FormatByte \in 0..255 /\ length \in Nat
    BY ByteType DEF FormatByte
<1> QED BY <1>1, <1>2 DEF Once

\* A turn over metadata_pointer_descriptor, and one over metadata_descriptor.
LEMMA PointerTurn ==
    ASSUME LoopInv, Of({"pointer"}), PointerIdentify \/ PointerFlags \/ PointerProgram \/ PointerLocation
           \/ PointerPrivate
    PROVE  PointerAt'
<1> DEFINE c8 == (Byte(8) \div 32) % 4
<1>0. /\ PointerAt /\ input' = input /\ input \in Inputs
    BY DEF LoopInv, PointerIdentify, Identify, PointerFlags, PointerProgram, PointerLocation,
           PointerPrivate
<1>1. c8' = c8
    BY <1>0 DEF Byte
<1>2. length \in Nat
    BY <1>0, ByteType
<1> HIDE DEF c8
<1>3. \/ cur \in {0, 2, 3, 7, 8}
      \/ cur \in {4, 5, 6} /\ format # 255
      \/ cur \in {9, 11} /\ carriage = c8
      \/ cur \in Nat /\ cur > 11 /\ c8 = 1
    BY <1>0 DEF PointerAt, c8
<1>4. SUFFICES \/ cur' \in {0, 2, 3, 7, 8}
               \/ cur' \in {4, 5, 6} /\ format' # 255
               \/ cur' \in {9, 11} /\ carriage' = c8
               \/ cur' \in Nat /\ cur' > 11 /\ c8 = 1
    BY <1>1 DEF PointerAt, c8
<1>5. CASE PointerIdentify
    BY <1>3, <1>5 DEF PointerIdentify, Identify, Prints, AtService, Place
<1>6. CASE PointerFlags
    <2>1. /\ AtFlags /\ cur' = cur + 1 /\ format' = format
          /\ carriage' = (Byte(cur) \div 32) % 4
        BY <1>6 DEF PointerFlags, Prints
    <2>2. CASE cur = 5 /\ format # 255
        BY <2>1, <2>2
    <2>3. CASE cur = 8
        BY <2>1, <2>3 DEF c8
    <2> QED BY <2>1, <2>2, <2>3 DEF AtFlags, Place
<1>7. CASE PointerProgram
    <2>1. (cur = 6 \/ cur = 9) /\ cur' = cur + 2 /\ carriage' = carriage
        BY <1>7 DEF PointerProgram, Prints, AtProgram, Place
    <2> QED BY <1>3, <2>1
<1>8. CASE PointerLocation
    BY <1>3, <1>8 DEF PointerLocation, Prints
<1>9. CASE PointerPrivate
    <2>1. cur > 11 /\ cur' = cur + (length - cur) /\ cur < length
        BY <1>9 DEF PointerPrivate, Prints, More, length
    <2>2. cur \in Nat /\ c8 = 1
        BY <1>3, <2>1
    <2>3. cur' \in Nat /\ cur' > 11
        BY <1>2, <2>1, <2>2
    <2> QED BY <2>2, <2>3
<1> QED BY <1>5, <1>6, <1>7, <1>8, <1>9

LEMMA MetadataTurn ==
    ASSUME LoopInv, Of({"metadata"}), MetadataIdentify \/ MetadataFlags
    PROVE  MetadataAt'
<1>0. MetadataAt /\ input' = input /\ input \in Inputs
    BY DEF LoopInv, MetadataIdentify, Identify, MetadataFlags
<1>1. /\ FormatByte' = FormatByte /\ Once' = Once /\ (Twice' <=> Twice)
      /\ AfterFlags(8)' = AfterFlags(8)
    BY <1>0 DEF FormatByte, Once, Twice, AfterFlags, Byte
<1>2. /\ AfterFlags(8) \in Nat /\ AfterFlags(8) > 8 /\ AfterFlags(5) \in Nat /\ AfterFlags(5) > 5
      /\ Once \in Nat /\ Once > 5
    BY <1>0, FlagsFacts
<1>3. SUFFICES \/ cur' \in {0, 2}
               \/ cur' = 3 /\ format' = FormatByte
               \/ cur' \in {4, 5} /\ format' = FormatByte /\ FormatByte # 255
               \/ cur' \in {7, 8} /\ Twice
               \/ cur' = Once /\ ~Twice
               \/ cur' = AfterFlags(8) /\ Twice
    BY <1>1 DEF MetadataAt
<1>4. CASE MetadataIdentify
    <2>1. CASE cur = 0
        BY <1>4, <2>1 DEF MetadataIdentify, Identify, Prints, AtService, Place
    <2>2. CASE cur = 2
        BY <1>4, <2>2 DEF MetadataIdentify, Identify, Prints, AtService, Place, FormatByte
    <2>3. CASE cur = 3
        <3>1. format = FormatByte
            BY <1>0, <1>2, <2>3 DEF MetadataAt
        <3>2. ~AtService
            BY <2>3 DEF AtService, Place
        <3>3. (format = 255 /\ cur' = 7) \/ (format # 255 /\ cur' = 4 /\ format' = format)
            <4>1. \/ format = 255 /\ cur' = cur + 4
                  \/ format # 255 /\ cur' = 4 /\ format' = format
                BY <1>4, <2>3, <3>2 DEF MetadataIdentify, Identify, Prints
            <4> QED BY <2>3, <4>1
        <3> QED BY <3>1, <3>3 DEF Twice
    <2>4. CASE cur \notin {0, 2, 3}
        <3>1. ((cur = 4 /\ format # 255) \/ cur = 7) /\ cur' = cur + 1 /\ format' = format
            BY <1>4, <2>4 DEF MetadataIdentify, Identify, Prints, AtService, Place
        <3>2. cur = 4 => format = FormatByte
            BY <1>0, <1>2, <3>1 DEF MetadataAt
        <3>3. cur = 7 => Twice
            BY <1>0, <1>2 DEF MetadataAt, Twice
        <3> QED BY <3>1, <3>2, <3>3
    <2> QED BY <2>1, <2>2, <2>3, <2>4
<1>5. CASE MetadataFlags
    <2>1. /\ (cur = 5 /\ format # 255) \/ cur = 8
          /\ cur' = cur + (IF Byte(cur) \div 32 = 1 THEN 2 + Byte(cur + 1) ELSE 1)
        BY <1>5 DEF MetadataFlags, Prints, AtFlags, Place
    <2>2. CASE cur = 8
        <3>1. Twice
            BY <1>0, <1>2, <2>2 DEF MetadataAt, Twice
        <3>2. Byte(9) \in 0..255
            BY <1>0, ByteType
        <3>3. cur' = AfterFlags(8)
            BY <2>1, <2>2, <3>2 DEF AfterFlags
        <3> QED BY <3>1, <3>3
    <2>3. CASE cur = 5 /\ format # 255
        <3>1. FormatByte # 255
            BY <1>0, <1>2, <2>3 DEF MetadataAt
        <3>2. Byte(6) \in 0..255
            BY <1>0, ByteType
        <3>3. cur' = AfterFlags(5)
            BY <2>1, <2>3, <3>2 DEF AfterFlags
        <3>4. cur' = Once
            BY <3>1, <3>3 DEF Once
        <3> QED BY <3>1, <3>4 DEF Twice
    <2> QED BY <2>1, <2>2, <2>3
<1> QED BY <1>4, <1>5

\* A cell is found where it is.
LEMMA CellThere ==
    ASSUME NEW v \in Seq(0..255), NEW from \in Nat, NEW c, IsCell(c), Holds(v, from, c)
    PROVE  /\ Len(v) > 5 => CellSize(v, from, Len(v)) = Len(c)
           /\ Len(v) = 5 => CellSize(v, from, Len(v)) = 0
           /\ Len(v) \in Nat /\ Len(c) \in Nat /\ Len(c) >= 5 /\ from + Len(c) <= Len(v)
<1> DEFINE n == Len(c)
<1>1. /\ n \in Nat /\ 5 <= n /\ n < 32768 /\ 256 * c[4] + c[5] = n - 5
      /\ Len(v) \in Nat
    <2>1. c \in Seq(0..255)
        BY DEF IsCell
    <2>2. Len(c) \in Nat
        BY <2>1
    <2>3. Len(v) \in Nat
        OBVIOUS
    <2> HIDE DEF n
    <2> QED BY <2>2, <2>3 DEF IsCell, n
<1>2. from + n <= Len(v) /\ \A j \in 1..n : v[from + j] = c[j]
    BY DEF Holds
<1> HIDE DEF n
<1>3. v[from + 4] = c[4] /\ v[from + 5] = c[5]
    <2>1. 4 \in 1..n /\ 5 \in 1..n
        BY <1>1
    <2> QED BY <1>2, <2>1
<1>4. At(v, from + 3, Junk) = c[4] /\ At(v, from + 3 + 1, Junk) = c[5]
    <2>1. from + 3 < Len(v) /\ from + 3 + 1 < Len(v)
        BY <1>1, <1>2
    <2>2. (from + 3) + 1 = from + 4 /\ (from + 3 + 1) + 1 = from + 5
        OBVIOUS
    <2> QED BY <1>3, <2>1, <2>2 DEF At
<1>5. Short(v, from + 3, 65536, Junk) = n - 5
    <2>1. n - 5 \in Nat /\ n - 5 < 65536
        BY <1>1
    <2>2. (n - 5) % 65536 = n - 5
        BY <2>1
    <2>3. Short(v, from + 3, 65536, Junk) = (256 * c[4] + c[5]) % 65536
        BY <1>4 DEF Short
    <2> QED BY <1>1, <2>2, <2>3
<1>6. ASSUME Len(v) > 5 PROVE CellSize(v, from, Len(v)) = n
    <2>1. n - 5 < 32768 /\ (n - 5) + 5 = n /\ n \in 0..Len(v)
        BY <1>1, <1>2
    <2> HIDE DEF Junk
    <2> QED BY <1>5, <1>6, <2>1 DEF CellSize
<1>7. ASSUME Len(v) = 5 PROVE CellSize(v, from, Len(v)) = 0
    <2> HIDE DEF Junk
    <2> QED BY <1>5, <1>7 DEF CellSize
<1> QED BY <1>1, <1>2, <1>6, <1>7 DEF n

\* The cells that a wrapper was made from.
LEMMA Cells ==
    ASSUME input \in Inputs, Of({"wrapper"})
    PROVE  /\ input.bytes \in Seq(0..255) /\ Len(input.cells) \in Nat
           /\ input.cells \in Seq(Seq(0..255))
           /\ Len(input.cells) > 0 => IsCell(input.cells[1]) /\ Holds(input.bytes, 0, input.cells[1])
           /\ Len(input.cells) > 1 =>
                IsCell(input.cells[2]) /\ Holds(input.bytes, Len(input.cells[1]), input.cells[2])
<1>1. input.kind = "wrapper"
    BY DEF Of
<1>2. input.cells \in Seq(Seq(0..255)) /\ input.bytes \in Seq(0..255)
    BY InputsAssumption, <1>1
<1>3. Len(input.cells) \in Nat
    BY <1>2
<1>4. /\ Len(input.cells) > 0 => 1 \in 1..Len(input.cells)
      /\ Len(input.cells) > 1 => 2 \in 1..Len(input.cells)
    BY <1>3
<1> QED BY <1>1, <1>2, <1>3, <1>4, InputsAssumption

\* The second cell of a wrapper, if it has the size of the first, is found behind the
\* first, and again there.
LEMMA CellFound ==
    ASSUME input \in Inputs, Of({"wrapper"}), Len(input.cells) > 1,
           Len(input.cells[1]) = Len(input.cells[2]), cur \in {0, Len(input.cells[1])}
    PROVE  /\ CellSize(input.bytes, cur, Len(input.bytes)) = Len(input.cells[1])
           /\ Len(input.cells[1]) > 0
           /\ length \in Nat /\ cur \in Nat /\ cur < length
<1> DEFINE v == input.bytes
           n == Len(input.cells[1])
<1>1. /\ IsCell(input.cells[1]) /\ IsCell(input.cells[2])
      /\ Holds(v, 0, input.cells[1]) /\ Holds(v, n, input.cells[2]) /\ v \in Seq(0..255)
    BY Cells
<1>2. n \in Nat /\ n >= 5 /\ Len(v) \in Nat /\ 0 \in Nat
    BY <1>1, CellThere
<1>3. PICK c : IsCell(c) /\ Len(c) = n /\ Holds(v, cur, c)
    <2>1. CASE cur = 0
        BY <1>1, <2>1
    <2>2. CASE cur = n
        BY <1>1, <2>2
    <2> QED BY <2>1, <2>2
<1>4. cur \in Nat
    BY <1>2
<1> HIDE DEF v, n
<1>5. n + n <= Len(v)
    BY <1>1 DEF Holds, n
<1>6. Len(v) > 5 /\ n > 0
    BY <1>2, <1>5
<1>7. CellSize(v, cur, Len(v)) = n /\ cur + n <= Len(v)
    BY <1>1, <1>3, <1>4, <1>6, CellThere
<1>8. cur < Len(v)
    BY <1>2, <1>4, <1>6, <1>7
<1> QED BY <1>2, <1>4, <1>6, <1>7, <1>8 DEF v, n, length

\* What does not change, and how a loop is left.
LEMMA Left ==
    ASSUME [Next]_vars
    PROVE  /\ input' = input /\ (Endless' <=> Endless)
           /\ running' # running => Finish \/ WrapperCell \/ ParseNIT
           /\ idle' # idle => Spin /\ idle'
<1>1. input' = input
    BY DEF Next, PointerIdentify, MetadataIdentify, Identify, PointerFlags, PointerProgram,
           PointerLocation, PointerPrivate, MetadataFlags, STDField, Registration, Spin, Finish,
           WrapperCell, ParseNIT, vars
<1>2. Endless' <=> Endless
    BY <1>1 DEF Endless, Of, length, Byte, AfterFlags
<1>3. running' # running => Finish \/ WrapperCell \/ ParseNIT
    BY DEF Next, PointerIdentify, MetadataIdentify, Identify, PointerFlags, PointerProgram,
           PointerLocation, PointerPrivate, MetadataFlags, STDField, Registration, Spin, vars
<1>4. idle' # idle => Spin /\ idle'
    BY DEF Next, PointerIdentify, MetadataIdentify, Identify, PointerFlags, PointerProgram,
           PointerLocation, PointerPrivate, MetadataFlags, STDField, Registration, Spin, Finish,
           WrapperCell, ParseNIT, vars
<1> QED BY <1>1, <1>2, <1>3, <1>4

\* An endless loop has more before it, wherever it is.
LEMMA AlwaysMore ==
    ASSUME LoopInv, Endless
    PROVE  More
<1>0. input \in Inputs /\ running /\ length \in Nat
    BY ByteType DEF LoopInv
<1>1. CASE Of({"pointer"})
    <2>1. length > 11 /\ (Byte(8) \div 32) % 4 # 1
        BY <1>1 DEF Endless, Of
    <2>2. PointerAt
        BY <1>1 DEF LoopInv
    <2>3. cur \in {0, 2, 3, 7, 8, 4, 5, 6, 9, 11}
        BY <2>1, <2>2 DEF PointerAt
    <2> QED BY <1>0, <2>1, <2>3 DEF More, length
<1>2. CASE Of({"metadata"})
    <2>1. /\ length > Once
          /\ Once \in {7, 8} => length > AfterFlags(8)
        BY <1>2 DEF Endless, Of, Once, FormatByte
    <2>2. MetadataAt
        BY <1>2 DEF LoopInv
    <2>3. /\ AfterFlags(8) \in Nat /\ AfterFlags(8) > 8 /\ Once \in Nat /\ Once > 5
          /\ Once > 8 \/ FormatByte # 255
        BY <1>0, FlagsFacts
    <2>4. Twice => length > AfterFlags(8)
        BY <2>1 DEF Twice, Once
    <2>5. cur < length
        BY <1>0, <2>1, <2>2, <2>3, <2>4 DEF MetadataAt
    <2> QED BY <1>0, <2>5 DEF More, length
<1>3. CASE Of({"STD"})
    <2>1. length > 9
        BY <1>3 DEF Endless, Of
    <2>2. cur \in {0, 3, 6, 9}
        BY <1>3 DEF LoopInv, STDAt
    <2> QED BY <1>0, <2>1, <2>2 DEF More, length
<1>4. CASE Of({"wrapper"})
    <2>1. Len(input.cells) > 1 /\ Len(input.cells[1]) = Len(input.cells[2])
        BY <1>4 DEF Endless, Of
    <2>2. cur < length
        BY <1>0, <1>4, <2>1, CellFound DEF LoopInv, WrapperAt
    <2> QED BY <1>0, <2>2 DEF More, length
<1> QED BY <1>1, <1>2, <1>3, <1>4 DEF Endless

\* Where a loop turns without a change it has no end.
LEMMA SpinsThere ==
    ASSUME LoopInv, Spin
    PROVE  Endless
<1>0. /\ More /\ Stuck /\ input \in Inputs /\ length \in Nat /\ cur < length
    BY ByteType DEF LoopInv, Spin, More, length
<1>1. CASE Of({"pointer"}) /\ cur = 11 /\ carriage # 1
    <2>1. carriage = (Byte(8) \div 32) % 4
        BY <1>1 DEF LoopInv, PointerAt
    <2> QED BY <1>0, <1>1, <2>1 DEF Endless
<1>2. CASE Of({"metadata"}) /\ cur \notin {0, 2, 3} /\ ~AtService /\ ~AtFlags
    <2>1. /\ AfterFlags(8) \in Nat /\ AfterFlags(8) > 8 /\ Once \in Nat /\ Once > 5
        BY <1>0, FlagsFacts
    <2>2. MetadataAt
        BY <1>2 DEF LoopInv
    <2>3. (cur = Once /\ ~Twice) \/ (cur = AfterFlags(8) /\ Twice)
        BY <1>2, <2>2 DEF MetadataAt, AtService, AtFlags, Place
    <2>4. length > Once /\ (Once \in {7, 8} => length > AfterFlags(8))
        <3>1. CASE cur = Once /\ ~Twice
            BY <1>0, <3>1 DEF Twice
        <3>2. CASE cur = AfterFlags(8) /\ Twice
            <4>1. Once = AfterFlags(8) \/ Once \in {7, 8}
                BY <3>2 DEF Twice, Once
            <4> QED BY <1>0, <2>1, <3>2, <4>1
        <3> QED BY <2>3, <3>1, <3>2
    <2> QED BY <1>2, <2>4 DEF Endless, Once, FormatByte
<1>3. CASE Of({"STD"}) /\ cur \notin {0, 3, 6}
    <2>1. cur = 9
        BY <1>3 DEF LoopInv, STDAt
    <2> QED BY <1>0, <1>3, <2>1 DEF Endless
<1> QED BY <1>0, <1>1, <1>2, <1>3 DEF Stuck

\* A turn over any of them keeps to the places.
LEMMA PlacesStep ==
    ASSUME LoopInv, [Next]_vars
    PROVE  /\ Of({"pointer"})' => PointerAt'
           /\ Of({"metadata"})' => MetadataAt'
           /\ Of({"STD"})' => STDAt'
           /\ Of({"wrapper"})' => WrapperAt'
<1>0. input' = input /\ input \in Inputs
    BY Left DEF LoopInv
<1>1. ASSUME UNCHANGED <<cur, format, carriage>>
      PROVE  /\ Of({"pointer"})' => PointerAt'
             /\ Of({"metadata"})' => MetadataAt'
             /\ Of({"STD"})' => STDAt'
             /\ Of({"wrapper"})' => WrapperAt'
    BY <1>0, <1>1 DEF LoopInv, Of, PointerAt, MetadataAt, STDAt, WrapperAt, FormatByte, Once,
                      Twice, AfterFlags, Byte
<1>2. CASE Spin \/ Finish \/ ParseNIT \/ UNCHANGED vars
    BY <1>1, <1>2 DEF Spin, Finish, ParseNIT, vars
<1>3. CASE PointerIdentify \/ PointerFlags \/ PointerProgram \/ PointerLocation \/ PointerPrivate
    <2>1. input.kind = "pointer"
        BY <1>3 DEF PointerIdentify, PointerFlags, PointerProgram, PointerLocation,
                    PointerPrivate, Of
    <2>2. PointerAt'
        BY <1>3, <2>1, PointerTurn DEF Of
    <2> QED BY <1>0, <2>1, <2>2 DEF Of
<1>4. CASE MetadataIdentify \/ MetadataFlags
    <2>1. input.kind = "metadata"
        BY <1>4 DEF MetadataIdentify, MetadataFlags, Of
    <2>2. MetadataAt'
        BY <1>4, <2>1, MetadataTurn DEF Of
    <2> QED BY <1>0, <2>1, <2>2 DEF Of
<1>5. CASE STDField
    <2>1. input.kind = "STD" /\ STDAt'
        BY <1>5 DEF STDField, Of, Prints, STDAt
    <2> QED BY <1>0, <2>1 DEF Of
<1>6. CASE Registration
    <2>1. input.kind = "registration"
        BY <1>6 DEF Registration, Of
    <2> QED BY <1>0, <2>1 DEF Of
<1>7. CASE WrapperCell
    <2>1. input.kind = "wrapper"
        BY <1>7 DEF WrapperCell, Of
    <2>2. WrapperAt'
        <3>1. SUFFICES ASSUME Len(input.cells) > 1, Len(input.cells[1]) = Len(input.cells[2])
                       PROVE  cur' \in {0, Len(input.cells[1])}
            BY <1>0 DEF WrapperAt
        <3>2. cur \in {0, Len(input.cells[1])}
            BY <2>1, <3>1 DEF LoopInv, WrapperAt, Of
        <3>3. /\ CellSize(input.bytes, cur, Len(input.bytes)) = Len(input.cells[1])
            BY <1>0, <2>1, <3>1, <3>2, CellFound DEF Of
        <3>4. cur' = CellSize(input.bytes, cur, Len(input.bytes)) \/ cur' = cur
            BY <1>7 DEF WrapperCell
        <3> QED BY <3>2, <3>3, <3>4
    <2> QED BY <1>0, <2>1, <2>2 DEF Of
<1> QED BY <1>2, <1>3, <1>4, <1>5, <1>6, <1>7 DEF Next

LEMMA LoopStep ==
    ASSUME LoopInv, [Next]_vars
    PROVE  LoopInv'
<1>1. input' = input /\ (Endless' <=> Endless)
    BY Left
<1>2. Endless' => running'
    <2> SUFFICES ASSUME Endless PROVE running'
        BY <1>1
    <2>1. More /\ running /\ input \in Inputs
        BY AlwaysMore DEF LoopInv
    <2>2. ~Finish
        BY <2>1 DEF Finish
    <2>3. ~ParseNIT
        BY DEF ParseNIT, Endless, Of
    <2>4. CASE WrapperCell
        <3>1. input.kind = "wrapper"
            BY <2>4 DEF WrapperCell, Of
        <3>2. Len(input.cells) > 1 /\ Len(input.cells[1]) = Len(input.cells[2])
            BY <3>1 DEF Endless, Of
        <3>3. cur \in {0, Len(input.cells[1])}
            BY <3>1, <3>2 DEF LoopInv, WrapperAt, Of
        <3>4. /\ CellSize(input.bytes, cur, Len(input.bytes)) = Len(input.cells[1])
              /\ Len(input.cells[1]) > 0
            BY <2>1, <3>1, <3>2, <3>3, CellFound DEF Of
        <3>5. running' = running
            BY <2>4, <3>4 DEF WrapperCell
        <3> QED BY <2>1, <3>5
    <2>5. CASE ~WrapperCell
        BY <2>1, <2>2, <2>3, <2>5, Left
    <2> QED BY <2>4, <2>5
<1>3. idle' => Endless'
    BY <1>1, Left, SpinsThere DEF LoopInv
<1> QED BY <1>1, <1>2, <1>3, PlacesStep DEF LoopInv

\* A loop over any of the descriptors and wrappers that Endless names, whatever their
\* length and content, is never left: the program that reports them hangs.
THEOREM NeverEnds == Spec => [](Endless => running)
<1>1. LoopInv => (Endless => running)
    BY DEF LoopInv
<1>2. LoopInv /\ [Next]_vars => LoopInv'
    BY LoopStep
<1> QED BY LoopInit, <1>1, <1>2, PTL DEF Spec

\* Over any other descriptor no loop makes a turn that changes nothing: each moves its
\* cursor on, to the end of the descriptor.
THEOREM TurnsElsewhere == Spec => [](idle => Endless)
<1>1. LoopInv => (idle => Endless)
    BY DEF LoopInv
<1>2. LoopInv /\ [Next]_vars => LoopInv'
    BY LoopStep
<1> QED BY LoopInit, <1>1, <1>2, PTL DEF Spec

-----------------------------------------------------------------------------
(***************************************************************************)
(* What is found in a wrapper.                                             *)
(***************************************************************************)
LEMMA Appended ==
    ASSUME NEW S, NEW s \in Seq(S), NEW e \in S
    PROVE  /\ Append(s, e) \in Seq(S) /\ Len(Append(s, e)) = Len(s) + 1 /\ Len(s) \in Nat
           /\ \A k \in 1..Len(s) : Append(s, e)[k] = s[k]
           /\ Append(s, e)[Len(s) + 1] = e
OBVIOUS

\* The bytes of a cell, where it is.
LEMMA CellTaken ==
    ASSUME NEW v, NEW from \in Nat, NEW c \in Seq(0..255), Holds(v, from, c), Len(v) \in Nat
    PROVE  Take(v, from, Len(c), Junk) = c
<1> DEFINE f == [j \in 1..Len(c) |-> At(v, from + j - 1, Junk)]
<1>1. ASSUME NEW j \in 1..Len(c) PROVE f[j] = c[j]
    <2>1. v[from + j] = c[j] /\ from + Len(c) <= Len(v)
        BY DEF Holds
    <2>2. from + j - 1 < Len(v) /\ (from + j - 1) + 1 = from + j
        BY <2>1
    <2>3. At(v, from + j - 1, Junk) = v[from + j]
        BY <2>2 DEF At
    <2> QED BY <2>1, <2>3
<1>2. f = [j \in 1..Len(c) |-> c[j]]
    BY <1>1
<1>3. c = [j \in 1..Len(c) |-> c[j]]
    OBVIOUS
<1>4. f = c
    BY <1>2, <1>3, Zenon
<1> HIDE DEF f
<1>5. f \o <<>> = c
    BY <1>4
<1> QED BY <1>5 DEF Take, f

Pieces == {Take(input.bytes, k, n, Junk) : k \in Nat, n \in Nat}

\* The first cell was found, and the second behind it.
WrapperFound ==
    Of({"wrapper"}) =>
        /\ out \in Seq(Pieces)
        /\ cur \in Nat
        /\ Len(out) = 0 => cur = 0
        /\ Len(out) >= 1 => Len(input.cells) >= 1 /\ out[1] = input.cells[1] /\ Len(input.bytes) > 5
        /\ Len(out) = 1 => cur = Len(input.cells[1])
        /\ Len(out) >= 2 => Len(input.cells) >= 2 /\ out[2] = input.cells[2]
        /\ Len(input.cells) = 1 /\ ~running => (Len(out) = 1 <=> Len(input.cells[1]) > 5)

\* A turn over the cells: a piece, or the end.
LEMMA CellTurn ==
    ASSUME WrapperCell
    PROVE  LET v == input.bytes
               n == CellSize(v, cur, Len(v))
           IN  \/ n > 0 /\ cur' = n /\ out' = Append(out, Take(v, cur, n, Junk)) /\ running' = running
               \/ ~(n > 0) /\ cur' = cur /\ out' = out /\ running' = FALSE
BY DEF WrapperCell

LEMMA SizeType ==
    ASSUME NEW v, NEW from, Len(v) \in Nat
    PROVE  CellSize(v, from, Len(v)) \in Nat
<1> DEFINE m == Short(v, from + 3, 65536, Junk)
           signed == IF m < 32768 THEN m ELSE m - 65536
<1>1. CellSize(v, from, Len(v)) = IF Len(v) > 5 /\ signed + 5 \in 0..Len(v) THEN signed + 5 ELSE 0
    BY DEF CellSize
<1> HIDE DEF signed
<1>2. signed + 5 \in 0..Len(v) => signed + 5 \in Nat
    OBVIOUS
<1> QED BY <1>1, <1>2

LEMMA FoundStep ==
    ASSUME LoopInv, WrapperFound, [Next]_vars
    PROVE  WrapperFound'
<1>1. input' = input /\ input \in Inputs
    BY Left DEF LoopInv
<1>2. SUFFICES ASSUME Of({"wrapper"}) PROVE WrapperFound'
    BY <1>1 DEF WrapperFound, Of
<1> DEFINE v == input.bytes
           cells == input.cells
<1>3. /\ out \in Seq(Pieces) /\ cur \in Nat
      /\ Len(out) = 0 => cur = 0
      /\ Len(out) >= 1 => Len(cells) >= 1 /\ out[1] = cells[1] /\ Len(v) > 5
      /\ Len(out) = 1 => cur = Len(cells[1])
      /\ Len(out) >= 2 => Len(cells) >= 2 /\ out[2] = cells[2]
      /\ Len(cells) = 1 /\ ~running => (Len(out) = 1 <=> Len(cells[1]) > 5)
    BY <1>2 DEF WrapperFound
<1>4. /\ v \in Seq(0..255) /\ Len(cells) \in Nat /\ Len(v) \in Nat
      /\ Len(cells) > 0 => IsCell(cells[1]) /\ Holds(v, 0, cells[1])
      /\ Len(cells) > 1 => IsCell(cells[2]) /\ Holds(v, Len(cells[1]), cells[2])
      /\ Len(cells) = 0 => v = <<>>
      /\ Len(cells) = 1 => v = cells[1]
    BY <1>1, <1>2, Cells, InputsAssumption DEF Of
<1>5. Pieces' = Pieces
    BY <1>1 DEF Pieces
<1>6. Len(out) \in Nat
    BY <1>3
<1>7. Len(cells) > 0 => Len(cells[1]) \in Nat /\ Len(cells[1]) >= 5 /\ Len(cells[1]) <= Len(v)
    BY <1>4, CellThere
<1>8. CASE WrapperCell
    <2> DEFINE n == CellSize(v, cur, Len(v))
               piece == Take(v, cur, n, Junk)
    <2>1. cur < Len(v) /\ running
        BY <1>8 DEF WrapperCell, More
    <2>2. Len(cells) > 0
        BY <1>3, <1>4, <2>1
    <2>3. n \in Nat
        BY <1>4, SizeType
    <2>4. piece \in Pieces
        BY <1>3, <2>3 DEF Pieces
    <2>5. \/ n > 0 /\ cur' = n /\ out' = Append(out, piece) /\ running' = running
          \/ ~(n > 0) /\ cur' = cur /\ out' = out /\ running' = FALSE
        BY <1>8, CellTurn
    <2>6. ASSUME Len(out) = 0, Len(v) > 5
          PROVE  n = Len(cells[1]) /\ piece = cells[1]
        <3>1. cur = 0 /\ cells[1] \in Seq(0..255)
            BY <1>3, <1>4, <2>2, <2>6 DEF IsCell
        <3>2. n = Len(cells[1])
            BY <1>4, <2>2, <2>6, <3>1, CellThere
        <3> QED BY <1>4, <2>2, <3>1, <3>2, CellTaken
    <2>7. ASSUME Len(out) = 0, ~(Len(v) > 5)
          PROVE  n = 0 /\ Len(v) = 5
        <3>2. cur = 0 /\ Len(v) \in Nat /\ Len(cells[1]) \in Nat /\ Len(cells[1]) >= 5
                /\ Len(cells[1]) <= Len(v)
            BY <1>3, <1>4, <1>7, <2>2, <2>7
        <3> HIDE DEF v, cells, n, piece
        <3>3. Len(v) = 5
            <4>1. \A a \in Nat, l \in Nat : a >= 5 /\ a <= l /\ ~(l > 5) => l = 5
                OBVIOUS
            <4> QED BY <2>7, <3>2, <4>1
        <3>4. CellSize(v, 0, Len(v)) = 0
            BY <1>4, <2>2, <3>3, CellThere
        <3> QED BY <3>2, <3>3, <3>4 DEF n
    <2>8. ASSUME Len(out) = 1
          PROVE  Len(cells) > 1 /\ n = Len(cells[2]) /\ piece = cells[2]
        <3>1. cur = Len(cells[1])
            BY <1>3, <2>8
        <3>2. Len(cells) # 1
            BY <1>4, <2>1, <3>1
        <3>3. Len(cells) > 1
            <4> DEFINE m == Len(cells)
            <4>1. m \in Nat /\ m > 0 /\ m # 1
                BY <1>4, <2>2, <3>2
            <4> HIDE DEF m
            <4>2. m > 1
                BY <4>1
            <4> QED BY <4>2 DEF m
        <3>4. cells[2] \in Seq(0..255)
            BY <1>4, <3>3 DEF IsCell
        <3>5. Len(v) > 5
            <4>1. Len(cells[1]) + Len(cells[2]) <= Len(v) /\ Len(cells[2]) \in Nat /\ Len(cells[2]) >= 5
                BY <1>3, <1>4, <3>1, <3>3, CellThere
            <4>2. Len(cells[1]) \in Nat /\ Len(cells[1]) >= 5
                BY <1>7, <2>2
            <4> DEFINE a == Len(cells[1])
                       b == Len(cells[2])
                       l == Len(v)
            <4>3. a + b <= l /\ a \in Nat /\ b \in Nat /\ a >= 5 /\ b >= 5 /\ l \in Nat
                BY <1>4, <4>1, <4>2
            <4> HIDE DEF a, b, l
            <4>4. l > 5
                BY <4>3
            <4> QED BY <4>4 DEF l
        <3>6. n = Len(cells[2])
            BY <1>3, <1>4, <3>1, <3>3, <3>5, CellThere
        <3> QED BY <1>3, <1>4, <3>1, <3>3, <3>4, <3>6, CellTaken
    <2> HIDE DEF v, cells, n, piece
    <2>9. CASE n > 0 /\ cur' = n /\ out' = Append(out, piece) /\ running' = running
        <3>1. /\ out' \in Seq(Pieces) /\ Len(out') = Len(out) + 1
              /\ \A k \in 1..Len(out) : out'[k] = out[k]
              /\ out'[Len(out) + 1] = piece
            BY <1>3, <2>4, <2>9, Appended
        <3>2. CASE Len(out) = 0
            <4>1. Len(v) > 5
                BY <2>7, <2>9, <3>2
            <4>2. n = Len(cells[1]) /\ piece = cells[1]
                BY <2>6, <3>2, <4>1
            <4>3. Len(out') = 1 /\ out'[1] = cells[1] /\ Len(cells) >= 1
                <5>1. Len(out') = 0 + 1 /\ out'[0 + 1] = piece
                    BY <3>1, <3>2
                <5> QED BY <1>4, <2>2, <4>2, <5>1
            <4>4. running'
                BY <2>1, <2>9
            <4> QED BY <1>1, <1>5, <2>3, <2>9, <3>1, <4>1, <4>2, <4>3, <4>4 DEF WrapperFound, cells, v
        <3>3. CASE Len(out) = 1
            <4>1. Len(cells) > 1 /\ piece = cells[2]
                BY <2>8, <3>3
            <4>2. Len(out') = 2 /\ out'[2] = cells[2] /\ out'[1] = cells[1]
                <5>1. Len(out') = 1 + 1 /\ out'[1 + 1] = piece /\ out'[1] = out[1] /\ out[1] = cells[1]
                    BY <1>3, <3>1, <3>3
                <5> QED BY <4>1, <5>1
            <4>3. Len(cells) >= 2 /\ Len(cells) >= 1 /\ running'
                BY <1>4, <2>1, <2>9, <4>1
            <4> QED BY <1>1, <1>3, <1>5, <2>3, <2>9, <3>1, <3>3, <4>2, <4>3 DEF WrapperFound, cells, v
        <3>4. CASE Len(out) >= 2
            <4>1. /\ Len(out') >= 2 /\ out'[1] = cells[1] /\ out'[2] = cells[2]
                  /\ Len(cells) >= 1 /\ Len(cells) >= 2
                BY <1>3, <1>6, <3>1, <3>4
            <4>2. Len(out') # 0 /\ Len(out') # 1 /\ running'
                BY <1>6, <2>1, <2>9, <3>1, <3>4
            <4> QED BY <1>1, <1>3, <1>5, <1>6, <2>3, <2>9, <3>1, <3>4, <4>1, <4>2 DEF WrapperFound, cells, v
        <3> QED BY <1>6, <3>2, <3>3, <3>4
    <2>10. CASE ~(n > 0) /\ cur' = cur /\ out' = out /\ running' = FALSE
        <3>1. ASSUME Len(cells) = 1 PROVE Len(out) = 1 <=> Len(cells[1]) > 5
            <4>1. Len(out) # 1
                BY <2>8, <3>1
            <4>2. ~(Len(out) >= 2)
                BY <1>3, <3>1
            <4>3. Len(out) = 0
                <5>1. \A m \in Nat : m # 1 /\ ~(m >= 2) => m = 0
                    OBVIOUS
                <5> QED BY <1>6, <4>1, <4>2, <5>1
            <4>4. ~(Len(v) > 5)
                BY <1>7, <2>2, <2>6, <2>10, <4>3
            <4>5. v = cells[1]
                BY <1>4, <3>1
            <4> QED BY <4>1, <4>4, <4>5
        <3> QED BY <1>1, <1>3, <1>5, <2>10, <3>1 DEF WrapperFound, cells, v
    <2> QED BY <2>5, <2>9, <2>10
<1>9. CASE Finish
    <2>1. cur' = cur /\ out' = out /\ ~(cur < Len(v)) /\ running /\ ~running'
        BY <1>9 DEF Finish, More
    <2>2. ASSUME Len(cells) = 1 PROVE Len(out) = 1 <=> Len(cells[1]) > 5
        <3>1. Len(out) # 0
            BY <1>3, <1>4, <1>7, <2>1, <2>2
        <3>2. ~(Len(out) >= 2)
            BY <1>3, <2>2
        <3>3. Len(out) = 1
            <4>1. \A m \in Nat : m # 0 /\ ~(m >= 2) => m = 1
                OBVIOUS
            <4> QED BY <1>6, <3>1, <3>2, <4>1
        <3>4. Len(cells[1]) > 5
            <4>1. Len(v) > 5
                BY <1>3, <3>3
            <4>2. v = cells[1]
                BY <1>4, <2>2
            <4> QED BY <4>1, <4>2, Zenon
        <3> QED BY <3>3, <3>4
    <2> QED BY <1>1, <1>3, <1>5, <2>1, <2>2 DEF WrapperFound
<1>10. CASE UNCHANGED <<cur, out, running>>
    BY <1>1, <1>3, <1>5, <1>10 DEF WrapperFound
<1>11. WrapperCell \/ Finish \/ UNCHANGED <<cur, out, running>>
    BY <1>2 DEF Next, PointerIdentify, MetadataIdentify, PointerFlags, PointerProgram,
           PointerLocation, PointerPrivate, MetadataFlags, STDField, Registration, Spin, ParseNIT,
           Of, vars
<1> QED BY <1>8, <1>9, <1>10, <1>11

LEMMA FoundInit ==
    ASSUME Init
    PROVE  WrapperFound
<1>1. out = <<>> /\ cur = 0 /\ running = TRUE
    BY DEF Init
<1>2. out \in Seq(Pieces) /\ Len(out) = 0
    BY <1>1
<1> QED BY <1>1, <1>2 DEF WrapperFound

\* Whatever the sizes and the number of its cells, the first two that are found in a
\* wrapper are its first two, and a wrapper of one cell with data is that cell.
THEOREM CellsFound == Spec => []FindsCells
<1>1. ASSUME LoopInv, WrapperFound PROVE FindsCells
    <2> SUFFICES ASSUME Of({"wrapper"})
                 PROVE  /\ \A k \in 1..2 : k <= Len(out) => k <= Len(input.cells) /\ out[k] = input.cells[k]
                        /\ ~running /\ Len(input.cells) = 1 =>
                             (Len(input.cells[1]) > 5 <=> out = input.cells)
        BY DEF FindsCells
    <2>1. /\ input.cells \in Seq(Seq(0..255)) /\ Len(input.cells) \in Nat
        BY <1>1, Cells DEF LoopInv
    <2>2. /\ out \in Seq(Pieces)
          /\ Len(out) >= 1 => Len(input.cells) >= 1 /\ out[1] = input.cells[1]
          /\ Len(out) >= 2 => Len(input.cells) >= 2 /\ out[2] = input.cells[2]
          /\ Len(input.cells) = 1 /\ ~running => (Len(out) = 1 <=> Len(input.cells[1]) > 5)
        BY <1>1 DEF WrapperFound
    <2>3. ASSUME NEW k \in 1..2, k <= Len(out)
          PROVE  k <= Len(input.cells) /\ out[k] = input.cells[k]
        BY <2>1, <2>2, <2>3
    <2>4. ASSUME Len(input.cells) = 1, Len(out) = 1 PROVE out = input.cells
        <3>1. out[1] = input.cells[1]
            BY <2>2, <2>4
        <3>2. out = <<out[1]>> /\ input.cells = <<input.cells[1]>>
            BY <2>1, <2>2, <2>4
        <3> QED BY <3>1, <3>2, Zenon
    <2>5. ASSUME Len(input.cells) = 1, out = input.cells PROVE Len(out) = 1
        BY <2>5
    <2> QED BY <2>2, <2>3, <2>4, <2>5
<1>2. LoopInv /\ WrapperFound /\ [Next]_vars => LoopInv' /\ WrapperFound'
    BY LoopStep, FoundStep
<1>3. Init => LoopInv /\ WrapperFound
    BY LoopInit, FoundInit
<1> QED BY <1>1, <1>2, <1>3, PTL DEF Spec

-----------------------------------------------------------------------------
(***************************************************************************)
(* What is printed of a descriptor.                                        *)
(***************************************************************************)
\* The first fields, and the next of them.
LEMMA PrefixGrows ==
    ASSUME NEW S, NEW f \in Seq(S), NEW n \in Nat, n < Len(f)
    PROVE  Append(SubSeq(f, 1, n), f[n + 1]) = SubSeq(f, 1, n + 1)
<1> DEFINE a == Append(SubSeq(f, 1, n), f[n + 1])
           b == SubSeq(f, 1, n + 1)
<1>1. SubSeq(f, 1, n) \in Seq(S) /\ Len(SubSeq(f, 1, n)) = n /\ f[n + 1] \in S
    OBVIOUS
<1>2. \A k \in 1..n : SubSeq(f, 1, n)[k] = f[k]
    OBVIOUS
<1>3. /\ a \in Seq(S) /\ Len(a) = n + 1
      /\ \A k \in 1..n : a[k] = f[k]
      /\ a[n + 1] = f[n + 1]
    BY <1>1, <1>2, Appended
<1>4. b \in Seq(S) /\ Len(b) = n + 1 /\ \A k \in 1..(n + 1) : b[k] = f[k]
    OBVIOUS
<1> HIDE DEF a, b
<1>5. \A k \in 1..(n + 1) : a[k] = b[k]
    BY <1>3, <1>4
<1>6. a = b
    BY <1>3, <1>4, <1>5
<1> QED BY <1>6 DEF a, b

Plain == Of({"pointer", "metadata", "STD", "registration"})

\* What PrintsFields says nothing of.
Exempt ==
    \/ Of({"pointer", "metadata"}) /\ length > 2 /\ Byte(2) # 255
    \/ Of({"pointer"}) /\ (Byte(8) \div 32) % 4 = 3

Names == {"application_format", "format", "format_identifier", "service_id", "flags",
          "program_number", "location", "private_data", "input_leak_rate", "buffer_size",
          "output_leak_rate", "additional"}

\* The fields of each kind, one by one.
LEMMA PointerFields ==
    ASSUME input.kind = "pointer"
    PROVE  LET c8 == (Byte(8) \div 32) % 4
           IN  /\ Fields \in Seq(Names \X Nat)
               /\ Len(Fields) = IF c8 = 1 THEN 8 ELSE 7
               /\ Fields[1] = <<"application_format", 0>> /\ Fields[2] = <<"format", 2>>
               /\ Fields[3] = <<"format_identifier", 3>> /\ Fields[4] = <<"service_id", 7>>
               /\ Fields[5] = <<"flags", 8>> /\ Fields[6] = <<"program_number", 9>>
               /\ c8 = 1 => Fields[7] = <<"location", 11>> /\ Fields[8] = <<"private_data", 15>>
               /\ c8 # 1 => Fields[7] = <<"private_data", 11>>
<1> DEFINE c8 == (Byte(8) \div 32) % 4
<1>1. CASE c8 = 1
    <2>1. Fields = <<<<"application_format", 0>>, <<"format", 2>>, <<"format_identifier", 3>>,
                     <<"service_id", 7>>, <<"flags", 8>>, <<"program_number", 9>>,
                     <<"location", 11>>, <<"private_data", 15>>>>
        BY <1>1 DEF Fields, Of
    <2>2. /\ Fields \in Seq(Names \X Nat) /\ Len(Fields) = 8
          /\ Fields[1] = <<"application_format", 0>> /\ Fields[2] = <<"format", 2>>
          /\ Fields[3] = <<"format_identifier", 3>> /\ Fields[4] = <<"service_id", 7>>
          /\ Fields[5] = <<"flags", 8>> /\ Fields[6] = <<"program_number", 9>>
          /\ Fields[7] = <<"location", 11>> /\ Fields[8] = <<"private_data", 15>>
        BY <2>1 DEF Names
    <2> QED BY <1>1, <2>2
<1>2. CASE c8 # 1
    <2>1. Fields = <<<<"application_format", 0>>, <<"format", 2>>, <<"format_identifier", 3>>,
                     <<"service_id", 7>>, <<"flags", 8>>, <<"program_number", 9>>,
                     <<"private_data", 11>>>>
        BY <1>2 DEF Fields, Of
    <2>2. /\ Fields \in Seq(Names \X Nat) /\ Len(Fields) = 7
          /\ Fields[1] = <<"application_format", 0>> /\ Fields[2] = <<"format", 2>>
          /\ Fields[3] = <<"format_identifier", 3>> /\ Fields[4] = <<"service_id", 7>>
          /\ Fields[5] = <<"flags", 8>> /\ Fields[6] = <<"program_number", 9>>
          /\ Fields[7] = <<"private_data", 11>>
        BY <2>1 DEF Names
    <2> QED BY <1>2, <2>2
<1> QED BY <1>1, <1>2

LEMMA MetadataFields ==
    ASSUME input.kind = "metadata"
    PROVE  /\ Fields \in Seq(Names \X Nat) /\ Len(Fields) = 5
           /\ Fields[1] = <<"application_format", 0>> /\ Fields[2] = <<"format", 2>>
           /\ Fields[3] = <<"format_identifier", 3>> /\ Fields[4] = <<"service_id", 7>>
           /\ Fields[5] = <<"flags", 8>>
<1>1. Fields = <<<<"application_format", 0>>, <<"format", 2>>, <<"format_identifier", 3>>,
                 <<"service_id", 7>>, <<"flags", 8>>>>
    BY DEF Fields, Of
<1> QED BY <1>1 DEF Names

LEMMA STDFields ==
    ASSUME input.kind = "STD"
    PROVE  /\ Fields \in Seq(Names \X Nat) /\ Len(Fields) = 3
           /\ Fields[1] = <<"input_leak_rate", 0>> /\ Fields[2] = <<"buffer_size", 3>>
           /\ Fields[3] = <<"output_leak_rate", 6>>
<1>1. Fields = <<<<"input_leak_rate", 0>>, <<"buffer_size", 3>>, <<"output_leak_rate", 6>>>>
    BY DEF Fields, Of
<1> QED BY <1>1 DEF Names

LEMMA RegistrationFields ==
    ASSUME input.kind = "registration", length \in Nat
    PROVE  /\ Fields \in Seq(Names \X Nat) /\ Len(Fields) = length
           /\ \A k \in 1..length :
                Fields[k] = IF k = 1 THEN <<"format_identifier", 0>> ELSE <<"additional", k + 2>>
<1> DEFINE f == [k \in 1..length |->
                   IF k = 1 THEN <<"format_identifier", 0>> ELSE <<"additional", k + 2>>]
<1>1. Fields = f
    BY DEF Fields, Of
<1>2. f \in [1..length -> Names \X Nat]
    BY DEF Names
<1>3. \A k \in 1..length :
        f[k] = IF k = 1 THEN <<"format_identifier", 0>> ELSE <<"additional", k + 2>>
    OBVIOUS
<1> HIDE DEF f
<1>4. f \in Seq(Names \X Nat) /\ Len(f) = length
    BY <1>2
<1> QED BY <1>1, <1>3, <1>4

\* How many fields were printed, and where the cursor is then.
PointerNext ==
    LET c8 == (Byte(8) \div 32) % 4
        n == Len(out)
    IN  \/ n = 0 /\ cur = 0
        \/ n = 1 /\ cur = 2
        \/ n = 2 /\ cur = 3 /\ format = 255
        \/ n = 3 /\ cur = 7
        \/ n = 4 /\ cur = 8
        \/ n = 5 /\ cur = 9 /\ carriage = c8
        \/ n = 6 /\ cur = 11 /\ carriage = c8
        \/ n = 7 /\ cur = 15 /\ c8 = 1
        \/ n = 8 /\ cur = length /\ c8 = 1

MetadataNext ==
    LET n == Len(out)
    IN  \/ n = 0 /\ cur = 0
        \/ n = 1 /\ cur = 2
        \/ n = 2 /\ cur = 3 /\ format = 255
        \/ n = 3 /\ cur = 7
        \/ n = 4 /\ cur = 8
        \/ n = 5 /\ cur = AfterFlags(8)

STDNext == Len(out) \in 0..3 /\ cur = 3 * Len(out)

RegistrationNext == cur = IF Len(out) = 0 THEN 0 ELSE Len(out) + 3

PrintInv ==
    Plain /\ ~Exempt =>
        /\ Len(out) \in Nat /\ Len(out) <= Len(Fields)
        /\ out = SubSeq(Fields, 1, Len(out))
        /\ \A k \in 1..Len(out) : Fields[k][2] < length
        /\ Of({"pointer"}) => PointerNext
        /\ Of({"metadata"}) => MetadataNext
        /\ Of({"STD"}) => STDNext
        /\ Of({"registration"}) => RegistrationNext
        /\ ~running => ~(cur < length)

\* The field that is next in Fields is printed, from the cursor.
PrintsNext ==
    /\ Len(out) < Len(Fields)
    /\ out' = Append(out, Fields[Len(out) + 1])
    /\ Fields[Len(out) + 1][2] = cur
    /\ cur < length

LEMMA PointerPrints ==
    ASSUME input \in Inputs, input.kind = "pointer", ~Exempt, PointerNext,
           out \in Seq(Names \X Nat),
           PointerIdentify \/ PointerFlags \/ PointerProgram \/ PointerLocation \/ PointerPrivate
    PROVE  PrintsNext /\ (Len(out') = Len(out) + 1 => PointerNext')
<1> DEFINE c8 == (Byte(8) \div 32) % 4
           n == Len(out)
<1>1. /\ input' = input /\ length \in Nat /\ c8 # 3 /\ c8 \in 0..3
      /\ cur < length /\ (length > 2 => Byte(2) = 255)
    <2>1. input' = input /\ cur < length
        BY DEF PointerIdentify, Identify, PointerFlags, PointerProgram, PointerLocation,
               PointerPrivate, More, length
    <2>2. Byte(8) \in 0..255 /\ length \in Nat
        BY ByteType
    <2>3. c8 # 3 /\ (length > 2 => Byte(2) = 255)
        BY DEF Exempt, Of
    <2> HIDE DEF Byte
    <2>5. \A b \in Nat : (b \div 32) % 4 \in 0..3
        OBVIOUS
    <2>6. Byte(8) \in Nat
        <3>1. \A b \in 0..255 : b \in Nat
            OBVIOUS
        <3> QED BY <2>2, <3>1, Zenon
    <2>4. c8 \in 0..3
        BY <2>5, <2>6
    <2> QED BY <2>1, <2>2, <2>3, <2>4
<1>2. c8' = c8 /\ length' = length
    BY <1>1 DEF Byte, length
<1>3. /\ Len(Fields) = IF c8 = 1 THEN 8 ELSE 7
      /\ Fields[1] = <<"application_format", 0>> /\ Fields[2] = <<"format", 2>>
      /\ Fields[3] = <<"format_identifier", 3>> /\ Fields[4] = <<"service_id", 7>>
      /\ Fields[5] = <<"flags", 8>> /\ Fields[6] = <<"program_number", 9>>
      /\ c8 = 1 => Fields[7] = <<"location", 11>> /\ Fields[8] = <<"private_data", 15>>
    BY PointerFields
<1>4. \/ n = 0 /\ cur = 0
      \/ n = 1 /\ cur = 2
      \/ n = 2 /\ cur = 3 /\ format = 255
      \/ n = 3 /\ cur = 7
      \/ n = 4 /\ cur = 8
      \/ n = 5 /\ cur = 9 /\ carriage = c8
      \/ n = 6 /\ cur = 11 /\ carriage = c8
      \/ n = 7 /\ cur = 15 /\ c8 = 1
      \/ n = 8 /\ cur = length /\ c8 = 1
    BY DEF PointerNext
<1> DEFINE Moves(m, k, c) == /\ n = m /\ m < Len(Fields)
                             /\ out' = Append(out, Fields[m + 1]) /\ Fields[m + 1][2] = k /\ cur = k
                             /\ cur' = c
<1>5. \/ Moves(0, 0, 2)
      \/ Moves(1, 2, 3) /\ format' = 255
      \/ Moves(2, 3, 7)
      \/ Moves(3, 7, 8)
      \/ Moves(4, 8, 9) /\ carriage' = c8
      \/ Moves(5, 9, 11) /\ carriage' = c8
      \/ Moves(6, 11, 15) /\ c8 = 1
      \/ Moves(7, 15, length) /\ c8 = 1
    <2> HIDE DEF n, Byte, c8
    <2>1. CASE n = 0 /\ cur = 0
        <3>1. out' = Append(out, <<"application_format", 0>>) /\ cur' = 2
            BY <2>1 DEF PointerIdentify, Identify, PointerFlags, PointerProgram, PointerLocation,
                   PointerPrivate, Prints, AtService, AtFlags, AtProgram, Place
        <3>3. Fields[0 + 1] = <<"application_format", 0>> /\ 0 < Len(Fields)
            BY <1>3
        <3>4. Fields[0 + 1][2] = 0
            BY <3>3
        <3>5. Moves(0, 0, 2)
            BY <2>1, <3>1, <3>3, <3>4
        <3> QED BY <3>5
    <2>2. CASE n = 1 /\ cur = 2
        <3>1. out' = Append(out, <<"format", 2>>) /\ cur' = 3 /\ format' = Byte(2)
            BY <2>2 DEF PointerIdentify, Identify, PointerFlags, PointerProgram, PointerLocation,
                   PointerPrivate, Prints, AtService, AtFlags, AtProgram, Place
        <3>3. Fields[1 + 1] = <<"format", 2>> /\ 1 < Len(Fields)
            BY <1>3
        <3>4. Fields[1 + 1][2] = 2
            BY <3>3
        <3>5. Moves(1, 2, 3)
            BY <2>2, <3>1, <3>3, <3>4
        <3>6. format' = 255
            BY <1>1, <2>2, <3>1
        <3> QED BY <3>5, <3>6
    <2>3. CASE n = 2 /\ cur = 3 /\ format = 255
        <3>1. out' = Append(out, <<"format_identifier", 3>>) /\ cur' = 7
            BY <2>3 DEF PointerIdentify, Identify, PointerFlags, PointerProgram, PointerLocation,
                   PointerPrivate, Prints, AtService, AtFlags, AtProgram, Place
        <3>3. Fields[2 + 1] = <<"format_identifier", 3>> /\ 2 < Len(Fields)
            BY <1>3
        <3>4. Fields[2 + 1][2] = 3
            BY <3>3
        <3>5. Moves(2, 3, 7)
            BY <2>3, <3>1, <3>3, <3>4
        <3> QED BY <3>5
    <2>4. CASE n = 3 /\ cur = 7
        <3>1. out' = Append(out, <<"service_id", 7>>) /\ cur' = 8
            BY <2>4 DEF PointerIdentify, Identify, PointerFlags, PointerProgram, PointerLocation,
                   PointerPrivate, Prints, AtService, AtFlags, AtProgram, Place
        <3>3. Fields[3 + 1] = <<"service_id", 7>> /\ 3 < Len(Fields)
            BY <1>3
        <3>4. Fields[3 + 1][2] = 7
            BY <3>3
        <3>5. Moves(3, 7, 8)
            BY <2>4, <3>1, <3>3, <3>4
        <3> QED BY <3>5
    <2>5. CASE n = 4 /\ cur = 8
        <3>1. out' = Append(out, <<"flags", 8>>) /\ cur' = 9 /\ carriage' = c8
            BY <2>5 DEF PointerIdentify, Identify, PointerFlags, PointerProgram, PointerLocation,
                   PointerPrivate, Prints, AtService, AtFlags, AtProgram, Place, c8
        <3>3. Fields[4 + 1] = <<"flags", 8>> /\ 4 < Len(Fields)
            BY <1>3
        <3>4. Fields[4 + 1][2] = 8
            BY <3>3
        <3>5. Moves(4, 8, 9)
            BY <2>5, <3>1, <3>3, <3>4
        <3> QED BY <3>1, <3>5
    <2>6. CASE n = 5 /\ cur = 9 /\ carriage = c8
        <3>1. out' = Append(out, <<"program_number", 9>>) /\ cur' = 11 /\ carriage' = carriage
            BY <1>1, <2>6 DEF PointerIdentify, Identify, PointerFlags, PointerProgram, PointerLocation,
                   PointerPrivate, Prints, AtService, AtFlags, AtProgram, Place
        <3>3. Fields[5 + 1] = <<"program_number", 9>> /\ 5 < Len(Fields)
            BY <1>3
        <3>4. Fields[5 + 1][2] = 9
            BY <3>3
        <3>5. Moves(5, 9, 11)
            BY <2>6, <3>1, <3>3, <3>4
        <3> QED BY <2>6, <3>1, <3>5
    <2>7. CASE n = 6 /\ cur = 11 /\ carriage = c8
        <3>1. out' = Append(out, <<"location", 11>>) /\ cur' = 15 /\ c8 = 1
            BY <2>7 DEF PointerIdentify, Identify, PointerFlags, PointerProgram, PointerLocation,
                   PointerPrivate, Prints, AtService, AtFlags, AtProgram, Place
        <3>3. Fields[6 + 1] = <<"location", 11>> /\ 6 < Len(Fields)
            BY <1>3, <3>1
        <3>4. Fields[6 + 1][2] = 11
            BY <3>3
        <3>5. Moves(6, 11, 15)
            BY <2>7, <3>1, <3>3, <3>4
        <3> QED BY <3>1, <3>5
    <2>8. CASE n = 7 /\ cur = 15 /\ c8 = 1
        <3>1. out' = Append(out, <<"private_data", 15>>) /\ cur' = 15 + (length - 15)
            BY <2>8 DEF PointerIdentify, Identify, PointerFlags, PointerProgram, PointerLocation,
                   PointerPrivate, Prints, AtService, AtFlags, AtProgram, Place, length
        <3>2. cur' = length
            BY <1>1, <3>1
        <3>3. Fields[7 + 1] = <<"private_data", 15>> /\ 7 < Len(Fields)
            BY <1>3, <2>8
        <3>4. Fields[7 + 1][2] = 15
            BY <3>3
        <3>5. Moves(7, 15, length)
            BY <2>8, <3>1, <3>2, <3>3, <3>4
        <3> QED BY <2>8, <3>5
    <2>9. CASE n = 8 /\ cur = length /\ c8 = 1
        BY <1>1, <2>9
    <2> QED BY <1>4, <2>1, <2>2, <2>3, <2>4, <2>5, <2>6, <2>7, <2>8, <2>9
<1> HIDE DEF c8
<1>6. ASSUME NEW m \in Nat, NEW k, NEW c, Moves(m, k, c)
      PROVE  PrintsNext /\ (Len(out') = Len(out) + 1 => Len(out') = m + 1) /\ cur' = c
    BY <1>1, <1>6 DEF PrintsNext
<1> HIDE DEF c8, Moves
<1>7. PrintsNext
    BY <1>5, <1>6
<1>8. ASSUME Len(out') = Len(out) + 1 PROVE PointerNext'
    <2>1. ASSUME NEW m \in Nat, NEW k, NEW c, Moves(m, k, c)
          PROVE  Len(out') = m + 1 /\ cur' = c
        BY <1>6, <1>8, <2>1
    <2>2. \/ Len(out') = 0 + 1 /\ cur' = 2
          \/ Len(out') = 1 + 1 /\ cur' = 3 /\ format' = 255
          \/ Len(out') = 2 + 1 /\ cur' = 7
          \/ Len(out') = 3 + 1 /\ cur' = 8
          \/ Len(out') = 4 + 1 /\ cur' = 9 /\ carriage' = c8
          \/ Len(out') = 5 + 1 /\ cur' = 11 /\ carriage' = c8
          \/ Len(out') = 6 + 1 /\ cur' = 15 /\ c8 = 1
          \/ Len(out') = 7 + 1 /\ cur' = length /\ c8 = 1
        <3>1. /\ Moves(0, 0, 2) => Len(out') = 0 + 1 /\ cur' = 2
              /\ Moves(1, 2, 3) => Len(out') = 1 + 1 /\ cur' = 3
              /\ Moves(2, 3, 7) => Len(out') = 2 + 1 /\ cur' = 7
              /\ Moves(3, 7, 8) => Len(out') = 3 + 1 /\ cur' = 8
              /\ Moves(4, 8, 9) => Len(out') = 4 + 1 /\ cur' = 9
              /\ Moves(5, 9, 11) => Len(out') = 5 + 1 /\ cur' = 11
              /\ Moves(6, 11, 15) => Len(out') = 6 + 1 /\ cur' = 15
              /\ Moves(7, 15, length) => Len(out') = 7 + 1 /\ cur' = length
            BY <2>1
        <3> QED BY <1>5, <3>1, Zenon
    <2>3. /\ 0 + 1 = 1 /\ 1 + 1 = 2 /\ 2 + 1 = 3 /\ 3 + 1 = 4 /\ 4 + 1 = 5 /\ 5 + 1 = 6
          /\ 6 + 1 = 7 /\ 7 + 1 = 8
        OBVIOUS
    <2> QED BY <1>2, <2>2, <2>3 DEF PointerNext, c8
<1> QED BY <1>7, <1>8

LEMMA MetadataPrints ==
    ASSUME input \in Inputs, input.kind = "metadata", ~Exempt, MetadataNext,
           MetadataIdentify \/ MetadataFlags
    PROVE  PrintsNext /\ (Len(out') = Len(out) + 1 => MetadataNext')
<1> DEFINE n == Len(out)
           after == AfterFlags(8)
<1>1. /\ input' = input /\ cur < length /\ length \in Nat
      /\ (length > 2 => Byte(2) = 255)
    BY ByteType DEF MetadataIdentify, Identify, MetadataFlags, More, length, Exempt, Of
<1>2. after' = after
    BY <1>1 DEF AfterFlags, Byte
<1>3. after \in Nat /\ after > 8
    BY FlagsFacts
<1>4. /\ Len(Fields) = 5
      /\ Fields[1] = <<"application_format", 0>> /\ Fields[2] = <<"format", 2>>
      /\ Fields[3] = <<"format_identifier", 3>> /\ Fields[4] = <<"service_id", 7>>
      /\ Fields[5] = <<"flags", 8>>
    BY MetadataFields
<1>5. \/ n = 0 /\ cur = 0
      \/ n = 1 /\ cur = 2
      \/ n = 2 /\ cur = 3 /\ format = 255
      \/ n = 3 /\ cur = 7
      \/ n = 4 /\ cur = 8
      \/ n = 5 /\ cur = after
    BY DEF MetadataNext
<1> DEFINE Moves(m, k, c) == /\ n = m /\ m < Len(Fields)
                             /\ out' = Append(out, Fields[m + 1]) /\ Fields[m + 1][2] = k /\ cur = k
                             /\ cur' = c
<1>6. \/ Moves(0, 0, 2)
      \/ Moves(1, 2, 3) /\ format' = 255
      \/ Moves(2, 3, 7)
      \/ Moves(3, 7, 8)
      \/ Moves(4, 8, after)
    <2> HIDE DEF n, after
    <2>1. CASE n = 0 /\ cur = 0
        <3>1. out' = Append(out, <<"application_format", 0>>) /\ cur' = 2
            BY <2>1 DEF MetadataIdentify, Identify, MetadataFlags, Prints, AtService, AtFlags, Place
        <3>2. Fields[0 + 1] = <<"application_format", 0>> /\ 0 < Len(Fields)
            BY <1>4
        <3>3. Fields[0 + 1][2] = 0
            BY <3>2
        <3> QED BY <2>1, <3>1, <3>2, <3>3
    <2>2. CASE n = 1 /\ cur = 2
        <3>1. out' = Append(out, <<"format", 2>>) /\ cur' = 3 /\ format' = Byte(2)
            BY <2>2 DEF MetadataIdentify, Identify, MetadataFlags, Prints, AtService, AtFlags, Place
        <3>2. Fields[1 + 1] = <<"format", 2>> /\ 1 < Len(Fields)
            BY <1>4
        <3>3. Fields[1 + 1][2] = 2
            BY <3>2
        <3>4. format' = 255
            BY <1>1, <2>2, <3>1
        <3>5. Moves(1, 2, 3)
            BY <2>2, <3>1, <3>2, <3>3
        <3> QED BY <3>4, <3>5
    <2>3. CASE n = 2 /\ cur = 3 /\ format = 255
        <3>1. out' = Append(out, <<"format_identifier", 3>>) /\ cur' = 7
            BY <2>3 DEF MetadataIdentify, Identify, MetadataFlags, Prints, AtService, AtFlags, Place
        <3>2. Fields[2 + 1] = <<"format_identifier", 3>> /\ 2 < Len(Fields)
            BY <1>4
        <3>3. Fields[2 + 1][2] = 3
            BY <3>2
        <3>4. Moves(2, 3, 7)
            BY <2>3, <3>1, <3>2, <3>3
        <3> QED BY <3>4
    <2>4. CASE n = 3 /\ cur = 7
        <3>1. out' = Append(out, <<"service_id", 7>>) /\ cur' = 8
            BY <2>4 DEF MetadataIdentify, Identify, MetadataFlags, Prints, AtService, AtFlags, Place
        <3>2. Fields[3 + 1] = <<"service_id", 7>> /\ 3 < Len(Fields)
            BY <1>4
        <3>3. Fields[3 + 1][2] = 7
            BY <3>2
        <3>4. Moves(3, 7, 8)
            BY <2>4, <3>1, <3>2, <3>3
        <3> QED BY <3>4
    <2>5. CASE n = 4 /\ cur = 8
        <3>0. Byte(9) \in Nat
            <4>1. Byte(9) \in 0..255
                BY ByteType
            <4>2. \A b \in 0..255 : b \in Nat
                OBVIOUS
            <4> QED BY <4>1, <4>2, Zenon
        <3>1. /\ out' = Append(out, <<"flags", 8>>)
              /\ cur' = 8 + (IF Byte(8) \div 32 = 1 THEN 2 + Byte(8 + 1) ELSE 1)
            BY <2>5 DEF MetadataIdentify, Identify, MetadataFlags, Prints, AtService, AtFlags, Place
        <3>2. Fields[4 + 1] = <<"flags", 8>> /\ 4 < Len(Fields)
            BY <1>4
        <3>3. Fields[4 + 1][2] = 8
            BY <3>2
        <3>4. cur' = after
            <4> HIDE DEF Byte
            <4> QED BY <3>0, <3>1 DEF after, AfterFlags
        <3>5. Moves(4, 8, after)
            BY <2>5, <3>1, <3>2, <3>3, <3>4
        <3> QED BY <3>5
    <2>6. CASE n = 5 /\ cur = after
        BY <1>3, <2>6 DEF MetadataIdentify, Identify, MetadataFlags, AtService, AtFlags, Place
    <2> QED BY <1>5, <2>1, <2>2, <2>3, <2>4, <2>5, <2>6
<1>7. ASSUME NEW m \in Nat, NEW k, NEW c, Moves(m, k, c)
      PROVE  PrintsNext /\ (Len(out') = Len(out) + 1 => Len(out') = m + 1) /\ cur' = c
    BY <1>1, <1>7 DEF PrintsNext
<1> HIDE DEF Moves, after
<1>8. PrintsNext
    BY <1>6, <1>7
<1>9. ASSUME Len(out') = Len(out) + 1 PROVE MetadataNext'
    <2>1. ASSUME NEW m \in Nat, NEW k, NEW c, Moves(m, k, c)
          PROVE  Len(out') = m + 1 /\ cur' = c
        BY <1>7, <1>9, <2>1
    <2>2. /\ Moves(0, 0, 2) => Len(out') = 0 + 1 /\ cur' = 2
          /\ Moves(1, 2, 3) => Len(out') = 1 + 1 /\ cur' = 3
          /\ Moves(2, 3, 7) => Len(out') = 2 + 1 /\ cur' = 7
          /\ Moves(3, 7, 8) => Len(out') = 3 + 1 /\ cur' = 8
          /\ Moves(4, 8, after) => Len(out') = 4 + 1 /\ cur' = after
        BY <2>1
    <2>3. \/ Len(out') = 0 + 1 /\ cur' = 2
          \/ Len(out') = 1 + 1 /\ cur' = 3 /\ format' = 255
          \/ Len(out') = 2 + 1 /\ cur' = 7
          \/ Len(out') = 3 + 1 /\ cur' = 8
          \/ Len(out') = 4 + 1 /\ cur' = after
        BY <1>6, <2>2, Zenon
    <2>4. 0 + 1 = 1 /\ 1 + 1 = 2 /\ 2 + 1 = 3 /\ 3 + 1 = 4 /\ 4 + 1 = 5
        OBVIOUS
    <2> QED BY <1>2, <2>3, <2>4 DEF MetadataNext, after
<1> QED BY <1>8, <1>9

LEMMA STDPrints ==
    ASSUME input.kind = "STD", STDNext, STDField
    PROVE  PrintsNext /\ (Len(out') = Len(out) + 1 => STDNext')
<1> DEFINE n == Len(out)
<1>1. input' = input /\ cur < length /\ n \in 0..3 /\ cur = 3 * n
    BY DEF STDField, More, length, STDNext
<1>2. /\ Len(Fields) = 3
      /\ Fields[1] = <<"input_leak_rate", 0>> /\ Fields[2] = <<"buffer_size", 3>>
      /\ Fields[3] = <<"output_leak_rate", 6>>
    BY STDFields
<1> HIDE DEF n
<1>3. /\ n \in 0..2 /\ cur' = 3 * (n + 1)
      /\ out' = Append(out, Fields[n + 1]) /\ Fields[n + 1][2] = cur
    <2>1. CASE n = 0
        BY <1>1, <1>2, <2>1 DEF STDField, Prints
    <2>2. CASE n = 1
        BY <1>1, <1>2, <2>2 DEF STDField, Prints
    <2>3. CASE n = 2
        BY <1>1, <1>2, <2>3 DEF STDField, Prints
    <2>4. CASE n = 3
        BY <1>1, <2>4 DEF STDField
    <2> QED BY <1>1, <2>1, <2>2, <2>3, <2>4
<1>4. PrintsNext
    <2>1. n < Len(Fields)
        BY <1>2, <1>3
    <2> QED BY <1>1, <1>3, <2>1 DEF PrintsNext, n
<1>5. Len(out') = n + 1 => STDNext'
    BY <1>3 DEF STDNext
<1> QED BY <1>4, <1>5 DEF n

LEMMA RegistrationPrints ==
    ASSUME input.kind = "registration", length \in Nat, Len(out) \in Nat, RegistrationNext,
           Registration
    PROVE  PrintsNext /\ (Len(out') = Len(out) + 1 => RegistrationNext')
<1> DEFINE n == Len(out)
<1>1. input' = input /\ cur < length /\ n \in Nat /\ cur = IF n = 0 THEN 0 ELSE n + 3
    BY DEF Registration, More, length, RegistrationNext
<1>2. /\ Len(Fields) = length
      /\ \A k \in 1..length :
           Fields[k] = IF k = 1 THEN <<"format_identifier", 0>> ELSE <<"additional", k + 2>>
    BY RegistrationFields
<1> HIDE DEF n
<1>3. n + 1 \in 1..length /\ n < length
    BY <1>1
<1>4. Fields[n + 1] = IF n = 0 THEN <<"format_identifier", 0>> ELSE <<"additional", n + 3>>
    <2>1. (n + 1) + 2 = n + 3 /\ (n + 1 = 1 <=> n = 0)
        BY <1>1
    <2> QED BY <1>2, <1>3, <2>1
<1>5. /\ cur' = (n + 1) + 3
      /\ out' = Append(out, Fields[n + 1]) /\ Fields[n + 1][2] = cur
    <2>1. CASE n = 0
        <3>1. cur = 0 /\ Fields[n + 1] = <<"format_identifier", 0>>
            BY <1>1, <1>4, <2>1
        <3> QED BY <2>1, <3>1 DEF Registration, Prints
    <2>2. CASE n # 0
        <3>1. cur = n + 3 /\ Fields[n + 1] = <<"additional", n + 3>> /\ cur # 0
            BY <1>1, <1>4, <2>2
        <3>2. cur' = cur + 1 /\ out' = Append(out, <<"additional", cur>>)
            BY <3>1 DEF Registration, Prints
        <3>3. cur' = (n + 1) + 3
            BY <1>1, <3>1, <3>2
        <3> QED BY <3>1, <3>2, <3>3
    <2> QED BY <2>1, <2>2
<1>6. PrintsNext
    BY <1>1, <1>2, <1>3, <1>5 DEF PrintsNext, n
<1>7. Len(out') = n + 1 => RegistrationNext'
    BY <1>1, <1>5 DEF RegistrationNext
<1> QED BY <1>6, <1>7 DEF n

\* The descriptors' fields are sequences, whatever the kind.
LEMMA FieldsType ==
    ASSUME input \in Inputs, Plain
    PROVE  Fields \in Seq(Names \X Nat) /\ length \in Nat
<1>1. length \in Nat
    <2>1. 0 \in Nat
        OBVIOUS
    <2> QED BY <2>1, ByteType
<1>2. \/ input.kind = "pointer" \/ input.kind = "metadata" \/ input.kind = "STD"
      \/ input.kind = "registration"
    BY DEF Plain, Of
<1>3. input.kind = "pointer" => Fields \in Seq(Names \X Nat)
    BY PointerFields
<1>4. input.kind = "metadata" => Fields \in Seq(Names \X Nat)
    BY MetadataFields
<1>5. input.kind = "STD" => Fields \in Seq(Names \X Nat)
    BY STDFields
<1>6. input.kind = "registration" => Fields \in Seq(Names \X Nat)
    BY <1>1, RegistrationFields
<1> QED BY <1>1, <1>2, <1>3, <1>4, <1>5, <1>6, Zenon

LEMMA CursorType ==
    ASSUME input \in Inputs, Plain, ~Exempt, PrintInv
    PROVE  cur \in Nat
<1>1. length \in Nat /\ Len(out) \in Nat
    BY FieldsType DEF PrintInv
<1>2. AfterFlags(8) \in Nat
    BY FlagsFacts
<1>3. CASE input.kind = "pointer"
    BY <1>1, <1>3 DEF PrintInv, PointerNext, Of
<1>4. CASE input.kind = "metadata"
    BY <1>2, <1>4 DEF PrintInv, MetadataNext, Of
<1>5. CASE input.kind = "STD"
    BY <1>5 DEF PrintInv, STDNext, Of
<1>6. CASE input.kind = "registration"
    BY <1>1, <1>6 DEF PrintInv, RegistrationNext, Of
<1> QED BY <1>3, <1>4, <1>5, <1>6 DEF Plain, Of

\* A field that was not printed begins at the cursor or behind it.
LEMMA Behind ==
    ASSUME input \in Inputs, Plain, ~Exempt, PrintInv, NEW k \in 1..Len(Fields), k > Len(out)
    PROVE  Fields[k][2] >= cur
<1>1. Fields \in Seq(Names \X Nat) /\ length \in Nat /\ Len(out) \in Nat
    BY FieldsType DEF PrintInv
<1> DEFINE n == Len(out)
           m == Len(Fields)
<1>2. n \in Nat /\ m \in Nat /\ k \in 1..m /\ k > n
    BY <1>1
<1>3. CASE input.kind = "pointer"
    <2> DEFINE c8 == (Byte(8) \div 32) % 4
    <2>1. /\ m = IF c8 = 1 THEN 8 ELSE 7
          /\ Fields[1] = <<"application_format", 0>> /\ Fields[2] = <<"format", 2>>
          /\ Fields[3] = <<"format_identifier", 3>> /\ Fields[4] = <<"service_id", 7>>
          /\ Fields[5] = <<"flags", 8>> /\ Fields[6] = <<"program_number", 9>>
          /\ c8 = 1 => Fields[7] = <<"location", 11>> /\ Fields[8] = <<"private_data", 15>>
          /\ c8 # 1 => Fields[7] = <<"private_data", 11>>
        BY <1>3, PointerFields
    <2>2. \/ n = 0 /\ cur = 0
          \/ n = 1 /\ cur = 2
          \/ n = 2 /\ cur = 3
          \/ n = 3 /\ cur = 7
          \/ n = 4 /\ cur = 8
          \/ n = 5 /\ cur = 9
          \/ n = 6 /\ cur = 11
          \/ n = 7 /\ cur = 15 /\ c8 = 1
          \/ n = 8 /\ c8 = 1
        BY <1>3 DEF PrintInv, PointerNext, Of
    <2> HIDE DEF c8, n, m
    <2>3. Fields[1][2] = 0 /\ Fields[2][2] = 2 /\ Fields[3][2] = 3 /\ Fields[4][2] = 7
          /\ Fields[5][2] = 8 /\ Fields[6][2] = 9
          /\ (c8 = 1 => Fields[7][2] = 11 /\ Fields[8][2] = 15)
          /\ (c8 # 1 => Fields[7][2] = 11)
        BY <2>1
    <2> DEFINE Loc(j) == Fields[j][2]
    <2>4. Loc(1) = 0 /\ Loc(2) = 2 /\ Loc(3) = 3 /\ Loc(4) = 7
          /\ Loc(5) = 8 /\ Loc(6) = 9
          /\ (c8 = 1 => Loc(7) = 11 /\ Loc(8) = 15)
          /\ (c8 # 1 => Loc(7) = 11)
        BY <2>3
    <2>5. k \in 1..8 /\ (c8 # 1 => k \in 1..7)
        BY <1>2, <2>1
    <2> HIDE DEF Loc
    <2>6. Loc(k) >= cur
        BY <1>2, <2>2, <2>4, <2>5
    <2> QED BY <2>6 DEF Loc
<1>4. CASE input.kind = "metadata"
    <2>1. /\ m = 5
          /\ Fields[1] = <<"application_format", 0>> /\ Fields[2] = <<"format", 2>>
          /\ Fields[3] = <<"format_identifier", 3>> /\ Fields[4] = <<"service_id", 7>>
          /\ Fields[5] = <<"flags", 8>>
        BY <1>4, MetadataFields
    <2>2. \/ n = 0 /\ cur = 0
          \/ n = 1 /\ cur = 2
          \/ n = 2 /\ cur = 3
          \/ n = 3 /\ cur = 7
          \/ n = 4 /\ cur = 8
          \/ n = 5
        BY <1>4 DEF PrintInv, MetadataNext, Of
    <2> HIDE DEF n, m
    <2> DEFINE Loc(j) == Fields[j][2]
    <2>3. Loc(1) = 0 /\ Loc(2) = 2 /\ Loc(3) = 3 /\ Loc(4) = 7 /\ Loc(5) = 8
        BY <2>1
    <2>4. k \in 1..5
        BY <1>2, <2>1
    <2> HIDE DEF Loc
    <2>5. Loc(k) >= cur
        BY <1>2, <2>2, <2>3, <2>4
    <2> QED BY <2>5 DEF Loc
<1>5. CASE input.kind = "STD"
    <2>1. /\ m = 3
          /\ Fields[1] = <<"input_leak_rate", 0>> /\ Fields[2] = <<"buffer_size", 3>>
          /\ Fields[3] = <<"output_leak_rate", 6>>
        BY <1>5, STDFields
    <2>2. n \in 0..3 /\ cur = 3 * n
        BY <1>5 DEF PrintInv, STDNext, Of
    <2> HIDE DEF n, m
    <2> DEFINE Loc(j) == Fields[j][2]
    <2>3. Loc(1) = 0 /\ Loc(2) = 3 /\ Loc(3) = 6
        BY <2>1
    <2>4. k \in 1..3
        BY <1>2, <2>1
    <2> HIDE DEF Loc
    <2>5. Loc(k) >= cur
        BY <1>2, <2>2, <2>3, <2>4
    <2> QED BY <2>5 DEF Loc
<1>6. CASE input.kind = "registration"
    <2>1. /\ m = length
          /\ \A j \in 1..length :
               Fields[j] = IF j = 1 THEN <<"format_identifier", 0>> ELSE <<"additional", j + 2>>
        BY <1>1, <1>6, RegistrationFields
    <2>2. cur = IF n = 0 THEN 0 ELSE n + 3
        BY <1>6 DEF PrintInv, RegistrationNext, Of
    <2> HIDE DEF n, m
    <2>3. k \in 1..length
        BY <1>2, <2>1
    <2>4. Fields[k][2] = IF k = 1 THEN 0 ELSE k + 2
        <3>1. Fields[k] = IF k = 1 THEN <<"format_identifier", 0>> ELSE <<"additional", k + 2>>
            BY <2>1, <2>3
        <3> QED BY <3>1
    <2> QED BY <1>2, <2>2, <2>4
<1> QED BY <1>3, <1>4, <1>5, <1>6 DEF Plain, Of

\* What there is to print is the input's, and no step changes that.
LEMMA SameFields ==
    ASSUME input' = input
    PROVE  /\ (Plain' <=> Plain) /\ (Exempt' <=> Exempt) /\ Fields' = Fields /\ length' = length
           /\ \A kinds : Of(kinds)' <=> Of(kinds)
<1>1. length' = length /\ \A k : Byte(k)' = Byte(k)
    BY DEF length, Byte
<1>2. \A kinds : Of(kinds)' <=> Of(kinds)
    BY DEF Of
<1>3. Fields' = Fields
    BY DEF Fields, length, Byte, Of
<1> QED BY <1>1, <1>2, <1>3 DEF Plain, Exempt, Of, Byte

\* A field that is printed is the next, and the cursor is moved to the one after it.
LEMMA FieldPrinted ==
    ASSUME input \in Inputs, Plain, ~Exempt, PrintInv, running,
           \/ PointerIdentify \/ PointerFlags \/ PointerProgram \/ PointerLocation \/ PointerPrivate
           \/ MetadataIdentify \/ MetadataFlags \/ STDField \/ Registration
    PROVE  /\ PrintsNext
           /\ Len(out') = Len(out) + 1 =>
                /\ Of({"pointer"}) => PointerNext'
                /\ Of({"metadata"}) => MetadataNext'
                /\ Of({"STD"}) => STDNext'
                /\ Of({"registration"}) => RegistrationNext'
<1>1. Fields \in Seq(Names \X Nat) /\ length \in Nat
    BY FieldsType
<1>2. out \in Seq(Names \X Nat) /\ Len(out) \in Nat
    <2>1. out = SubSeq(Fields, 1, Len(out)) /\ Len(out) \in Nat /\ Len(out) <= Len(Fields)
        BY DEF PrintInv
    <2>2. \A n \in Nat : n <= Len(Fields) => SubSeq(Fields, 1, n) \in Seq(Names \X Nat)
        BY <1>1
    <2> QED BY <2>1, <2>2
<1>3. CASE input.kind = "pointer"
    <2>1. PointerNext
        BY <1>3 DEF PrintInv, Of
    <2>2. PointerIdentify \/ PointerFlags \/ PointerProgram \/ PointerLocation \/ PointerPrivate
        BY <1>3 DEF MetadataIdentify, MetadataFlags, STDField, Registration, Of
    <2>3. PrintsNext /\ (Len(out') = Len(out) + 1 => PointerNext')
        BY <1>2, <1>3, <2>1, <2>2, PointerPrints
    <2> QED BY <1>3, <2>3 DEF Of
<1>4. CASE input.kind = "metadata"
    <2>1. MetadataNext
        BY <1>4 DEF PrintInv, Of
    <2>2. MetadataIdentify \/ MetadataFlags
        BY <1>4 DEF PointerIdentify, PointerFlags, PointerProgram, PointerLocation, PointerPrivate,
               STDField, Registration, Of
    <2>3. PrintsNext /\ (Len(out') = Len(out) + 1 => MetadataNext')
        BY <1>4, <2>1, <2>2, MetadataPrints
    <2> QED BY <1>4, <2>3 DEF Of
<1>5. CASE input.kind = "STD"
    <2>1. STDNext
        BY <1>5 DEF PrintInv, Of
    <2>2. STDField
        BY <1>5 DEF PointerIdentify, PointerFlags, PointerProgram, PointerLocation, PointerPrivate,
               MetadataIdentify, MetadataFlags, Registration, Of
    <2>3. PrintsNext /\ (Len(out') = Len(out) + 1 => STDNext')
        BY <1>5, <2>1, <2>2, STDPrints
    <2> QED BY <1>5, <2>3 DEF Of
<1>6. CASE input.kind = "registration"
    <2>1. RegistrationNext
        BY <1>6 DEF PrintInv, Of
    <2>2. Registration
        BY <1>6 DEF PointerIdentify, PointerFlags, PointerProgram, PointerLocation, PointerPrivate,
               MetadataIdentify, MetadataFlags, STDField, Of
    <2>3. PrintsNext /\ (Len(out') = Len(out) + 1 => RegistrationNext')
        BY <1>1, <1>2, <1>6, <2>1, <2>2, RegistrationPrints
    <2> QED BY <1>6, <2>3 DEF Of
<1> QED BY <1>3, <1>4, <1>5, <1>6 DEF Plain, Of

LEMMA PrintStep ==
    ASSUME LoopInv, PrintInv, [Next]_vars
    PROVE  PrintInv'
<1> SUFFICES ASSUME Plain, ~Exempt
             PROVE  /\ Len(out') \in Nat /\ Len(out') <= Len(Fields)
                    /\ out' = SubSeq(Fields, 1, Len(out'))
                    /\ \A k \in 1..Len(out') : Fields[k][2] < length
                    /\ Of({"pointer"}) => PointerNext'
                    /\ Of({"metadata"}) => MetadataNext'
                    /\ Of({"STD"}) => STDNext'
                    /\ Of({"registration"}) => RegistrationNext'
                    /\ ~running' => ~(cur' < length)
    <2>1. input' = input
        BY Left
    <2>2. /\ (Plain' <=> Plain) /\ (Exempt' <=> Exempt) /\ Fields' = Fields /\ length' = length
          /\ \A kinds : Of(kinds)' <=> Of(kinds)
        BY <2>1, SameFields
    <2> QED BY <2>2 DEF PrintInv
<1>1. input \in Inputs /\ input' = input
    BY Left DEF LoopInv
<1>2. Fields \in Seq(Names \X Nat) /\ length \in Nat
    BY <1>1, FieldsType
<1>3. /\ Len(out) \in Nat /\ Len(out) <= Len(Fields)
      /\ out = SubSeq(Fields, 1, Len(out))
      /\ \A k \in 1..Len(out) : Fields[k][2] < length
      /\ ~running => ~(cur < length)
    BY DEF PrintInv
<1>4. CASE \/ PointerIdentify \/ PointerFlags \/ PointerProgram \/ PointerLocation \/ PointerPrivate
           \/ MetadataIdentify \/ MetadataFlags \/ STDField \/ Registration
    <2>1. running /\ running' = running
        BY <1>4 DEF PointerIdentify, PointerFlags, PointerProgram, PointerLocation, PointerPrivate,
               MetadataIdentify, MetadataFlags, STDField, Registration, Identify, More
    <2>2. /\ PrintsNext
          /\ Len(out') = Len(out) + 1 =>
                /\ Of({"pointer"}) => PointerNext'
                /\ Of({"metadata"}) => MetadataNext'
                /\ Of({"STD"}) => STDNext'
                /\ Of({"registration"}) => RegistrationNext'
        BY <1>1, <1>4, <2>1, FieldPrinted
    <2> DEFINE n == Len(out)
    <2>3. /\ n < Len(Fields) /\ out' = Append(out, Fields[n + 1])
          /\ Fields[n + 1][2] = cur /\ cur < length
        BY <2>2 DEF PrintsNext
    <2>4. n \in Nat /\ out = SubSeq(Fields, 1, n) /\ \A k \in 1..n : Fields[k][2] < length
        BY <1>3
    <2> HIDE DEF n
    <2>5. out' = SubSeq(Fields, 1, n + 1)
        BY <1>2, <2>3, <2>4, PrefixGrows
    <2>6. Len(out') = n + 1 /\ n + 1 <= Len(Fields) /\ n + 1 \in Nat
        BY <1>2, <2>3, <2>4, <2>5
    <2>7. \A k \in 1..(n + 1) : Fields[k][2] < length
        BY <2>3, <2>4
    <2>8. Len(out') = Len(out) + 1
        BY <2>6 DEF n
    <2> QED BY <2>1, <2>2, <2>5, <2>6, <2>7, <2>8
<1>5. CASE UNCHANGED <<cur, format, carriage, out>> /\ (running' = running \/ Finish)
    <2>1. ~running' => ~(cur' < length)
        BY <1>3, <1>5 DEF Finish, More, length
    <2>2. /\ PointerNext' <=> PointerNext
          /\ MetadataNext' <=> MetadataNext
          /\ STDNext' <=> STDNext
          /\ RegistrationNext' <=> RegistrationNext
        BY <1>1, <1>5 DEF PointerNext, MetadataNext, STDNext, RegistrationNext, Byte, length, AfterFlags
    <2>3. /\ Of({"pointer"}) => PointerNext
          /\ Of({"metadata"}) => MetadataNext
          /\ Of({"STD"}) => STDNext
          /\ Of({"registration"}) => RegistrationNext
        BY DEF PrintInv
    <2> QED BY <1>3, <1>5, <2>1, <2>2, <2>3
<1>6. \/ PointerIdentify \/ PointerFlags \/ PointerProgram \/ PointerLocation \/ PointerPrivate
      \/ MetadataIdentify \/ MetadataFlags \/ STDField \/ Registration
      \/ UNCHANGED <<cur, format, carriage, out>> /\ (running' = running \/ Finish)
    <2>1. ~WrapperCell /\ ~ParseNIT
        BY DEF Plain, Of, WrapperCell, ParseNIT
    <2> QED BY <2>1 DEF Next, Spin, Finish, vars
<1> QED BY <1>4, <1>5, <1>6

LEMMA PrintInit ==
    ASSUME Init
    PROVE  PrintInv
<1> SUFFICES ASSUME Plain PROVE PrintInv
    BY DEF PrintInv
<1>1. out = <<>> /\ cur = 0 /\ running = TRUE /\ input \in Inputs
    BY DEF Init
<1>2. Fields \in Seq(Names \X Nat)
    BY <1>1, FieldsType
<1>3. Len(out) = 0 /\ SubSeq(Fields, 1, 0) = <<>> /\ 0 <= Len(Fields)
    BY <1>1, <1>2
<1>4. PointerNext /\ MetadataNext /\ STDNext /\ RegistrationNext
    BY <1>1, <1>3 DEF PointerNext, MetadataNext, STDNext, RegistrationNext
<1> QED BY <1>1, <1>3, <1>4 DEF PrintInv

\* Of a descriptor of any length and content, the fields that begin in it are printed,
\* each once, from its place and in order, and no other.
THEOREM FieldsPrinted == Spec => []PrintsFields
<1>1. ASSUME LoopInv, PrintInv PROVE PrintsFields
    <2> SUFFICES ASSUME Plain, ~running, ~Exempt
                 PROVE  /\ IsPrefix(out, Fields)
                        /\ \A k \in DOMAIN Fields : k <= Len(out) <=> Fields[k][2] < length
        BY DEF PrintsFields, Plain, Exempt
    <2>1. input \in Inputs
        BY <1>1 DEF LoopInv
    <2>2. Fields \in Seq(Names \X Nat) /\ length \in Nat
        BY <2>1, FieldsType
    <2> DEFINE n == Len(out)
    <2>3. /\ n \in Nat /\ n <= Len(Fields)
          /\ out = SubSeq(Fields, 1, n)
          /\ \A k \in 1..n : Fields[k][2] < length
          /\ ~(cur < length)
        BY <1>1 DEF PrintInv
    <2>4. IsPrefix(out, Fields)
        <3>1. SubSeq(out, 1, n) = SubSeq(Fields, 1, n)
            <4> HIDE DEF n
            <4>1. \A s \in Seq(Names \X Nat) : Len(s) = n => SubSeq(s, 1, n) = s
                BY <2>3
            <4>2. out \in Seq(Names \X Nat)
                BY <2>2, <2>3
            <4>3. Len(out) = n
                BY DEF n
            <4> QED BY <2>3, <4>1, <4>2, <4>3
        <3> QED BY <2>3, <3>1 DEF IsPrefix
    <2>5. ASSUME NEW k \in DOMAIN Fields, k > n
          PROVE  ~(Fields[k][2] < length)
        <3>1. k \in 1..Len(Fields)
            BY <2>2
        <3>2. Fields[k][2] >= cur
            BY <1>1, <2>1, <2>5, <3>1, Behind
        <3>3. Fields[k][2] \in Nat
            BY <2>2, <3>1, Element
        <3>4. cur \in Nat
            BY <1>1, <2>1, CursorType
        <3> QED BY <2>2, <2>3, <3>2, <3>3, <3>4
    <2>6. ASSUME NEW k \in DOMAIN Fields
          PROVE  k <= n <=> Fields[k][2] < length
        <3>1. k \in 1..Len(Fields)
            BY <2>2
        <3>2. k <= n => k \in 1..n
            BY <2>3, <3>1
        <3>3. k <= n \/ k > n
            BY <2>3, <3>1
        <3> QED BY <2>3, <2>5, <3>2, <3>3, <3>1
    <2> QED BY <2>4, <2>6
<1>2. LoopInv /\ PrintInv /\ [Next]_vars => LoopInv' /\ PrintInv'
    BY LoopStep, PrintStep
<1>3. Init => LoopInv /\ PrintInv
    BY LoopInit, PrintInit
<1> QED BY <1>1, <1>2, <1>3, PTL DEF Spec

-----------------------------------------------------------------------------
\* The descriptors that addDescriptor keeps of a sequence: the first of each tag, in
\* their order.
LEMMA FirstsGrow ==
    ASSUME NEW S, NEW u \in Seq(S), NEW x \in S
    PROVE  /\ (\E k \in 1..Len(u) : u[k].tag = x.tag) => Firsts(Append(u, x)) = Firsts(u)
           /\ ~(\E k \in 1..Len(u) : u[k].tag = x.tag) =>
                 Firsts(Append(u, x)) = Firsts(u) \cup {Len(u) + 1}
<1> DEFINE w == Append(u, x)
           n == Len(u)
<1>1. /\ Len(w) = n + 1 /\ n \in Nat /\ w[n + 1] = x /\ \A i \in 1..n : w[i] = u[i]
      /\ DOMAIN w = 1..(n + 1) /\ DOMAIN u = 1..n
    <2>1. w \in Seq(S) /\ Len(w) = n + 1 /\ n \in Nat /\ w[n + 1] = x /\ \A i \in 1..n : w[i] = u[i]
        BY AppendProperties, LenProperties
    <2> HIDE DEF w
    <2> QED BY <2>1, LenProperties
<1> HIDE DEF w, n
<1>2. ASSUME NEW k \in 1..n
      PROVE  k \in Firsts(w) <=> k \in Firsts(u)
    <2>1. k \in 1..(n + 1) /\ w[k] = u[k] /\ \A j \in 1..(k - 1) : w[j] = u[j]
        BY <1>1
    <2> QED BY <1>1, <2>1 DEF Firsts
<1>3. n + 1 \in Firsts(w) <=> ~\E k \in 1..n : u[k].tag = x.tag
    <2>1. n + 1 \in 1..(n + 1) /\ (n + 1) - 1 = n
        BY <1>1
    <2>2. n + 1 \in Firsts(w) <=> \A j \in 1..n : w[j].tag # x.tag
        BY <1>1, <2>1 DEF Firsts
    <2> QED BY <1>1, <2>2
<1>4. /\ \A k \in Firsts(w) : k \in 1..n \/ k = n + 1
      /\ \A k \in Firsts(u) : k \in 1..n
    <2>1. \A k \in 1..(n + 1) : k \in 1..n \/ k = n + 1
        BY <1>1
    <2> QED BY <1>1, <2>1 DEF Firsts
<1>5. ~(n + 1 \in Firsts(u))
    BY <1>1, <1>4
<1>6. (\E k \in 1..n : u[k].tag = x.tag) => Firsts(w) = Firsts(u)
    BY <1>2, <1>3, <1>4
<1>7. ~(\E k \in 1..n : u[k].tag = x.tag) => Firsts(w) = Firsts(u) \cup {n + 1}
    BY <1>2, <1>3, <1>4
<1> QED BY <1>6, <1>7 DEF w, n

\* Some descriptor has a tag, then so has one of the first.
LEMMA FirstOfTag ==
    ASSUME NEW S, NEW u \in Seq(S), NEW k \in 1..Len(u)
    PROVE  \E i \in Firsts(u) : u[i].tag = u[k].tag
<1> DEFINE T == {j \in 1..Len(u) : u[j].tag = u[k].tag}
<1>1. Len(u) \in Nat /\ DOMAIN u = 1..Len(u)
    BY LenProperties
<1>2. T \subseteq Nat /\ k \in T
    BY <1>1
<1>3. PICK i \in T : \A j \in T : i <= j
    <2> HIDE DEF T
    <2> QED BY <1>2, LeastNat
<1>4. i \in 1..Len(u) /\ u[i].tag = u[k].tag
    OBVIOUS
<1>5. ASSUME NEW j \in 1..(i - 1) PROVE u[j].tag # u[i].tag
    <2>1. j \in 1..Len(u) /\ ~(i <= j)
        BY <1>1, <1>4
    <2>2. j \notin T
        <3> HIDE DEF T
        <3> QED BY <1>3, <2>1
    <2> QED BY <1>4, <2>1, <2>2
<1>6. i \in Firsts(u)
    BY <1>1, <1>4, <1>5 DEF Firsts
<1> QED BY <1>4, <1>6

LEMMA KeptFirsts ==
    ASSUME NEW S, NEW ds \in Seq(S)
    PROVE  KeepsFirsts(OfEachTag(ds), ds)
<1> DEFINE G == {u \in Seq(S) : OfEachTag(u) \in Seq(S) /\ KeepsFirsts(OfEachTag(u), u)}
<1>1. <<>> \in G
    <2>1. OfEachTag(<<>>) = <<>>
        BY KeptNone
    <2>2. Len(<<>>) = 0 /\ 1..0 = {} /\ DOMAIN <<>> = {}
        OBVIOUS
    <2>3. Firsts(<<>>) = {}
        BY <2>2 DEF Firsts
    <2>4. KeepsFirsts(<<>>, <<>>)
        <3> DEFINE at == [i \in 1..0 |-> 0]
        <3>1. at \in [1..0 -> {}]
            BY <2>2
        <3> HIDE DEF at
        <3> QED BY <2>2, <2>3, <3>1 DEF KeepsFirsts
    <2> QED BY <2>1, <2>4, EmptySeq
<1>2. ASSUME NEW u \in Seq(S), NEW x \in S, u \in G PROVE Append(u, x) \in G
    <2> DEFINE w == Append(u, x)
               n == Len(u)
               o == OfEachTag(u)
               m == Len(o)
               there == \E k \in 1..n : u[k].tag = x.tag
    <2>1. /\ w \in Seq(S) /\ Len(w) = n + 1 /\ n \in Nat /\ w[n + 1] = x
          /\ \A i \in 1..n : w[i] = u[i]
        BY AppendProperties, LenProperties
    <2>2. OfEachTag(w) = addDescriptor(o, x)
        BY KeptAppend
    <2>3. o \in Seq(S) /\ KeepsFirsts(o, u) /\ m \in Nat /\ DOMAIN u = 1..n
        BY <1>2, LenProperties
    <2>4. (there => Firsts(w) = Firsts(u)) /\ (~there => Firsts(w) = Firsts(u) \cup {n + 1})
        BY FirstsGrow
    <2> HIDE DEF w, o, n, m
    <2>5. PICK at \in [1..m -> Firsts(u)] :
              /\ \A k \in Firsts(u) : \E i \in 1..m : at[i] = k
              /\ \A i, j \in 1..m : i < j => at[i] < at[j]
              /\ \A i \in 1..m : o[i] = u[at[i]]
        BY <2>3 DEF KeepsFirsts, m
    <2>6. \A i \in 1..m : at[i] \in 1..n
        BY <2>3, <2>5 DEF Firsts
    <2>7. there <=> \E i \in 1..m : o[i].tag = x.tag
        <3>1. ASSUME NEW k \in 1..n, u[k].tag = x.tag PROVE \E i \in 1..m : o[i].tag = x.tag
            <4>1. PICK f \in Firsts(u) : u[f].tag = u[k].tag
                BY FirstOfTag DEF n
            <4>2. PICK i \in 1..m : at[i] = f
                BY <2>5
            <4> QED BY <2>5, <3>1, <4>1, <4>2
        <3>2. ASSUME NEW i \in 1..m, o[i].tag = x.tag PROVE there
            BY <2>5, <2>6, <3>2
        <3> QED BY <3>1, <3>2
    <2>8. CASE there
        <3>1. OfEachTag(w) = o
            BY <2>2, <2>7, <2>8 DEF addDescriptor, m
        <3>2. Firsts(w) = Firsts(u)
            BY <2>4, <2>8
        <3>3. \A i \in 1..m : o[i] = w[at[i]]
            BY <2>1, <2>5, <2>6
        <3>4. KeepsFirsts(o, w)
            BY <2>5, <3>2, <3>3 DEF KeepsFirsts, m
        <3> QED BY <2>1, <2>3, <3>1, <3>4 DEF w
    <2>9. CASE ~there
        <3> DEFINE p == Append(o, x)
                   to == [i \in 1..(m + 1) |-> IF i = m + 1 THEN n + 1 ELSE at[i]]
        <3>1. OfEachTag(w) = p
            BY <2>2, <2>7, <2>9 DEF addDescriptor, m
        <3>2. Firsts(w) = Firsts(u) \cup {n + 1}
            BY <2>4, <2>9
        <3>3. /\ p \in Seq(S) /\ Len(p) = m + 1 /\ p[m + 1] = x
              /\ \A i \in 1..m : p[i] = o[i]
            BY <2>3, AppendProperties DEF m
        <3>4. \A i \in 1..(m + 1) : i = m + 1 \/ i \in 1..m
            BY <2>3
        <3>5. /\ \A i \in 1..m : i \in 1..(m + 1) /\ i # m + 1
              /\ m + 1 \in 1..(m + 1)
            BY <2>3
        <3>6. to[m + 1] = n + 1 /\ \A i \in 1..m : to[i] = at[i]
            BY <3>5
        <3>7. to \in [1..(m + 1) -> Firsts(w)]
            <4>1. ASSUME NEW i \in 1..(m + 1)
                  PROVE (IF i = m + 1 THEN n + 1 ELSE at[i]) \in Firsts(w)
                BY <2>5, <3>2, <3>4
            <4> QED BY <4>1
        <3> HIDE DEF to, p
        <3>8. \A k \in Firsts(w) : \E i \in 1..(m + 1) : to[i] = k
            <4>1. ASSUME NEW k \in Firsts(u) PROVE \E i \in 1..(m + 1) : to[i] = k
                BY <2>5, <3>5, <3>6
            <4> QED BY <3>2, <3>5, <3>6, <4>1
        <3>9. ASSUME NEW i \in 1..(m + 1), NEW j \in 1..(m + 1), i < j PROVE to[i] < to[j]
            <4>1. i \in 1..m
                BY <2>3, <3>9
            <4>2. to[i] = at[i] /\ at[i] \in 1..n
                BY <2>6, <3>6, <4>1
            <4>3. CASE j = m + 1
                BY <2>1, <3>6, <4>2, <4>3
            <4>4. CASE j \in 1..m
                BY <2>5, <3>6, <3>9, <4>1, <4>4
            <4> QED BY <3>4, <4>3, <4>4
        <3>10. ASSUME NEW i \in 1..(m + 1) PROVE p[i] = w[to[i]]
            <4>1. CASE i = m + 1
                BY <2>1, <3>3, <3>6, <4>1
            <4>2. CASE i \in 1..m
                BY <2>1, <2>5, <2>6, <3>3, <3>6, <4>2
            <4> QED BY <3>4, <4>1, <4>2
        <3>11. KeepsFirsts(p, w)
            <4> DEFINE l == m + 1
            <4>1. /\ Len(p) = l /\ to \in [1..l -> Firsts(w)]
                  /\ \A k \in Firsts(w) : \E i \in 1..l : to[i] = k
                  /\ \A i, j \in 1..l : i < j => to[i] < to[j]
                  /\ \A i \in 1..l : p[i] = w[to[i]]
                BY <3>3, <3>7, <3>8, <3>9, <3>10
            <4> HIDE DEF l
            <4> QED BY <4>1 DEF KeepsFirsts
        <3> QED BY <2>1, <3>1, <3>3, <3>11 DEF w
    <2> QED BY <2>8, <2>9
<1> HIDE DEF G
<1>3. Seq(S) \subseteq G
    BY <1>1, <1>2, OnSequences
<1> QED BY <1>3 DEF G

-----------------------------------------------------------------------------
\* What the loops of a network information table are, for the lemmas on bytes.
LEMMA NumberFacts ==
    \A y : y \in Number <=> y \in Nat /\ y < 65536
<1>1. Number = Upto(65535)
    BY DEF Number, Upto
<1> QED BY <1>1, UptoSixteenBits

LEMMA LoopFacts ==
    ASSUME NEW ds, Loop(ds)
    PROVE  /\ Writable(ds) /\ ds \in Seq(Desc)
           /\ DescBytes(ds) \in Seq(Nat)
           /\ Len(DescBytes(ds)) \in Nat /\ Len(DescBytes(ds)) < 1024
<1>1. Desc \subseteq [tag : Nat, value : Seq(Nat)]
    <2>1. ASSUME NEW d \in Desc PROVE d \in [tag : Nat, value : Seq(Nat)]
        <3> DEFINE B == 0..255
        <3>1. d = [tag |-> d.tag, value |-> d.value] /\ d.tag \in B /\ d.value \in Seq(B)
            BY DEF Desc
        <3>2. B \subseteq Nat
            OBVIOUS
        <3> HIDE DEF B
        <3>3. d.tag \in Nat /\ d.value \in Seq(Nat)
            BY <3>1, <3>2
        <3> QED BY <3>1, <3>3
    <2> QED BY <2>1
<1>2. ds \in Descs
    <2> DEFINE T == [tag : Nat, value : Seq(Nat)]
    <2>1. ds \in Seq(Desc) /\ Desc \subseteq T
        BY <1>1 DEF Loop
    <2> HIDE DEF T
    <2>2. ds \in Seq(T)
        BY <2>1
    <2> QED BY <2>2 DEF Descs, T
<1>3. Writable(ds)
    BY <1>2 DEF Loop, Writable
<1>4. DescBytes(ds) \in Seq(Nat)
    BY <1>3, DescPartsFacts, FlattenType
<1> QED BY <1>3, <1>4, LenProperties DEF Loop

\* The four parts of a stream, and where they lie.
StreamLies(s, v, c) ==
    /\ Lies(Bytes2(s.transport_stream_id), v, c)
    /\ Lies(Bytes2(s.original_network_id), v, c + 2)
    /\ Lies(Bytes2(61440 + Len(DescBytes(s.descs))), v, c + 4)
    /\ Lies(DescBytes(s.descs), v, c + 6)

LEMMA StreamFacts ==
    ASSUME NEW s, IsStream(s)
    PROVE  /\ s.transport_stream_id \in Nat /\ s.original_network_id \in Nat
           /\ s.transport_stream_id < 65536 /\ s.original_network_id < 65536
           /\ Loop(s.descs)
           /\ s = [transport_stream_id |-> s.transport_stream_id,
                   original_network_id |-> s.original_network_id, descs |-> s.descs]
<1>1. /\ s.transport_stream_id \in Number /\ s.original_network_id \in Number /\ Loop(s.descs)
      /\ s = [transport_stream_id |-> s.transport_stream_id,
              original_network_id |-> s.original_network_id, descs |-> s.descs]
    <2> HIDE DEF Number
    <2> QED BY DEF IsStream
<1> QED BY <1>1, NumberFacts

LEMMA StreamBytesFacts ==
    ASSUME NEW s, IsStream(s)
    PROVE  /\ StreamBytes(s) \in Seq(Nat)
           /\ Len(StreamBytes(s)) = 6 + Len(DescBytes(s.descs))
           /\ Len(DescBytes(s.descs)) \in Nat
<1> DEFINE a == Bytes2(s.transport_stream_id)
           b == Bytes2(s.original_network_id)
           l == Bytes2(61440 + Len(DescBytes(s.descs)))
           d == DescBytes(s.descs)
<1>1. /\ s.transport_stream_id \in Nat /\ s.original_network_id \in Nat
      /\ d \in Seq(Nat) /\ Len(d) \in Nat
    BY StreamFacts, LoopFacts
<1>2. 61440 + Len(d) \in Nat
    BY <1>1
<1>3. /\ a \in Seq(Nat) /\ Len(a) = 2
      /\ b \in Seq(Nat) /\ Len(b) = 2
      /\ l \in Seq(Nat) /\ Len(l) = 2
    <2>1. a \in Seq(Nat) /\ Len(a) = 2
        BY <1>1, Bytes2Facts
    <2>2. b \in Seq(Nat) /\ Len(b) = 2
        BY <1>1, Bytes2Facts
    <2>3. l \in Seq(Nat) /\ Len(l) = 2
        BY <1>2, Bytes2Facts
    <2> QED BY <2>1, <2>2, <2>3
<1> DEFINE x == Cat(a, b)
           y == Cat(x, l)
<1>4. StreamBytes(s) = Cat(y, d)
    BY DEF StreamBytes, Cat
<1> HIDE DEF a, b, l, d
<1>5. x \in Seq(Nat) /\ Len(x) = 4
    <2>1. x \in Seq(Nat) /\ Len(x) = Len(a) + Len(b)
        BY <1>3, CatType
    <2> QED BY <1>3, <2>1
<1> HIDE DEF x
<1>6. y \in Seq(Nat) /\ Len(y) = 6
    <2>1. y \in Seq(Nat) /\ Len(y) = Len(x) + Len(l)
        BY <1>3, <1>5, CatType
    <2> QED BY <1>3, <1>5, <2>1
<1> HIDE DEF y
<1>7. Cat(y, d) \in Seq(Nat) /\ Len(Cat(y, d)) = 6 + Len(d)
    BY <1>1, <1>6, CatType
<1> QED BY <1>1, <1>4, <1>7 DEF d

LEMMA StreamThere ==
    ASSUME NEW s, IsStream(s), NEW v, Len(v) \in Nat, NEW c \in Nat, Lies(StreamBytes(s), v, c)
    PROVE  StreamLies(s, v, c)
<1> DEFINE a == Bytes2(s.transport_stream_id)
           b == Bytes2(s.original_network_id)
           l == Bytes2(61440 + Len(DescBytes(s.descs)))
           d == DescBytes(s.descs)
           x == Cat(a, b)
           y == Cat(x, l)
<1>1. /\ s.transport_stream_id \in Nat /\ s.original_network_id \in Nat
      /\ d \in Seq(Nat) /\ Len(d) \in Nat
    BY StreamFacts, LoopFacts
<1>2. 61440 + Len(d) \in Nat
    BY <1>1
<1>3. /\ a \in Seq(Nat) /\ Len(a) = 2
      /\ b \in Seq(Nat) /\ Len(b) = 2
      /\ l \in Seq(Nat) /\ Len(l) = 2
    <2>1. a \in Seq(Nat) /\ Len(a) = 2
        BY <1>1, Bytes2Facts
    <2>2. b \in Seq(Nat) /\ Len(b) = 2
        BY <1>1, Bytes2Facts
    <2>3. l \in Seq(Nat) /\ Len(l) = 2
        BY <1>2, Bytes2Facts
    <2> QED BY <2>1, <2>2, <2>3
<1> HIDE DEF a, b, l, d
<1>4. x \in Seq(Nat) /\ Len(x) = 4
    <2>1. x \in Seq(Nat) /\ Len(x) = Len(a) + Len(b)
        BY <1>3, CatType
    <2> QED BY <1>3, <2>1
<1> HIDE DEF x
<1>5. y \in Seq(Nat) /\ Len(y) = 6
    <2>1. y \in Seq(Nat) /\ Len(y) = Len(x) + Len(l)
        BY <1>3, <1>4, CatType
    <2> QED BY <1>3, <1>4, <2>1
<1> HIDE DEF y
<1>6. StreamBytes(s) = Cat(y, d) /\ y = Cat(x, l) /\ x = Cat(a, b)
    BY DEF StreamBytes, a, b, l, d, x, y, Cat
<1>7. Lies(y, v, c) /\ Lies(d, v, c + 6)
    <2>1. Lies(Cat(y, d), v, c)
        BY <1>6
    <2>2. Lies(y, v, c) /\ Lies(d, v, c + Len(y))
        BY <1>1, <1>5, <2>1, LiesBoth
    <2> QED BY <1>5, <2>2
<1>8. Lies(x, v, c) /\ Lies(l, v, c + 4)
    <2>1. Lies(Cat(x, l), v, c)
        BY <1>6, <1>7
    <2>2. Lies(x, v, c) /\ Lies(l, v, c + Len(x))
        BY <1>3, <1>4, <2>1, LiesBoth
    <2> QED BY <1>4, <2>2
<1>9. Lies(a, v, c) /\ Lies(b, v, c + 2)
    <2>1. Lies(Cat(a, b), v, c)
        BY <1>6, <1>8
    <2>2. Lies(a, v, c) /\ Lies(b, v, c + Len(a))
        BY <1>3, <2>1, LiesBoth
    <2> QED BY <1>3, <2>2
<1> QED BY <1>7, <1>8, <1>9 DEF StreamLies, a, b, l, d

\* A stream is read as it is: the record, and where its descriptors end.
StreamItem(v, c, junk) ==
    [transport_stream_id |-> Short(v, c, 65536, junk),
     original_network_id |-> Short(v, c + 2, 65536, junk),
     descs |-> Descriptors(v, c + 6, c + 6 + Short(v, c + 4, 1024, junk), junk).list]

StreamEnd(v, c, junk) ==
    Descriptors(v, c + 6, c + 6 + Short(v, c + 4, 1024, junk), junk).end

LEMMA StreamRead ==
    ASSUME NEW s, IsStream(s), NEW v \in Seq(Nat), NEW c \in Nat, Lies(StreamBytes(s), v, c),
           NEW junk \in Nat
    PROVE  /\ StreamItem(v, c, junk) = s
           /\ StreamEnd(v, c, junk) = c + Len(StreamBytes(s))
<1> DEFINE d == DescBytes(s.descs)
<1>0. Len(v) \in Nat
    BY LenProperties
<1>1. StreamLies(s, v, c)
    BY <1>0, StreamThere
<1>2. /\ s.transport_stream_id \in Nat /\ s.original_network_id \in Nat
      /\ s.transport_stream_id < 65536 /\ s.original_network_id < 65536
      /\ Writable(s.descs) /\ Len(d) \in Nat /\ Len(d) < 1024
    BY StreamFacts, LoopFacts
<1>3. /\ c + 2 \in Nat /\ c + 4 \in Nat /\ c + 6 \in Nat /\ 61440 + Len(d) \in Nat
      /\ s.transport_stream_id % 65536 = s.transport_stream_id
      /\ s.original_network_id % 65536 = s.original_network_id
      /\ (61440 + Len(d)) % 1024 = Len(d)
    <2>1. \A n \in Nat : n < 65536 => n % 65536 = n
        OBVIOUS
    <2>2. \A n \in Nat : n < 1024 => (61440 + n) % 1024 = n
        OBVIOUS
    <2> QED BY <1>2, <2>1, <2>2
<1>4. Short(v, c, 65536, junk) = s.transport_stream_id
    BY <1>0, <1>1, <1>2, <1>3, LiesNumber DEF StreamLies
<1>5. Short(v, c + 2, 65536, junk) = s.original_network_id
    BY <1>0, <1>1, <1>2, <1>3, LiesNumber DEF StreamLies
<1>6. Short(v, c + 4, 1024, junk) = Len(d)
    <2> DEFINE n == 61440 + Len(d)
    <2>1. Lies(Bytes2(n), v, c + 4) /\ n \in Nat /\ c + 4 \in Nat /\ n % 1024 = Len(d)
        BY <1>1, <1>3 DEF StreamLies
    <2> HIDE DEF n, d
    <2>2. Short(v, c + 4, 1024, junk) = n % 1024
        BY <1>0, <2>1, LiesNumber
    <2> QED BY <2>1, <2>2
<1>7. LET w == Descriptors(v, c + 6, c + 6 + Len(d), junk)
      IN  w.list = s.descs /\ w.end = (c + 6) + Len(d)
    BY <1>1, <1>2, <1>3, DescriptorsRead DEF StreamLies
<1>8. StreamItem(v, c, junk) = s
    BY <1>4, <1>5, <1>6, <1>7, StreamFacts DEF StreamItem
<1>9. StreamEnd(v, c, junk) = (c + 6) + Len(d)
    <2>1. StreamEnd(v, c, junk) = Descriptors(v, c + 6, c + 6 + Len(d), junk).end
        BY <1>6 DEF StreamEnd
    <2> HIDE DEF d
    <2> QED BY <1>7, <2>1
<1>10. Len(StreamBytes(s)) = 6 + Len(d)
    BY StreamBytesFacts
<1> QED BY <1>2, <1>8, <1>9, <1>10

\* The streams of a loop, and the bytes of each.
Stream == [transport_stream_id : Number, original_network_id : Number, descs : Seq(Desc)]
Streams(ss) == ss \in Seq(Stream) /\ \A k \in 1..Len(ss) : IsStream(ss[k])
StreamParts(ss) == [k \in 1..Len(ss) |-> StreamBytes(ss[k])]

LEMMA StreamPartsFacts ==
    ASSUME NEW ss, Streams(ss)
    PROVE  /\ StreamParts(ss) \in Seq(Seq(Nat)) /\ Len(StreamParts(ss)) = Len(ss) /\ Len(ss) \in Nat
           /\ StreamsBytes(ss) = FlattenSeq(StreamParts(ss))
           /\ \A k \in 1..Len(ss) : StreamParts(ss)[k] = StreamBytes(ss[k])
<1> DEFINE q == StreamParts(ss)
           n == Len(ss)
<1>1. n \in Nat /\ \A k \in 1..n : IsStream(ss[k])
    BY LenProperties DEF Streams
<1>2. DOMAIN q = 1..n /\ q = [k \in DOMAIN q |-> q[k]] /\ \A k \in 1..n : q[k] = StreamBytes(ss[k])
    BY DEF StreamParts
<1>3. StreamsBytes(ss) = FlattenSeq(q)
    BY DEF StreamsBytes, StreamParts
<1> HIDE DEF q, n
<1>4. \A k \in 1..n : q[k] \in Seq(Nat)
    <2>1. ASSUME NEW k \in 1..n PROVE StreamBytes(ss[k]) \in Seq(Nat)
        BY <1>1, StreamBytesFacts
    <2> QED BY <1>2, <2>1
<1>5. q \in Seq(Seq(Nat)) /\ Len(q) = n
    BY <1>1, <1>2, <1>4, IsSeq
<1> QED BY <1>1, <1>2, <1>3, <1>5 DEF q, n

\* Streams that lie somewhere are read as they are.
LEMMA StreamsRead ==
    ASSUME NEW ss, Streams(ss), NEW v \in Seq(Nat), NEW c \in Nat, NEW junk \in Nat,
           Lies(StreamsBytes(ss), v, c)
    PROVE  StreamsFrom(v, c, c + Len(StreamsBytes(ss)), junk) = ss
<1> DEFINE q == StreamParts(ss)
           n == Len(ss)
           item == [d \in Nat |-> StreamItem(v, d, junk)]
           next == [d \in Nat |-> StreamEnd(v, d, junk)]
           to == c + Len(StreamsBytes(ss))
           w == Walk(item, next, c, to)
           T == {item[d] : d \in Nat}
           o(k) == Off(q, k - 1)
<1>1. /\ q \in Seq(Seq(Nat)) /\ Len(q) = n /\ n \in Nat /\ StreamsBytes(ss) = FlattenSeq(q)
      /\ \A k \in 1..n : q[k] = StreamBytes(ss[k]) /\ IsStream(ss[k])
    BY StreamPartsFacts DEF Streams
<1>2. Len(v) \in Nat
    BY LenProperties
<1>3. Forward(next)
    <2>1. ASSUME NEW d \in Nat PROVE StreamEnd(v, d, junk) \in Nat /\ StreamEnd(v, d, junk) > d
        <3> DEFINE h == d + 4
                   m == 1024
                   l == Short(v, h, m, junk)
                   f == d + 6
                   g == f + l
        <3>1. h \in Nat /\ f \in Nat /\ m \in Nat \ {0} /\ f > d
            OBVIOUS
        <3>2. StreamEnd(v, d, junk) = Descriptors(v, f, g, junk).end
            BY DEF StreamEnd
        <3> HIDE DEF h, m, f
        <3>3. l \in Nat
            BY <3>1, ShortNat
        <3> HIDE DEF l
        <3>4. g \in Nat
            BY <3>1, <3>3
        <3> HIDE DEF g
        <3>5. Descriptors(v, f, g, junk).end \in Nat /\ Descriptors(v, f, g, junk).end >= f
            BY <3>1, <3>4, DescriptorsType
        <3> QED BY <3>1, <3>2, <3>5
    <2>2. \A d \in Nat : next[d] = StreamEnd(v, d, junk)
        OBVIOUS
    <2> HIDE DEF next
    <2> QED BY <2>1, <2>2 DEF Forward
<1>4. StreamsFrom(v, c, to, junk) = w.list
    BY DEF StreamsFrom, StreamItem, StreamEnd
<1>5. \A d \in Nat : item[d] = StreamItem(v, d, junk) /\ next[d] = StreamEnd(v, d, junk)
    OBVIOUS
<1> HIDE DEF item, next, q, n
<1>6. ASSUME NEW k \in 1..n
      PROVE  /\ Len(q[k]) > 0 /\ next[c + o(k)] = c + o(k) + Len(q[k])
             /\ item[c + o(k)] = ss[k]
    <2> DEFINE e == c + o(k)
               s == ss[k]
    <2>1. e \in Nat /\ Lies(q[k], v, e) /\ q[k] = StreamBytes(s) /\ IsStream(s)
        BY <1>1, <1>2, LiesPart
    <2> HIDE DEF e, s
    <2>2. StreamItem(v, e, junk) = s /\ StreamEnd(v, e, junk) = e + Len(StreamBytes(s))
        BY <2>1, StreamRead
    <2>3. Len(StreamBytes(s)) > 0
        BY <2>1, StreamBytesFacts
    <2> QED BY <1>5, <2>1, <2>2, <2>3 DEF e, s
<1>7. w.list \in Seq(T) /\ Len(w.list) = n /\ \A k \in 1..n : w.list[k] = item[c + o(k)]
    <2>1. Strides(next, q, c)
        BY <1>1, <1>6 DEF Strides
    <2>2. Gathered(Walk(item, next, c, c + Len(FlattenSeq(q))), item, q, c)
        BY <1>1, <1>3, <2>1, WalkParts
    <2> QED BY <1>1, <2>2 DEF Gathered
<1>8. \A k \in 1..n : w.list[k] = ss[k]
    BY <1>6, <1>7
<1>9. ss \in Seq(Stream) /\ Len(ss) = n
    BY DEF Streams, n
<1> HIDE DEF w, to, T
<1>10. w.list = ss
    BY <1>1, <1>7, <1>8, <1>9, SeqEqual
<1> QED BY <1>4, <1>10 DEF to

-----------------------------------------------------------------------------
\* What parse() leaves of a table.
NetworkRead(r, in) ==
    /\ in.bytes[1] = 0 => r.ok /\ r.network_id = in.network_id
    /\ r.ok => /\ KeepsFirsts(r.descs, in.descs)
               /\ r.streams = in.streams

\* A sequence over a set is one over a larger set.
LEMMA Wider ==
    ASSUME NEW S, NEW T, S \subseteq T, NEW s \in Seq(S)
    PROVE  s \in Seq(T)
OBVIOUS

\* What of a network information table the assumption on the inputs says, with what
\* its bytes are.
LEMMA NetworkFacts ==
    ASSUME NEW in \in Inputs, in.kind = "NIT"
    PROVE  /\ in.bytes \in Seq(Nat) /\ Len(in.bytes) \in Nat /\ Len(in.bytes) > 0
           /\ TableAt(in.bytes) \in Nat
           /\ Loop(in.descs) /\ Streams(in.streams)
           /\ in.bytes[1] = 0 => At(in.bytes, 1, 0) = 64
           /\ At(in.bytes, TableAt(in.bytes), 0) = 64 => HoldsNIT(in, TableAt(in.bytes))
<1> DEFINE v == in.bytes
           B == 0..255
<1>1. /\ v \in Seq(B) /\ Len(v) > 0
      /\ Loop(in.descs) /\ Streams(in.streams)
      /\ v[1] = 0 => At(v, 1, 0) = 64
      /\ At(v, TableAt(v), 0) = 64 => HoldsNIT(in, TableAt(v))
    BY InputsAssumption DEF Streams, Stream
<1>2. B \subseteq Nat
    OBVIOUS
<1> HIDE DEF v, B
<1>3. v \in Seq(Nat) /\ Len(v) \in Nat
    <2>1. v \in Seq(B)
        BY <1>1
    <2>2. v \in Seq(Nat)
        BY <1>2, <2>1, Wider
    <2> QED BY <2>2, LenProperties
<1>4. v[1] \in Nat
    <2>1. 1 \in 1..Len(v)
        BY <1>1, <1>3
    <2> QED BY <1>3, <2>1, ElementOfSeq
<1>5. TableAt(v) \in Nat
    BY <1>4 DEF TableAt
<1> QED BY <1>1, <1>3, <1>5 DEF v

\* A number that lies within the bytes does not depend on what is behind them.
LEMMA SameShort ==
    ASSUME NEW v, Len(v) \in Nat, NEW k \in Nat, k + 1 < Len(v), NEW m, NEW a, NEW b
    PROVE  Short(v, k, m, a) = Short(v, k, m, b)
BY DEF Short, At

LEMMA NetworkParsed ==
    ASSUME NEW in \in Inputs, in.kind = "NIT"
    PROVE  NetworkRead(NITparse(in.bytes, Junk), in)
<1> DEFINE v == in.bytes
           at == TableAt(v)
           d == Len(DescBytes(in.descs))
           s == Len(StreamsBytes(in.streams))
           from == at + 10
           w == Descriptors(v, from, from + d, Junk)
           end == from + d
           r == NITparse(v, Junk)
<1>1. /\ v \in Seq(Nat) /\ Len(v) \in Nat /\ Len(v) > 0 /\ at \in Nat
      /\ Loop(in.descs) /\ Streams(in.streams)
      /\ v[1] = 0 => At(v, 1, 0) = 64
      /\ At(v, at, 0) = 64 => HoldsNIT(in, at)
    BY NetworkFacts
<1>2. Junk \in Nat /\ Junk = 255
    BY DEF Junk
<1>3. At(v, at, Junk) = At(v, at, 0) \/ (At(v, at, Junk) = 255 /\ At(v, at, 0) = 0)
    BY <1>2 DEF At
<1>4. Writable(in.descs) /\ d \in Nat
    BY <1>1, LoopFacts
<1>5. s \in Nat
    <2>1. StreamsBytes(in.streams) \in Seq(Nat)
        BY <1>1, StreamPartsFacts, FlattenType
    <2> QED BY <2>1, LenProperties
<1>6. CASE At(v, at, Junk) # 64
    <2>1. At(v, at, 0) # 64
        BY <1>3, <1>6
    <2>2. v[1] # 0
        BY <1>1, <2>1 DEF TableAt
    <2>3. ~r.ok
        BY <1>6 DEF NITparse
    <2> HIDE DEF r
    <2> QED BY <2>2, <2>3 DEF NetworkRead, r
<1>7. CASE At(v, at, Junk) = 64
    <2>1. HoldsNIT(in, at)
        BY <1>1, <1>3, <1>7
    <2> DEFINE idAt == at + 3
               lenAt == at + 8
               behind == end + 2
               ten == 1024
               sixteen == 65536
               ds == in.descs
               ss == in.streams
    <2>2. /\ Short(v, idAt, sixteen, 0) = in.network_id
          /\ Short(v, lenAt, ten, 0) = d
          /\ Lies(DescBytes(ds), v, from)
          /\ Short(v, end, ten, 0) = s
          /\ Lies(StreamsBytes(ss), v, behind)
        BY <2>1 DEF HoldsNIT, Holds, Lies
    <2>3. from + d <= Len(v) /\ behind + s <= Len(v)
        BY <2>2 DEF Lies
    <2>4. /\ idAt = at + 3 /\ lenAt = at + 8 /\ from = at + 10 /\ end = from + d
          /\ behind = end + 2
          /\ d = Len(DescBytes(ds)) /\ s = Len(StreamsBytes(ss))
        OBVIOUS
    <2> HIDE DEF at, d, s, from, end, idAt, lenAt, behind, ten, sixteen, ds, ss
    <2>5. /\ idAt \in Nat /\ lenAt \in Nat /\ from \in Nat /\ end \in Nat /\ behind \in Nat
          /\ idAt + 1 < Len(v) /\ lenAt + 1 < Len(v) /\ end + 1 < Len(v)
        <3>1. at \in Nat /\ d \in Nat /\ s \in Nat /\ Len(v) \in Nat
            BY <1>1, <1>4, <1>5
        <3>2. idAt \in Nat /\ lenAt \in Nat /\ from \in Nat
            BY <2>4, <3>1
        <3>3. end \in Nat /\ behind \in Nat
            BY <2>4, <3>1, <3>2
        <3>4. end + 1 < Len(v)
            BY <2>3, <2>4, <3>1, <3>3
        <3>5. idAt + 1 < from /\ lenAt + 1 < from /\ from <= Len(v)
            BY <2>3, <2>4, <3>1, <3>2
        <3> QED BY <3>1, <3>2, <3>3, <3>4, <3>5
    <2>6. /\ Short(v, idAt, sixteen, Junk) = in.network_id
          /\ Short(v, lenAt, ten, Junk) = d
          /\ Short(v, end, ten, Junk) = s
        <3>1. Short(v, idAt, sixteen, Junk) = Short(v, idAt, sixteen, 0)
            BY <1>1, <2>5, SameShort
        <3>2. Short(v, lenAt, ten, Junk) = Short(v, lenAt, ten, 0)
            BY <1>1, <2>5, SameShort
        <3>3. Short(v, end, ten, Junk) = Short(v, end, ten, 0)
            BY <1>1, <2>5, SameShort
        <3> QED BY <2>2, <3>1, <3>2, <3>3
    <2>7. w.list = ds /\ w.end = end
        <3>1. LET u == Descriptors(v, from, from + Len(DescBytes(ds)), Junk)
              IN  u.list = ds /\ u.end = from + Len(DescBytes(ds))
            <4>1. Writable(ds) /\ v \in Seq(Nat) /\ Lies(DescBytes(ds), v, from)
                BY <1>1, <1>4, <2>2 DEF ds
            <4> QED BY <1>2, <2>5, <4>1, DescriptorsRead
        <3>2. d = Len(DescBytes(ds)) /\ end = from + d
            BY <2>4
        <3> QED BY <3>1, <3>2
    <2>8. StreamsFrom(v, behind, behind + s, Junk) = ss
        BY <1>1, <1>2, <2>2, <2>4, <2>5, StreamsRead DEF ss
    <2>9. KeepsFirsts(OfEachTag(ds), ds)
        BY <1>1, KeptFirsts DEF Loop, ds
    <2>10. v[1] = 0 => network_id(v, Junk) = in.network_id
        <3>1. v[1] = 0 => idAt = v[1] + 4
            BY <2>4 DEF at, TableAt
        <3> QED BY <2>6, <3>1 DEF network_id, sixteen
    <2>11. /\ r.ok /\ r.network_id = network_id(v, Junk)
           /\ r.descs = KeepFirst(w.list)
           /\ r.streams = StreamsFrom(v, w.end + 2, w.end + 2 + Short(v, w.end, ten, Junk), Junk)
        <3>1. Descriptors(v, at + 10, at + 10 + Short(v, at + 8, 1024, Junk), Junk) = w
            BY <2>6 DEF from, lenAt, ten
        <3> HIDE DEF w
        <3> QED BY <1>7, <3>1 DEF NITparse, at, ten
    <2> HIDE DEF r, w
    <2>12. r.descs = OfEachTag(ds) /\ r.streams = ss
        <3>1. r.streams = StreamsFrom(v, behind, behind + s, Junk)
            BY <2>4, <2>6, <2>7, <2>11
        <3> QED BY <2>7, <2>8, <2>11, <3>1 DEF KeepFirst, OfEachTag
    <2> QED BY <2>9, <2>10, <2>11, <2>12 DEF NetworkRead, r, ds, ss
<1> QED BY <1>6, <1>7

\* A table is read once, and the input stays.
NetworkInv ==
    /\ input \in Inputs
    /\ Of({"NIT"}) =>
         /\ cur = 0
         /\ running \/ out = NITparse(input.bytes, Junk)

LEMMA NetworkStep == NetworkInv /\ [Next]_vars => NetworkInv'
<1> SUFFICES ASSUME NetworkInv, [Next]_vars PROVE NetworkInv'
    OBVIOUS
<1>1. input \in Inputs
    BY DEF NetworkInv
<1>2. input' = input
    BY DEF Next, vars, PointerIdentify, MetadataIdentify, Identify, PointerFlags, PointerProgram,
           PointerLocation, PointerPrivate, MetadataFlags, STDField, Registration, Spin, Finish,
           WrapperCell, ParseNIT
<1>3. CASE ~Of({"NIT"})
    BY <1>1, <1>2, <1>3 DEF NetworkInv, Of
<1>4. CASE Of({"NIT"})
    <2>1. input.kind = "NIT"
        BY <1>4 DEF Of
    <2>2. cur = 0 /\ (running \/ out = NITparse(input.bytes, Junk))
        BY <1>4 DEF NetworkInv
    <2>3. More <=> running
        BY <1>1, <2>1, <2>2, NetworkFacts DEF More
    <2>4. ASSUME Next
          PROVE cur' = cur /\ out' = NITparse(input.bytes, Junk)
        <3>1. ParseNIT
            <4>1. /\ ~PointerIdentify /\ ~MetadataIdentify /\ ~PointerFlags /\ ~PointerProgram
                  /\ ~PointerLocation /\ ~PointerPrivate /\ ~MetadataFlags /\ ~STDField
                  /\ ~Registration /\ ~WrapperCell
                BY <2>1 DEF Of, PointerIdentify, MetadataIdentify, PointerFlags, PointerProgram,
                       PointerLocation, PointerPrivate, MetadataFlags, STDField, Registration, WrapperCell
            <4>2. ~Spin
                BY <2>1 DEF Of, Spin, Stuck
            <4>3. ~Finish
                BY <2>3 DEF Finish
            <4> QED BY <2>4, <4>1, <4>2, <4>3 DEF Next
        <3> QED BY <3>1 DEF ParseNIT
    <2>5. CASE Next
        BY <1>1, <1>2, <2>2, <2>4, <2>5 DEF NetworkInv
    <2>6. CASE UNCHANGED vars
        BY <1>1, <1>2, <2>2, <2>6 DEF NetworkInv, vars
    <2> QED BY <2>5, <2>6
<1> QED BY <1>3, <1>4

\* A network information table is read as it was made: NetworkInformationTable::parse
\* finds every table that has no pointer_field, with the network it is about; and of each
\* that it finds the first descriptor of every tag, and every stream with all its
\* descriptors, however many and however long.
THEOREM NetworkFound == Spec => []NetworkArrives
<1>1. Init => NetworkInv
    BY DEF Init, NetworkInv
<1>2. NetworkInv /\ [Next]_vars => NetworkInv'
    BY NetworkStep
<1>3. NetworkInv => NetworkArrives
    <2> SUFFICES ASSUME NetworkInv, Of({"NIT"}), ~running
                 PROVE  NetworkArrives
        BY DEF NetworkArrives
    <2>1. input \in Inputs /\ input.kind = "NIT" /\ out = NITparse(input.bytes, Junk)
        BY DEF NetworkInv, Of
    <2>2. NetworkRead(out, input)
        BY <2>1, NetworkParsed
    <2>3. Byte(0) = input.bytes[1]
        BY <2>1, NetworkFacts DEF Byte, At
    <2> QED BY <2>2, <2>3 DEF NetworkRead, NetworkArrives
<1> QED BY <1>1, <1>2, <1>3, PTL DEF Spec
=============================================================================
