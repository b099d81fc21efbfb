----------------------------- MODULE TimeStamps -----------------------------
(***************************************************************************)
(* The time stamps and clock references of a stream, and their encoded     *)
(* forms: 33 bits in 5 bytes, with marker bits in between, and 33 and 9    *)
(* bits in 6 bytes.  A number is the set of the positions of its bits that *)
(* are 1, 0 being the lowest.                                              *)
(***************************************************************************)
EXTENDS Integers, Sequences, FiniteSetsExt

Bits(n) == {i \in 0..30 : (n \div 2^i) % 2 = 1}

Number(bits) == MapThenSumSet(LAMBDA i : 2^i, bits)

\* An encoded form as n bytes, the highest first, and back.
ToBytes(code, n) ==
    [k \in 1..n |-> Number({i - 8 * (n - k) : i \in code \cap ((8 * (n - k))..(8 * (n - k) + 7))})]
      \o <<>>

FromBytes(bytes) ==
    UNION {{i + 8 * (Len(bytes) - k) : i \in Bits(bytes[k])} : k \in DOMAIN bytes}

\* A time stamp and a number of ticks, as uint64_t adds them.
Plus(ts, n) ==
    LET low == Number(ts \cap 0..29) + n
        high == Number({i - 30 : i \in ts \cap 30..40}) + (low \div 2^30)
    IN  Bits(low % 2^30) \cup {i + 30 : i \in Bits(high)}

-----------------------------------------------------------------------------
\* The bits that are always 1: three markers, and the prefix 0010.
Marks == {0, 16, 32, 37}

\* Mutant: the bits after the first marker are written one place too low.
Bug_encodeTimestamp(ts) ==
    ToBytes(Marks \cup {IF i < 15 THEN i + 1 ELSE IF i < 31 THEN i + 1 ELSE i + 3 :
                          i \in ts \cap 0..34}, 5)

\* encodeTimestamp of the PES packet: bit 30 falls on the third marker.
encodeTimestamp(ts) ==
    ToBytes(Marks \cup {IF i < 15 THEN i + 1 ELSE IF i < 31 THEN i + 2 ELSE i + 3 :
                          i \in ts \cap 0..34}, 5)

\* writePTS of the packer.
writePTS(fourbits, pts) ==
    ToBytes({36 + i : i \in fourbits} \cup {0, 16, 32}
              \cup {IF i < 15 THEN i + 1 ELSE IF i < 30 THEN i + 2 ELSE i + 3 :
                      i \in pts \cap 0..32}, 5)

\* pts() and dts().  The three highest bits are shifted as an int: bit 32 is lost,
\* bit 31 becomes its sign, which makes bit 32 of the result.
decodeTimestamp(bytes) ==
    LET code == FromBytes(bytes)
    IN  {i - 1 : i \in code \cap 1..15} \cup {i - 2 : i \in code \cap 17..31}
          \cup (IF 33 \in code THEN {30} ELSE {})
          \cup (IF 34 \in code THEN {31, 32} ELSE {})

\* writePcrBits of the packer.
writePcrBits(pcr) ==
    ToBytes({i + 15 : i \in pcr.base} \cup 9..14 \cup pcr.ext, 6)

\* What printPCR makes of the 6 bytes: bit 0 of the base and bit 8 of the extension
\* are not read.
readPcrBits(bytes) ==
    LET code == FromBytes(bytes)
    IN  [base |-> {i - 15 : i \in code \cap 16..47}, ext |-> code \cap 0..7]
=============================================================================
