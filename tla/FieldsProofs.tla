---------------------------- MODULE FieldsProofs -----------------------------
(***************************************************************************)
(* What the encoded forms of module TimeStamps hold, for every time stamp  *)
(* and every clock reference; and what the calls of module Fields leave of *)
(* a packet, for packets of every size and content and any number of calls.*)
(***************************************************************************)
EXTENDS Fields, DataProofs

-----------------------------------------------------------------------------
\* The value of a byte, bit by bit.
Bit(s, i) == IF i \in s THEN 1 ELSE 0

Value(s) ==
    Bit(s, 0) + 2 * Bit(s, 1) + 4 * Bit(s, 2) + 8 * Bit(s, 3)
      + 16 * Bit(s, 4) + 32 * Bit(s, 5) + 64 * Bit(s, 6) + 128 * Bit(s, 7)

LEMMA Powers ==
    ASSUME NEW x \in 0..7
    PROVE  /\ 2^x \in Nat /\ 2^x > 0
           /\ 2^x = (IF x = 0 THEN 1 ELSE 0) + 2 * (IF x = 1 THEN 1 ELSE 0)
                     + 4 * (IF x = 2 THEN 1 ELSE 0) + 8 * (IF x = 3 THEN 1 ELSE 0)
                     + 16 * (IF x = 4 THEN 1 ELSE 0) + 32 * (IF x = 5 THEN 1 ELSE 0)
                     + 64 * (IF x = 6 THEN 1 ELSE 0) + 128 * (IF x = 7 THEN 1 ELSE 0)
<1>1. /\ 2^0 = 1 /\ 2^1 = 2 /\ 2^2 = 4 /\ 2^3 = 8
      /\ 2^4 = 16 /\ 2^5 = 32 /\ 2^6 = 64 /\ 2^7 = 128
    OBVIOUS
<1>2. CASE x = 0
    BY <1>1, <1>2
<1>3. CASE x = 1
    BY <1>1, <1>3
<1>4. CASE x = 2
    BY <1>1, <1>4
<1>5. CASE x = 3
    BY <1>1, <1>5
<1>6. CASE x = 4
    BY <1>1, <1>6
<1>7. CASE x = 5
    BY <1>1, <1>7
<1>8. CASE x = 6
    BY <1>1, <1>8
<1>9. CASE x = 7
    BY <1>1, <1>9
<1> QED BY <1>2, <1>3, <1>4, <1>5, <1>6, <1>7, <1>8, <1>9

LEMMA BitFacts ==
    ASSUME NEW s, NEW i
    PROVE  Bit(s, i) \in 0..1 /\ (Bit(s, i) = 1 <=> i \in s)
BY DEF Bit

LEMMA ValueFacts ==
    ASSUME NEW s
    PROVE  Value(s) \in 0..255
<1>1. /\ Bit(s, 0) \in 0..1 /\ Bit(s, 1) \in 0..1 /\ Bit(s, 2) \in 0..1 /\ Bit(s, 3) \in 0..1
      /\ Bit(s, 4) \in 0..1 /\ Bit(s, 5) \in 0..1 /\ Bit(s, 6) \in 0..1 /\ Bit(s, 7) \in 0..1
    BY BitFacts
<1> QED BY <1>1 DEF Value

\* One bit less.
LEMMA Without ==
    ASSUME NEW s, NEW x \in 0..7, x \in s
    PROVE  Value(s) = 2^x + Value(s \ {x})
<1>1. ASSUME NEW i \in 0..7 PROVE Bit(s, i) = (IF i = x THEN 1 ELSE 0) + Bit(s \ {x}, i)
    BY DEF Bit
<1>2. \A i \in 0..7 : Bit(s \ {x}, i) \in Int
    BY BitFacts
<1>3. /\ Bit(s, 0) = (IF x = 0 THEN 1 ELSE 0) + Bit(s \ {x}, 0)
      /\ Bit(s, 1) = (IF x = 1 THEN 1 ELSE 0) + Bit(s \ {x}, 1)
      /\ Bit(s, 2) = (IF x = 2 THEN 1 ELSE 0) + Bit(s \ {x}, 2)
      /\ Bit(s, 3) = (IF x = 3 THEN 1 ELSE 0) + Bit(s \ {x}, 3)
      /\ Bit(s, 4) = (IF x = 4 THEN 1 ELSE 0) + Bit(s \ {x}, 4)
      /\ Bit(s, 5) = (IF x = 5 THEN 1 ELSE 0) + Bit(s \ {x}, 5)
      /\ Bit(s, 6) = (IF x = 6 THEN 1 ELSE 0) + Bit(s \ {x}, 6)
      /\ Bit(s, 7) = (IF x = 7 THEN 1 ELSE 0) + Bit(s \ {x}, 7)
    BY <1>1
<1>4. 2^x = (IF x = 0 THEN 1 ELSE 0) + 2 * (IF x = 1 THEN 1 ELSE 0)
              + 4 * (IF x = 2 THEN 1 ELSE 0) + 8 * (IF x = 3 THEN 1 ELSE 0)
              + 16 * (IF x = 4 THEN 1 ELSE 0) + 32 * (IF x = 5 THEN 1 ELSE 0)
              + 64 * (IF x = 6 THEN 1 ELSE 0) + 128 * (IF x = 7 THEN 1 ELSE 0)
    BY Powers
<1> QED BY <1>2, <1>3, <1>4 DEF Value

LEMMA Nothing == Value({}) = 0
BY DEF Value, Bit

-----------------------------------------------------------------------------
\* The function by which MapThenSumSet adds up the powers of two.
IsSum(f, S) ==
    f = [s \in SUBSET S |-> IF s = {} THEN 0
                            ELSE 2^(CHOOSE x \in s : TRUE) + f[s \ {CHOOSE x \in s : TRUE}]]

LEMMA NumberSums == ASSUME NEW S PROVE Number(S) = (CHOOSE f : IsSum(f, S))[S]
BY DEF Number, MapThenSumSet, MapThenFoldSet, IsSum

\* The values are such a function,
LEMMA ValuesSum ==
    ASSUME NEW S, S \subseteq 0..7
    PROVE  IsSum([s \in SUBSET S |-> Value(s)], S)
<1> DEFINE f == [s \in SUBSET S |-> Value(s)]
           g == [s \in SUBSET S |-> IF s = {} THEN 0
                   ELSE 2^(CHOOSE x \in s : TRUE) + f[s \ {CHOOSE x \in s : TRUE}]]
<1>1. ASSUME NEW s \in SUBSET S PROVE f[s] = g[s]
    <2>1. CASE s = {}
        BY <2>1, Nothing
    <2>2. CASE s # {}
        <3> DEFINE x == CHOOSE y \in s : TRUE
        <3>1. x \in s
            BY <2>2
        <3>2. x \in 0..7 /\ s \ {x} \in SUBSET S
            BY <3>1
        <3>3. Value(s) = 2^x + Value(s \ {x})
            BY <3>1, <3>2, Without
        <3>4. g[s] = 2^x + f[s \ {x}]
            BY <2>2
        <3>5. f[s \ {x}] = Value(s \ {x}) /\ f[s] = Value(s)
            BY <3>2
        <3> QED BY <3>3, <3>4, <3>5
    <2> QED BY <2>1, <2>2
<1>2. f = g
    BY <1>1
<1> QED BY <1>2 DEF IsSum

\* and the only one.
LEMMA OnlyValues ==
    ASSUME NEW S, S \subseteq 0..7, NEW f, IsSum(f, S)
    PROVE  \A s \in SUBSET S : f[s] = Value(s)
<1> DEFINE bad == {s \in SUBSET S : f[s] # Value(s)}
           ranks == {Value(s) : s \in bad}
<1>1. SUFFICES ASSUME bad # {} PROVE FALSE
    OBVIOUS
<1>2. ranks \subseteq Nat /\ ranks # {}
    BY <1>1, ValueFacts
<1>3. PICK n \in ranks : \A m \in ranks : n <= m
    BY <1>2, LeastNat
<1>4. PICK s \in bad : n = Value(s)
    BY <1>3
<1>5. f[s] = IF s = {} THEN 0
             ELSE 2^(CHOOSE x \in s : TRUE) + f[s \ {CHOOSE x \in s : TRUE}]
    BY <1>4 DEF IsSum
<1>6. s # {}
    BY <1>4, <1>5, Nothing
<1> DEFINE x == CHOOSE y \in s : TRUE
           r == s \ {x}
<1>7. x \in s /\ x \in 0..7 /\ r \in SUBSET S
    BY <1>4, <1>6
<1>8. Value(s) = 2^x + Value(r)
    BY <1>7, Without
<1>9. 2^x \in Nat /\ 2^x > 0
    <2> HIDE DEF x
    <2> QED BY <1>7, Powers
<1>10. f[s] = 2^x + f[r]
    BY <1>5, <1>6
<1>11. r \in bad
    BY <1>4, <1>7, <1>8, <1>10
<1>12. Value(r) < Value(s)
    <2>1. Value(r) \in Nat /\ Value(s) \in Nat
        BY ValueFacts
    <2> HIDE DEF x, r
    <2> QED BY <1>8, <1>9, <2>1
<1> QED
    <2>1. Value(r) \in ranks
        BY <1>11
    <2>2. n <= Value(r) /\ Value(r) \in Nat /\ Value(s) \in Nat
        BY <1>3, <2>1, ValueFacts
    <2> QED BY <1>4, <1>12, <2>2

\* A number of up to eight bits is their value.
LEMMA NumberIs ==
    ASSUME NEW S, S \subseteq 0..7
    PROVE  Number(S) = Value(S)
<1>1. IsSum(CHOOSE f : IsSum(f, S), S)
    BY ValuesSum
<1>2. (CHOOSE f : IsSum(f, S))[S] = Value(S)
    BY <1>1, OnlyValues
<1> QED BY <1>2, NumberSums

LEMMA Smaller ==
    ASSUME NEW n \in Nat, NEW p \in Nat, n < p
    PROVE  (n \div p) % 2 = 0
<1>1. n \div p = 0
    OBVIOUS
<1> QED BY <1>1

LEMMA HighPowers ==
    ASSUME NEW i \in 8..30
    PROVE  2^i \in Nat /\ 2^i >= 256
<1>1. CASE i \in 8..15
    <2>1. CASE i = 8
        BY <2>1, SMT
    <2>2. CASE i = 9
        BY <2>2, SMT
    <2>3. CASE i = 10
        BY <2>3, SMT
    <2>4. CASE i = 11
        BY <2>4, SMT
    <2>5. CASE i = 12
        BY <2>5, SMT
    <2>6. CASE i = 13
        BY <2>6, SMT
    <2>7. CASE i = 14
        BY <2>7, SMT
    <2>8. CASE i = 15
        BY <2>8, SMT
    <2> QED BY <1>1, <2>1, <2>2, <2>3, <2>4, <2>5, <2>6, <2>7, <2>8
<1>2. CASE i \in 16..23
    <2>1. CASE i = 16
        BY <2>1, SMT
    <2>2. CASE i = 17
        BY <2>2, SMT
    <2>3. CASE i = 18
        BY <2>3, SMT
    <2>4. CASE i = 19
        BY <2>4, SMT
    <2>5. CASE i = 20
        BY <2>5, SMT
    <2>6. CASE i = 21
        BY <2>6, SMT
    <2>7. CASE i = 22
        BY <2>7, SMT
    <2>8. CASE i = 23
        BY <2>8, SMT
    <2> QED BY <1>2, <2>1, <2>2, <2>3, <2>4, <2>5, <2>6, <2>7, <2>8
<1>3. CASE i \in 24..30
    <2>1. CASE i = 24
        BY <2>1, SMT
    <2>2. CASE i = 25
        BY <2>2, SMT
    <2>3. CASE i = 26
        BY <2>3, SMT
    <2>4. CASE i = 27
        BY <2>4, SMT
    <2>5. CASE i = 28
        BY <2>5, SMT
    <2>6. CASE i = 29
        BY <2>6, SMT
    <2>7. CASE i = 30
        BY <2>7, SMT
    <2> QED BY <1>3, <2>1, <2>2, <2>3, <2>4, <2>5, <2>6, <2>7
<1> QED BY <1>1, <1>2, <1>3

\* The bits of a byte are those it was made of.
LEMMA BitsOfValue ==
    ASSUME NEW S, S \subseteq 0..7
    PROVE  Bits(Value(S)) = S
<1> DEFINE n == Value(S)
<1>1. /\ Bit(S, 0) \in 0..1 /\ Bit(S, 1) \in 0..1 /\ Bit(S, 2) \in 0..1 /\ Bit(S, 3) \in 0..1
      /\ Bit(S, 4) \in 0..1 /\ Bit(S, 5) \in 0..1 /\ Bit(S, 6) \in 0..1 /\ Bit(S, 7) \in 0..1
    BY BitFacts
<1>2. n \in Nat /\ n < 256
    BY ValueFacts
<1>3. n = Bit(S, 0) + 2 * Bit(S, 1) + 4 * Bit(S, 2) + 8 * Bit(S, 3)
            + 16 * Bit(S, 4) + 32 * Bit(S, 5) + 64 * Bit(S, 6) + 128 * Bit(S, 7)
    BY DEF Value
<1> HIDE DEF n
<1>4. /\ (n \div 1) % 2 = Bit(S, 0) /\ (n \div 2) % 2 = Bit(S, 1)
      /\ (n \div 4) % 2 = Bit(S, 2) /\ (n \div 8) % 2 = Bit(S, 3)
      /\ (n \div 16) % 2 = Bit(S, 4) /\ (n \div 32) % 2 = Bit(S, 5)
      /\ (n \div 64) % 2 = Bit(S, 6) /\ (n \div 128) % 2 = Bit(S, 7)
    <2>1. (n \div 1) % 2 = Bit(S, 0)
        BY <1>1, <1>3
    <2>2. (n \div 2) % 2 = Bit(S, 1)
        BY <1>1, <1>3
    <2>3. (n \div 4) % 2 = Bit(S, 2)
        BY <1>1, <1>3
    <2>4. (n \div 8) % 2 = Bit(S, 3)
        BY <1>1, <1>3
    <2>5. (n \div 16) % 2 = Bit(S, 4)
        BY <1>1, <1>3
    <2>6. (n \div 32) % 2 = Bit(S, 5)
        BY <1>1, <1>3
    <2>7. (n \div 64) % 2 = Bit(S, 6)
        BY <1>1, <1>3
    <2>8. (n \div 128) % 2 = Bit(S, 7)
        BY <1>1, <1>3
    <2> QED BY <2>1, <2>2, <2>3, <2>4, <2>5, <2>6, <2>7, <2>8
<1>5. ASSUME NEW i \in 0..30 PROVE (n \div 2^i) % 2 = 1 <=> i \in S
    <2>1. CASE i \in 8..30
        <3>1. 2^i \in Nat /\ 2^i >= 256
            BY <2>1, HighPowers
        <3> DEFINE p == 2^i
        <3>2. p \in Nat /\ p >= 256
            BY <3>1
        <3> HIDE DEF p
        <3>3. n < p
            BY <1>2, <3>2
        <3>4. (n \div p) % 2 = 0
            BY <1>2, <3>2, <3>3, Smaller
        <3>5. i \notin S
            BY <2>1
        <3> QED BY <3>4, <3>5 DEF p
    <2>2. CASE i \in 0..7
        <3>1. /\ 2^0 = 1 /\ 2^1 = 2 /\ 2^2 = 4 /\ 2^3 = 8
              /\ 2^4 = 16 /\ 2^5 = 32 /\ 2^6 = 64 /\ 2^7 = 128
            OBVIOUS
        <3>2. (n \div 2^i) % 2 = Bit(S, i)
            <4>1. CASE i = 0
                BY <1>4, <3>1, <4>1
            <4>2. CASE i = 1
                BY <1>4, <3>1, <4>2
            <4>3. CASE i = 2
                BY <1>4, <3>1, <4>3
            <4>4. CASE i = 3
                BY <1>4, <3>1, <4>4
            <4>5. CASE i = 4
                BY <1>4, <3>1, <4>5
            <4>6. CASE i = 5
                BY <1>4, <3>1, <4>6
            <4>7. CASE i = 6
                BY <1>4, <3>1, <4>7
            <4>8. CASE i = 7
                BY <1>4, <3>1, <4>8
            <4> QED BY <2>2, <4>1, <4>2, <4>3, <4>4, <4>5, <4>6, <4>7, <4>8
        <3> QED BY <3>2, BitFacts
    <2> QED BY <2>1, <2>2
<1>6. Bits(n) = {i \in 0..30 : (n \div 2^i) % 2 = 1}
    BY DEF Bits
<1>7. S \subseteq 0..30
    OBVIOUS
<1> QED BY <1>5, <1>6, <1>7 DEF n

LEMMA NumberFacts ==
    ASSUME NEW S, S \subseteq 0..7
    PROVE  Number(S) \in 0..255 /\ Bits(Number(S)) = S
<1>1. Number(S) = Value(S)
    BY NumberIs
<1>2. Value(S) \in 0..255
    BY ValueFacts
<1>3. Bits(Value(S)) = S
    BY BitsOfValue
<1> QED BY <1>1, <1>2, <1>3

-----------------------------------------------------------------------------
\* The bits of a code that fall on the k-th of n bytes.
Part(code, n, k) == {i - 8 * (n - k) : i \in code \cap ((8 * (n - k))..(8 * (n - k) + 7))}

LEMMA PartFacts ==
    ASSUME NEW code, NEW n \in Nat, NEW k \in 1..n
    PROVE  /\ Part(code, n, k) \subseteq 0..7
           /\ \A j \in 0..7 : j \in Part(code, n, k) <=> j + 8 * (n - k) \in code
<1> DEFINE m == 8 * (n - k)
<1>1. m \in Nat
    OBVIOUS
<1>2. Part(code, n, k) = {i - m : i \in code \cap (m..(m + 7))}
    BY DEF Part
<1> HIDE DEF m
<1>3. Part(code, n, k) \subseteq 0..7
    BY <1>1, <1>2
<1>4. ASSUME NEW j \in 0..7, j \in Part(code, n, k) PROVE j + m \in code
    BY <1>1, <1>2, <1>4
<1>5. ASSUME NEW j \in 0..7, j + m \in code PROVE j \in Part(code, n, k)
    <2>1. j + m \in m..(m + 7) /\ (j + m) - m = j
        BY <1>1
    <2> QED BY <1>2, <1>5, <2>1
<1> QED BY <1>3, <1>4, <1>5 DEF m

\* The bytes of a code.
LEMMA Coded ==
    ASSUME NEW code, NEW n \in Nat
    PROVE  /\ ToBytes(code, n) \in Seq(0..255)
           /\ Len(ToBytes(code, n)) = n
           /\ \A k \in 1..n : Bits(ToBytes(code, n)[k]) = Part(code, n, k)
<1> DEFINE f == [k \in 1..n |-> Number(Part(code, n, k))]
<1>1. ASSUME NEW k \in 1..n
      PROVE  Number(Part(code, n, k)) \in 0..255 /\ Bits(Number(Part(code, n, k))) = Part(code, n, k)
    <2>1. Part(code, n, k) \subseteq 0..7
        BY PartFacts
    <2> QED BY <2>1, NumberFacts
<1>2. ToBytes(code, n) = f \o <<>>
    BY DEF ToBytes, Part
<1>3. f \in [1..n -> 0..255]
    BY <1>1
<1>4. \A k \in 1..n : Bits(f[k]) = Part(code, n, k)
    BY <1>1
<1> HIDE DEF f
<1>5. f \in Seq(0..255) /\ Len(f) = n
    BY <1>3
<1>6. f \o <<>> = f
    BY <1>5
<1> QED BY <1>2, <1>4, <1>5, <1>6

\* A code is what its bytes say.
LEMMA Decoded ==
    ASSUME NEW n \in Nat, NEW code, code \subseteq Nat, \A c \in code : c < 8 * n
    PROVE  FromBytes(ToBytes(code, n)) = code
<1> DEFINE b == ToBytes(code, n)
           F(k) == {i + 8 * (n - k) : i \in Part(code, n, k)}
<1>1. b \in Seq(0..255) /\ Len(b) = n /\ \A k \in 1..n : Bits(b[k]) = Part(code, n, k)
    BY Coded
<1>2. DOMAIN b = 1..n
    BY <1>1
<1>3. FromBytes(b) = UNION {{i + 8 * (Len(b) - k) : i \in Bits(b[k])} : k \in DOMAIN b}
    BY DEF FromBytes
<1> HIDE DEF b
<1>4. ASSUME NEW x PROVE x \in FromBytes(b) <=> \E k \in 1..n : x \in F(k)
    BY <1>1, <1>2, <1>3
<1>5. ASSUME NEW k \in 1..n, NEW x, x \in F(k) PROVE x \in code
    <2>1. PICK i \in Part(code, n, k) : x = i + 8 * (n - k)
        BY <1>5
    <2>2. i \in 0..7
        BY PartFacts
    <2> QED BY <2>1, <2>2, PartFacts
<1>6. ASSUME NEW x \in code PROVE \E k \in 1..n : x \in F(k)
    <2> DEFINE q == x \div 8
               j == x % 8
               k == n - q
    <2>1. x \in Nat /\ x < 8 * n
        OBVIOUS
    <2>2. q \in Nat /\ j \in 0..7 /\ x = j + 8 * q
        BY <2>1
    <2> HIDE DEF q, j
    <2>3. k \in 1..n /\ n - k = q
        BY <2>1, <2>2
    <2> HIDE DEF k
    <2>4. j \in Part(code, n, k)
        BY <2>2, <2>3, PartFacts
    <2>5. x \in F(k)
        BY <2>2, <2>3, <2>4
    <2> QED BY <2>3, <2>5
<1> HIDE DEF F
<1>7. \A x : x \in FromBytes(b) <=> x \in code
    BY <1>4, <1>5, <1>6
<1> QED BY <1>7 DEF b

-----------------------------------------------------------------------------
\* The code of a stamp that the PES packet encodes.
StampCode(ts) ==
    Marks \cup {IF i < 15 THEN i + 1 ELSE IF i < 31 THEN i + 2 ELSE i + 3 : i \in ts \cap 0..34}

LEMMA CodeFacts ==
    ASSUME NEW ts
    PROVE  /\ StampCode(ts) \subseteq Nat /\ \A c \in StampCode(ts) : c < 8 * 5
           /\ \A j \in 1..15 : j \in StampCode(ts) <=> j - 1 \in ts
           /\ \A j \in 17..31 : j \in StampCode(ts) <=> j - 2 \in ts
           /\ 33 \notin StampCode(ts)
           /\ 34 \in StampCode(ts) <=> 31 \in ts
<1> DEFINE place(i) == IF i < 15 THEN i + 1 ELSE IF i < 31 THEN i + 2 ELSE i + 3
<1>1. \A c : c \in StampCode(ts) <=>
               c \in {0, 16, 32, 37} \/ \E i \in 0..34 : i \in ts /\ c = place(i)
    BY DEF StampCode, Marks
<1>2. StampCode(ts) \subseteq Nat /\ \A c \in StampCode(ts) : c < 8 * 5
    BY <1>1
<1>3. ASSUME NEW j \in 1..15 PROVE j \in StampCode(ts) <=> j - 1 \in ts
    <2>1. j - 1 \in 0..34 /\ place(j - 1) = j
        OBVIOUS
    <2>2. \A i \in 0..34 : place(i) = j => i = j - 1
        OBVIOUS
    <2>3. j \notin {0, 16, 32, 37}
        OBVIOUS
    <2> HIDE DEF place
    <2> QED BY <1>1, <2>1, <2>2, <2>3
<1>4. ASSUME NEW j \in 17..31 PROVE j \in StampCode(ts) <=> j - 2 \in ts
    <2>1. j - 2 \in 0..34 /\ place(j - 2) = j
        OBVIOUS
    <2>2. \A i \in 0..34 : place(i) = j => i = j - 2
        OBVIOUS
    <2>3. j \notin {0, 16, 32, 37}
        OBVIOUS
    <2> HIDE DEF place
    <2> QED BY <1>1, <2>1, <2>2, <2>3
<1>5. 33 \notin StampCode(ts)
    <2>1. \A i \in 0..34 : place(i) # 33
        OBVIOUS
    <2> HIDE DEF place
    <2> QED BY <1>1, <2>1
<1>6. 34 \in StampCode(ts) <=> 31 \in ts
    <2>1. place(31) = 34 /\ \A i \in 0..34 : place(i) = 34 => i = 31
        OBVIOUS
    <2> HIDE DEF place
    <2> QED BY <1>1, <2>1
<1> QED BY <1>2, <1>3, <1>4, <1>5, <1>6

\* What pts() and dts() of the PES packet give of every stamp that was set: the thirty
\* lowest bits as they were; bit 31 twice, and bits 30 and 32 not.
\* (PESPacket::setPTS and pts, with the marker bits in between.)
THEOREM StampRead ==
    ASSUME NEW ts
    PROVE  decodeTimestamp(encodeTimestamp(ts)) =
             (ts \cap 0..29) \cup (IF 31 \in ts THEN {31, 32} ELSE {})
<1> DEFINE code == StampCode(ts)
           low == {i - 1 : i \in code \cap 1..15}
           middle == {i - 2 : i \in code \cap 17..31}
<1>1. FromBytes(encodeTimestamp(ts)) = code
    <2>1. encodeTimestamp(ts) = ToBytes(code, 5)
        BY DEF encodeTimestamp, StampCode
    <2> QED BY <2>1, CodeFacts, Decoded
<1>2. decodeTimestamp(encodeTimestamp(ts)) =
          low \cup middle \cup (IF 33 \in code THEN {30} ELSE {})
            \cup (IF 34 \in code THEN {31, 32} ELSE {})
    BY <1>1 DEF decodeTimestamp
<1>3. low = ts \cap 0..14
    <2>1. \A x : x \in low <=> \E i \in 1..15 : i - 1 \in ts /\ x = i - 1
        BY CodeFacts
    <2>2. \A x \in 0..14 : x + 1 \in 1..15 /\ (x + 1) - 1 = x
        OBVIOUS
    <2> HIDE DEF low
    <2> QED BY <2>1, <2>2
<1>4. middle = ts \cap 15..29
    <2>1. \A x : x \in middle <=> \E i \in 17..31 : i - 2 \in ts /\ x = i - 2
        BY CodeFacts
    <2>2. \A x \in 15..29 : x + 2 \in 17..31 /\ (x + 2) - 2 = x
        OBVIOUS
    <2> HIDE DEF middle
    <2> QED BY <2>1, <2>2
<1>5. 33 \notin code /\ (34 \in code <=> 31 \in ts)
    BY CodeFacts
<1> HIDE DEF code, low, middle
<1>6. ts \cap 0..29 = (ts \cap 0..14) \cup (ts \cap 15..29)
    OBVIOUS
<1> QED BY <1>2, <1>3, <1>4, <1>5, <1>6

\* Of a stamp of the first three hours, which has no bit above 29, the packer and the
\* PES packet make the same bytes.  (writePTS of the packer and encodeTimestamp.)
THEOREM EncodersAgree ==
    ASSUME NEW ts, ts \subseteq 0..29
    PROVE  writePTS({1}, ts) = encodeTimestamp(ts)
<1> DEFINE first == {36 + i : i \in {1}} \cup {0, 16, 32}
                      \cup {IF i < 15 THEN i + 1 ELSE IF i < 30 THEN i + 2 ELSE i + 3 : i \in ts \cap 0..32}
           second == StampCode(ts)
<1>1. writePTS({1}, ts) = ToBytes(first, 5) /\ encodeTimestamp(ts) = ToBytes(second, 5)
    BY DEF writePTS, encodeTimestamp, StampCode
<1>2. ts \cap 0..32 = ts /\ ts \cap 0..34 = ts
    <2>1. 0..29 \subseteq 0..32 /\ 0..29 \subseteq 0..34
        OBVIOUS
    <2> QED BY <2>1, Zenon
<1>3. \A i \in ts : /\ (IF i < 15 THEN i + 1 ELSE IF i < 30 THEN i + 2 ELSE i + 3)
                       = (IF i < 15 THEN i + 1 ELSE IF i < 31 THEN i + 2 ELSE i + 3)
    OBVIOUS
<1>4. {36 + i : i \in {1}} = {37}
    OBVIOUS
<1>5. first = second
    BY <1>2, <1>3, <1>4 DEF StampCode, Marks
<1> QED BY <1>1, <1>5

\* A stamp is written as five bytes.
LEMMA StampBytes ==
    ASSUME NEW ts
    PROVE  encodeTimestamp(ts) \in Seq(0..255) /\ Len(encodeTimestamp(ts)) = 5
<1>1. encodeTimestamp(ts) = ToBytes(StampCode(ts), 5)
    BY DEF encodeTimestamp, StampCode
<1>2. ToBytes(StampCode(ts), 5) \in Seq(0..255) /\ Len(ToBytes(StampCode(ts), 5)) = 5
    BY Coded
<1> QED BY <1>1, <1>2

\* What the report reads of every clock reference that the packer wrote: all but the
\* lowest bit of the base and the highest of the extension.
\* (writePcrBits of the packer and printPCR.)
THEOREM ClockRead ==
    ASSUME NEW pcr, pcr.base \subseteq 0..32, pcr.ext \subseteq 0..8
    PROVE  readPcrBits(writePcrBits(pcr)) = [base |-> pcr.base \ {0}, ext |-> pcr.ext \ {8}]
<1> DEFINE code == {i + 15 : i \in pcr.base} \cup 9..14 \cup pcr.ext
<1>1. code \subseteq Nat /\ \A c \in code : c < 8 * 6
    OBVIOUS
<1>2. FromBytes(writePcrBits(pcr)) = code
    <2>1. writePcrBits(pcr) = ToBytes(code, 6)
        BY DEF writePcrBits
    <2> HIDE DEF code
    <2> QED BY <1>1, <2>1, Decoded
<1>3. {i - 15 : i \in code \cap 16..47} = pcr.base \ {0}
    <2>1. \A j \in 16..47 : j \in code <=> j - 15 \in pcr.base
        <3>1. \A i \in pcr.base : i \in Int
            OBVIOUS
        <3> QED BY <3>1
    <2> HIDE DEF code
    <2>2. \A x \in pcr.base : x # 0 => x + 15 \in 16..47 /\ (x + 15) - 15 = x
        OBVIOUS
    <2>3. \A x : x \in {i - 15 : i \in code \cap 16..47} <=> \E i \in 16..47 : i - 15 \in pcr.base /\ x = i - 15
        BY <2>1
    <2> QED BY <2>2, <2>3
<1>4. code \cap 0..7 = pcr.ext \ {8}
    OBVIOUS
<1> HIDE DEF code
<1> QED BY <1>2, <1>3, <1>4 DEF readPcrBits

-----------------------------------------------------------------------------
\* The fourth byte of the header: what control field and counter it has.
Control(b) == (b \div 16) % 4

\* A packet is its position and TS_SIZE bytes.
Shape ==
    /\ pckt = [pos |-> pckt.pos, data |-> pckt.data]
    /\ pckt.pos \in Nat /\ pckt.pos <= TS_SIZE
    /\ DOMAIN pckt.data = 1..TS_SIZE

\* Until all bytes are in it, a packet is as far as given, and nothing else was done.
Filling ==
    /\ named = None
    /\ counted = 0
    /\ written = {}
    /\ pckt.data \in [1..TS_SIZE -> Nat]
    /\ \A k \in 1..TS_SIZE : k <= pckt.pos => pckt.data[k] = given.bytes[k]

\* The header of a complete packet.  Whether there is an adaptation field in front of a
\* payload does not change; without one the fifth byte is not read again.
Flags == pckt.data[2] \in Nat /\ pckt.data[2] \div 32 = given.bytes[2] \div 32

Names ==
    /\ pckt.data[3] \in Nat
    /\ PID(pckt) = IF named = None THEN PID(original) ELSE (257 * (named \div 256)) % 8192

Counts ==
    /\ counted \in Nat
    /\ pckt.data[4] \in Nat
    /\ pckt.data[4] % 16 = ((given.bytes[4] % 16) + counted) % 16
    /\ counted = 0 => pckt.data[4] = given.bytes[4]

Controls ==
    /\ Control(given.bytes[4]) \in {1, 3} => Control(pckt.data[4]) = Control(given.bytes[4])
    /\ Control(given.bytes[4]) # 1 => Control(pckt.data[4]) # 1 /\ pckt.data[5] = given.bytes[5]

\* Unless it was written to, what follows the header is as given.
Rest ==
    written = {} =>
        /\ pckt.data \in [1..TS_SIZE -> Nat]
        /\ \A k \in 5..TS_SIZE : pckt.data[k] = given.bytes[k]

FieldsInv ==
    /\ given \in Packets
    /\ Shape
    /\ ~Complete => Filling
    /\ Complete => Flags /\ Names /\ Counts /\ Controls /\ Rest

-----------------------------------------------------------------------------
\* What a sequence holds.
LEMMA Element ==
    ASSUME NEW S, NEW s \in Seq(S), NEW k \in 1..Len(s)
    PROVE  s[k] \in S
OBVIOUS

LEMMA AsFunction ==
    ASSUME NEW T, NEW S, S \subseteq T, NEW s \in Seq(S)
    PROVE  s \in [1..Len(s) -> T]
<1>1. s \in [1..Len(s) -> S]
    OBVIOUS
<1> QED BY <1>1

\* A packet is larger than its header and the first two bytes of a field.
LEMMA SizeFacts == TS_SIZE \in Nat /\ TS_SIZE > 20 /\ PayloadSize = TS_SIZE - 4 /\ PayloadSize \in Nat
BY PayloadSizeAssumption DEF TS_SIZE

\* The bytes of the packet as it came.
LEMMA GivenFacts ==
    ASSUME given \in Packets
    PROVE  /\ given.bytes \in Seq(0..255)
           /\ Len(given.bytes) = TS_SIZE
           /\ \A k \in 1..TS_SIZE : given.bytes[k] \in Nat /\ given.bytes[k] < 256
           /\ given.bytes \in [1..TS_SIZE -> Nat]
           /\ original.data = given.bytes /\ original.pos = TS_SIZE
<1>1. given.bytes \in Seq(0..255) /\ Len(given.bytes) = TS_SIZE
    BY PacketsAssumption
<1>2. ASSUME NEW k \in 1..TS_SIZE PROVE given.bytes[k] \in 0..255
    BY <1>1, Element
<1>3. 0..255 \subseteq Nat
    OBVIOUS
<1>4. given.bytes \in [1..TS_SIZE -> Nat]
    BY <1>1, <1>3, AsFunction
<1>5. ASSUME NEW k \in 1..TS_SIZE PROVE given.bytes[k] \in Nat /\ given.bytes[k] < 256
    <2>1. \A b \in 0..255 : b \in Nat /\ b < 256
        OBVIOUS
    <2> QED BY <1>2, <2>1
<1>6. original.data = given.bytes /\ original.pos = TS_SIZE
    BY DEF original, insert
<1> QED BY <1>1, <1>4, <1>5, <1>6

\* Sums of a multiple and what is left.
LEMMA Parts ==
    ASSUME NEW a \in Nat, NEW b \in Nat
    PROVE  /\ b < 32 => (32 * a + b) \div 32 = a
           /\ (256 * (32 * a + b) + b) % 8192 = (257 * b) % 8192
OBVIOUS

\* Byte 4 when the counter is incremented.
LEMMA Counter ==
    ASSUME NEW c \in Nat, c < 16
    PROVE  /\ (16 + c) % 16 = c /\ (48 + c) % 16 = c
           /\ Control(16 + c) = 1 /\ Control(48 + c) = 3
BY DEF Control

LEMMA NextCount ==
    ASSUME NEW c \in Nat, NEW n \in Nat
    PROVE  (((c + n) % 16) + 1) % 16 = (c + (n + 1)) % 16
OBVIOUS

\* The payload begins behind the header, and behind the length of an adaptation field if
\* there may be one.
LEMMA StartFacts ==
    ASSUME NEW p, p.data[5] \in Nat \/ Control(p.data[4]) = 1
    PROVE  /\ data_byte(p) \in Nat /\ data_byte(p) <= PayloadSize
           /\ Control(p.data[4]) # 1 => data_byte(p) < PayloadSize
<1>1. PayloadSize \in Nat /\ PayloadSize > 16
    BY SizeFacts
<1>2. adaptationFieldExist(p) = Control(p.data[4])
    BY DEF adaptationFieldExist, Control
<1> DEFINE c == Control(p.data[4])
           af == p.data[5]
<1>3. data_byte(p) = CASE c = 0 -> 0
                          [] c = 1 -> PayloadSize
                          [] c = 2 -> PayloadSize - 1
                          [] c = 3 /\ af <= PayloadSize - 2 -> PayloadSize - af - 1
                          [] OTHER -> PayloadSize - 2
    BY <1>2 DEF data_byte
<1>4. af \in Nat \/ c = 1
    OBVIOUS
<1> HIDE DEF c, af
<1> QED BY <1>1, <1>3, <1>4 DEF c

\* The ways in which a packet is changed: what each leaves alone.
LEMMA Updates ==
    ASSUME Shape, Complete, NEW x, NEW y
    PROVE  /\ pckt' = [pckt EXCEPT !.data[4] = x] =>
                /\ Shape' /\ Complete'
                /\ pckt'.data[4] = x
                /\ \A k \in 1..TS_SIZE : k # 4 => pckt'.data[k] = pckt.data[k]
                /\ pckt.data \in [1..TS_SIZE -> Nat] /\ x \in Nat => pckt'.data \in [1..TS_SIZE -> Nat]
           /\ pckt' = [pckt EXCEPT !.data[2] = x, !.data[3] = y] =>
                /\ Shape' /\ Complete'
                /\ pckt'.data[2] = x /\ pckt'.data[3] = y
                /\ \A k \in 1..TS_SIZE : k \notin {2, 3} => pckt'.data[k] = pckt.data[k]
                /\ pckt.data \in [1..TS_SIZE -> Nat] /\ x \in Nat /\ y \in Nat =>
                     pckt'.data \in [1..TS_SIZE -> Nat]
<1>0. TS_SIZE \in Nat /\ TS_SIZE > 20
    BY SizeFacts
<1>1. DOMAIN pckt.data = 1..TS_SIZE /\ pckt = [pos |-> pckt.pos, data |-> pckt.data]
      /\ pckt.pos = TS_SIZE
    BY DEF Shape, Complete
<1>2. 2 \in 1..TS_SIZE /\ 3 \in 1..TS_SIZE /\ 4 \in 1..TS_SIZE
    BY <1>0
<1>3. ASSUME pckt' = [pckt EXCEPT !.data[4] = x]
      PROVE  /\ pckt'.pos = TS_SIZE /\ pckt'.data = [pckt.data EXCEPT ![4] = x]
             /\ pckt' = [pos |-> pckt'.pos, data |-> pckt'.data]
    BY <1>1, <1>3
<1>4. ASSUME pckt' = [pckt EXCEPT !.data[2] = x, !.data[3] = y]
      PROVE  /\ pckt'.pos = TS_SIZE
             /\ pckt'.data = [pckt.data EXCEPT ![2] = x, ![3] = y]
             /\ pckt' = [pos |-> pckt'.pos, data |-> pckt'.data]
    BY <1>1, <1>4
<1>5. ASSUME pckt' = [pckt EXCEPT !.data[4] = x]
      PROVE  /\ DOMAIN pckt'.data = 1..TS_SIZE
             /\ pckt'.data[4] = x
             /\ \A k \in 1..TS_SIZE : k # 4 => pckt'.data[k] = pckt.data[k]
             /\ pckt.data \in [1..TS_SIZE -> Nat] /\ x \in Nat => pckt'.data \in [1..TS_SIZE -> Nat]
    BY <1>1, <1>2, <1>3, <1>5
<1>6. ASSUME pckt' = [pckt EXCEPT !.data[2] = x, !.data[3] = y]
      PROVE  /\ DOMAIN pckt'.data = 1..TS_SIZE
             /\ pckt'.data[2] = x /\ pckt'.data[3] = y
             /\ \A k \in 1..TS_SIZE : k \notin {2, 3} => pckt'.data[k] = pckt.data[k]
             /\ pckt.data \in [1..TS_SIZE -> Nat] /\ x \in Nat /\ y \in Nat =>
                  pckt'.data \in [1..TS_SIZE -> Nat]
    <2> DEFINE d == pckt.data
    <2>1. DOMAIN d = 1..TS_SIZE /\ pckt'.data = [[d EXCEPT ![2] = x] EXCEPT ![3] = y]
        BY <1>1, <1>4, <1>6
    <2> HIDE DEF d
    <2>2. d \in [1..TS_SIZE -> Nat] /\ x \in Nat /\ y \in Nat =>
              [[d EXCEPT ![2] = x] EXCEPT ![3] = y] \in [1..TS_SIZE -> Nat]
        OBVIOUS
    <2>3. DOMAIN pckt'.data = 1..TS_SIZE
        BY <2>1
    <2>4. pckt'.data[2] = x /\ pckt'.data[3] = y
        BY <1>2, <2>1
    <2>5. \A k \in 1..TS_SIZE : k \notin {2, 3} => pckt'.data[k] = d[k]
        BY <2>1
    <2> QED BY <2>1, <2>2, <2>3, <2>4, <2>5 DEF d
<1>7. ASSUME pckt' = [pckt EXCEPT !.data[4] = x] PROVE Shape' /\ Complete'
    BY <1>0, <1>3, <1>5, <1>7 DEF Shape, Complete
<1>8. ASSUME pckt' = [pckt EXCEPT !.data[2] = x, !.data[3] = y] PROVE Shape' /\ Complete'
    BY <1>0, <1>4, <1>6, <1>8 DEF Shape, Complete
<1> QED BY <1>5, <1>6, <1>7, <1>8

\* A payload is put in from where it begins; before that the packet is as it was.
LEMMA Overwritten ==
    ASSUME Shape, Complete, data_byte(pckt) \in Nat, data_byte(pckt) <= PayloadSize,
           NEW bytes, pckt' = setPayload(pckt, bytes)
    PROVE  /\ Shape' /\ Complete'
           /\ \A k \in 1..TS_SIZE : k <= TS_SIZE - data_byte(pckt) => pckt'.data[k] = pckt.data[k]
<1> DEFINE start == TS_SIZE - data_byte(pckt)
           f == [k \in 1..TS_SIZE |-> IF k > start /\ k - start <= Len(bytes)
                                      THEN bytes[k - start] ELSE pckt.data[k]]
           S == {f[k] : k \in 1..TS_SIZE}
<1>0. TS_SIZE \in Nat /\ TS_SIZE > 20 /\ start \in Nat
    BY SizeFacts
<1>1. f \in [1..TS_SIZE -> S]
    OBVIOUS
<1>2. \A k \in 1..TS_SIZE : k <= start => f[k] = pckt.data[k]
    BY <1>0
<1>3. /\ pckt = [pos |-> pckt.pos, data |-> pckt.data] /\ pckt.pos = TS_SIZE
      /\ pckt' = [pckt EXCEPT !.data = f \o <<>>]
    BY DEF Shape, Complete, setPayload
<1> HIDE DEF f, S, start
<1>4. f \in Seq(S) /\ Len(f) = TS_SIZE
    BY <1>0, <1>1
<1>5. f \o <<>> = f
    BY <1>4
<1>6. /\ pckt'.pos = TS_SIZE /\ pckt'.data = f
      /\ pckt' = [pos |-> pckt'.pos, data |-> pckt'.data]
    BY <1>3, <1>5
<1>7. DOMAIN f = 1..TS_SIZE
    BY <1>1
<1> QED BY <1>0, <1>2, <1>6, <1>7 DEF Shape, Complete, start

\* All bytes are in and nothing was called.
AsGiven ==
    /\ given \in Packets
    /\ pckt.data \in [1..TS_SIZE -> Nat]
    /\ \A k \in 1..TS_SIZE : pckt.data[k] = given.bytes[k]
    /\ named = None
    /\ counted = 0

LEMMA AtFirst == AsGiven => Flags /\ Names /\ Counts /\ Controls /\ Rest
<1> SUFFICES ASSUME AsGiven PROVE Flags /\ Names /\ Counts /\ Controls /\ Rest
    OBVIOUS
<1> USE DEF AsGiven
<1>0. /\ TS_SIZE \in Nat /\ TS_SIZE > 20
      /\ 2 \in 1..TS_SIZE /\ 3 \in 1..TS_SIZE /\ 4 \in 1..TS_SIZE /\ 5 \in 1..TS_SIZE
    BY SizeFacts
<1>1. /\ pckt.data[2] = given.bytes[2] /\ pckt.data[3] = given.bytes[3]
      /\ pckt.data[4] = given.bytes[4] /\ pckt.data[5] = given.bytes[5]
      /\ given.bytes[2] \in Nat /\ given.bytes[3] \in Nat /\ given.bytes[4] \in Nat
    <2>1. \A k \in 1..TS_SIZE : pckt.data[k] = given.bytes[k] /\ given.bytes[k] \in Nat
        BY GivenFacts
    <2> QED BY <1>0, <2>1
<1>2. Flags
    BY <1>1 DEF Flags
<1>3. Names
    BY <1>1, GivenFacts DEF Names, PID
<1>4. Counts
    <2>1. \A b \in Nat : b % 16 = ((b % 16) + 0) % 16
        OBVIOUS
    <2> QED BY <1>1, <2>1 DEF Counts
<1>5. Controls
    BY <1>1 DEF Controls
<1>6. Rest
    BY <1>0 DEF Rest
<1> QED BY <1>2, <1>3, <1>4, <1>5, <1>6

LEMMA AtFirstNext == AsGiven' => (Flags /\ Names /\ Counts /\ Controls /\ Rest)'
BY AtFirst, PTL

LEMMA FieldsInit == Init => FieldsInv
<1> SUFFICES ASSUME Init PROVE FieldsInv
    OBVIOUS
<1>0. /\ TS_SIZE \in Nat /\ TS_SIZE > 20 /\ given \in Packets
      /\ named = None /\ counted = 0 /\ written = {}
    BY SizeFacts DEF Init
<1>1. CASE pckt = insert(given.bytes)
    <2>1. /\ pckt.pos = TS_SIZE /\ pckt.data = given.bytes
          /\ pckt = [pos |-> pckt.pos, data |-> pckt.data]
        BY <1>1 DEF insert
    <2>2. pckt.data \in [1..TS_SIZE -> Nat]
        BY <1>0, <2>1, GivenFacts
    <2>3. Flags /\ Names /\ Counts /\ Controls /\ Rest
        BY <1>0, <2>1, <2>2, AtFirst DEF AsGiven
    <2>4. Shape /\ Complete
        BY <1>0, <2>1, <2>2 DEF Shape, Complete
    <2> QED BY <1>0, <2>3, <2>4 DEF FieldsInv
<1>2. CASE pckt = NewPacket
    <2> DEFINE f == [k \in 1..TS_SIZE |-> 255]
    <2>1. f \in [1..TS_SIZE -> Nat] /\ f \in Seq(Nat) /\ f \o <<>> = f
        <3>1. f \in Seq(Nat)
            BY <1>0
        <3> QED BY <3>1
    <2>2. pckt.pos = 0 /\ pckt.data = f /\ pckt = [pos |-> pckt.pos, data |-> pckt.data]
        BY <1>2, <2>1 DEF NewPacket
    <2>3. Filling
        BY <1>0, <2>1, <2>2 DEF Filling
    <2>4. Shape /\ ~Complete
        BY <1>0, <2>1, <2>2 DEF Shape, Complete
    <2> QED BY <1>0, <2>3, <2>4 DEF FieldsInv
<1> QED BY <1>1, <1>2 DEF Init

\* One byte more.
LEMMA FillStep ==
    ASSUME FieldsInv, PushBack
    PROVE  FieldsInv'
<1>0. /\ TS_SIZE \in Nat /\ TS_SIZE > 20 /\ given \in Packets /\ given' = given
      /\ UNCHANGED <<named, counted, written>> /\ ~Complete /\ Shape /\ Filling
    BY SizeFacts DEF FieldsInv, PushBack
<1> DEFINE n == pckt.pos + 1
<1>1. pckt.pos < TS_SIZE /\ n \in 1..TS_SIZE /\ n \in Nat
    BY <1>0 DEF Shape, Complete
<1>2. pckt' = [pos |-> n, data |-> [pckt.data EXCEPT ![n] = given.bytes[n]]]
    BY <1>1 DEF PushBack, push_back
<1>3. /\ pckt'.pos = n /\ pckt'.data = [pckt.data EXCEPT ![n] = given.bytes[n]]
      /\ pckt' = [pos |-> pckt'.pos, data |-> pckt'.data]
    BY <1>2
<1>4. given.bytes[n] \in Nat
    BY <1>0, <1>1, GivenFacts
<1>5. pckt'.data \in [1..TS_SIZE -> Nat]
    BY <1>0, <1>3, <1>4 DEF Filling
<1>6. \A k \in 1..TS_SIZE : k <= n => pckt'.data[k] = given.bytes[k]
    <2> SUFFICES ASSUME NEW k \in 1..TS_SIZE, k <= n PROVE pckt'.data[k] = given.bytes[k]
        OBVIOUS
    <2>1. pckt.data \in [1..TS_SIZE -> Nat]
        BY <1>0 DEF Filling
    <2>2. CASE k = n
        BY <1>1, <1>3, <2>1, <2>2
    <2>3. CASE k # n
        <3>1. k <= pckt.pos
            BY <1>0, <1>1, <2>3 DEF Shape
        <3>2. pckt'.data[k] = pckt.data[k]
            BY <1>3, <2>1, <2>3
        <3> QED BY <1>0, <3>1, <3>2 DEF Filling
    <2> QED BY <2>2, <2>3
<1>7. Shape'
    BY <1>0, <1>1, <1>3, <1>5 DEF Shape
<1>8. Filling'
    BY <1>0, <1>3, <1>5, <1>6 DEF Filling
<1>9. Complete' => (Flags /\ Names /\ Counts /\ Controls /\ Rest)'
    <2> SUFFICES ASSUME Complete' PROVE (Flags /\ Names /\ Counts /\ Controls /\ Rest)'
        OBVIOUS
    <2>1. n = TS_SIZE
        BY <1>3 DEF Complete
    <2>2. \A k \in 1..TS_SIZE : pckt'.data[k] = given'.bytes[k]
        BY <1>0, <1>6, <2>1
    <2>3. given' \in Packets /\ named' = None /\ counted' = 0
        BY <1>0 DEF Filling
    <2>4. AsGiven'
        BY <1>5, <2>2, <2>3 DEF AsGiven
    <2> QED BY <2>4, AtFirstNext
<1> QED BY <1>0, <1>7, <1>8, <1>9 DEF FieldsInv

\* A PID takes the place of another.
LEMMA PIDStep ==
    ASSUME FieldsInv, NEW pid \in PIDs, SetPID(pid)
    PROVE  FieldsInv'
<1>0. /\ TS_SIZE \in Nat /\ TS_SIZE > 20 /\ given \in Packets /\ given' = given
      /\ UNCHANGED <<counted, written>> /\ named' = pid /\ Complete /\ Shape
      /\ Flags /\ Names /\ Counts /\ Controls /\ Rest
    BY SizeFacts DEF FieldsInv, SetPID, Call
<1> DEFINE q == pid \div 256
           a == pckt.data[2] \div 32
           b == 32 * (pckt.data[2] \div 32) + pid \div 256
<1>1. pid \in 0..8191 /\ pid # None
    BY PIDsAssumption
<1>2. q \in Nat /\ q < 32
    <2>1. pid \in Nat /\ pid < 8192
        BY <1>1
    <2>2. \A n \in Nat : n < 8192 => n \div 256 \in Nat /\ n \div 256 < 32
        OBVIOUS
    <2> QED BY <2>1, <2>2
<1>3. a \in Nat
    BY <1>0 DEF Flags
<1>4. b = 32 * a + q /\ b \in Nat
    BY <1>2, <1>3
<1>5. pckt' = [pckt EXCEPT !.data[2] = b, !.data[3] = q]
    BY <1>0 DEF SetPID, setPID
<1> HIDE DEF q, a, b
<1>6. /\ Shape' /\ Complete'
      /\ pckt'.data[2] = b /\ pckt'.data[3] = q
      /\ \A k \in 1..TS_SIZE : k \notin {2, 3} => pckt'.data[k] = pckt.data[k]
      /\ pckt.data \in [1..TS_SIZE -> Nat] => pckt'.data \in [1..TS_SIZE -> Nat]
    <2>1. Shape /\ Complete
        BY <1>0
    <2>2. q \in Nat /\ b \in Nat
        BY <1>2, <1>4
    <2> QED BY <1>5, <2>1, <2>2, Updates
<1>7. Flags'
    <2>1. b \div 32 = a
        BY <1>2, <1>3, <1>4, Parts
    <2> QED BY <1>0, <1>4, <1>6, <2>1 DEF Flags, a
<1>8. Names'
    <2>1. (256 * b + q) % 8192 = (257 * q) % 8192
        BY <1>2, <1>3, <1>4, Parts
    <2>2. PID(pckt)' = (256 * b + q) % 8192
        BY <1>6 DEF PID
    <2> QED BY <1>0, <1>1, <1>2, <1>6, <2>1, <2>2 DEF Names, q
<1>9. pckt'.data[4] = pckt.data[4] /\ pckt'.data[5] = pckt.data[5]
    BY <1>0, <1>6
<1>10. Counts' /\ Controls'
    BY <1>0, <1>9 DEF Counts, Controls
<1>11. Rest'
    <2>1. \A k \in 5..TS_SIZE : pckt'.data[k] = pckt.data[k]
        BY <1>0, <1>6
    <2> QED BY <1>0, <1>6, <2>1 DEF Rest
<1> QED BY <1>0, <1>6, <1>7, <1>8, <1>10, <1>11 DEF FieldsInv

\* The counter is incremented.
LEMMA CCStep ==
    ASSUME FieldsInv, IncrementCC
    PROVE  FieldsInv'
<1>0. /\ TS_SIZE \in Nat /\ TS_SIZE > 20 /\ given \in Packets /\ given' = given
      /\ UNCHANGED <<named, written>> /\ counted' = counted + 1 /\ Complete /\ Shape
      /\ Flags /\ Names /\ Counts /\ Controls /\ Rest
    BY SizeFacts DEF FieldsInv, IncrementCC, Call
<1> DEFINE c == (cc(pckt) + 1) % 16
           control == IF adaptationFieldExist(pckt) = 1 THEN 16 ELSE 48
<1>1. pckt' = [pckt EXCEPT !.data[4] = control + c]
    BY DEF IncrementCC, incrementCC
<1>2. c \in Nat /\ c < 16
    BY <1>0 DEF Counts, cc
<1>3. control \in {16, 48} /\ (control = 16 <=> Control(pckt.data[4]) = 1)
    BY DEF adaptationFieldExist, Control
<1>4. c = ((given.bytes[4] % 16) + (counted + 1)) % 16
    <2>1. cc(pckt) = ((given.bytes[4] % 16) + counted) % 16
        BY <1>0 DEF Counts, cc
    <2>2. given.bytes[4] % 16 \in Nat /\ counted \in Nat
        <3>1. 4 \in 1..TS_SIZE
            BY <1>0
        <3>2. given.bytes[4] \in Nat
            BY <1>0, <3>1, GivenFacts
        <3>3. given.bytes[4] % 16 \in Nat
            BY <3>2
        <3> QED BY <1>0, <3>3 DEF Counts
    <2> QED BY <2>1, <2>2, NextCount
<1> HIDE DEF c, control
<1>5. /\ Shape' /\ Complete'
      /\ pckt'.data[4] = control + c /\ control + c \in Nat
      /\ \A k \in 1..TS_SIZE : k # 4 => pckt'.data[k] = pckt.data[k]
      /\ pckt.data \in [1..TS_SIZE -> Nat] => pckt'.data \in [1..TS_SIZE -> Nat]
    <2>1. control + c \in Nat
        BY <1>2, <1>3
    <2> QED BY <1>0, <1>1, <2>1, Updates
<1>6. /\ (control + c) % 16 = c
      /\ Control(control + c) = IF control = 16 THEN 1 ELSE 3
    BY <1>2, <1>3, Counter
<1>7. /\ pckt'.data[2] = pckt.data[2] /\ pckt'.data[3] = pckt.data[3]
      /\ pckt'.data[5] = pckt.data[5]
    BY <1>0, <1>5
<1>8. Flags' /\ Names'
    BY <1>0, <1>7 DEF Flags, Names, PID, original, insert
<1>9. Counts'
    <2>1. counted + 1 \in Nat /\ counted + 1 # 0
        BY <1>0 DEF Counts
    <2> QED BY <1>0, <1>4, <1>5, <1>6, <2>1 DEF Counts
<1>10. Controls'
    <2>1. Control(pckt'.data[4]) = IF Control(pckt.data[4]) = 1 THEN 1 ELSE 3
        BY <1>3, <1>5, <1>6
    <2>2. Controls
        BY <1>0
    <2>3. given'.bytes = given.bytes /\ pckt'.data[5] = pckt.data[5]
        BY <1>0, <1>7
    <2> QED BY <2>1, <2>2, <2>3 DEF Controls
<1>11. Rest'
    <2>1. \A k \in 5..TS_SIZE : pckt'.data[k] = pckt.data[k]
        BY <1>0, <1>5
    <2> QED BY <1>0, <1>5, <2>1 DEF Rest
<1> QED BY <1>0, <1>5, <1>8, <1>9, <1>10, <1>11 DEF FieldsInv

\* A header is written over the beginning of the payload.
LEMMA WriteStep ==
    ASSUME FieldsInv, WriteBack
    PROVE  FieldsInv'
<1>0. /\ TS_SIZE \in Nat /\ TS_SIZE > 20 /\ given \in Packets /\ given' = given
      /\ UNCHANGED <<named, counted>> /\ written' # {} /\ Complete /\ Shape
      /\ Flags /\ Names /\ Counts /\ Controls /\ Rest /\ PayloadSize = TS_SIZE - 4
    BY SizeFacts DEF FieldsInv, WriteBack, Call
<1>1. PICK bytes : pckt' = setPayload(pckt, bytes)
    BY DEF WriteBack
<1>2. given.bytes[4] \in Nat /\ given.bytes[5] \in Nat
    BY <1>0, GivenFacts
<1>3. pckt.data[5] \in Nat \/ Control(pckt.data[4]) = 1
    BY <1>0, <1>2 DEF Controls
<1>4. /\ data_byte(pckt) \in Nat /\ data_byte(pckt) <= PayloadSize
      /\ Control(pckt.data[4]) # 1 => data_byte(pckt) < PayloadSize
    BY <1>3, StartFacts
<1>5. /\ Shape' /\ Complete'
      /\ \A k \in 1..TS_SIZE : k <= TS_SIZE - data_byte(pckt) => pckt'.data[k] = pckt.data[k]
    BY <1>0, <1>1, <1>4, Overwritten
<1>6. /\ pckt'.data[2] = pckt.data[2] /\ pckt'.data[3] = pckt.data[3]
      /\ pckt'.data[4] = pckt.data[4]
      /\ Control(pckt.data[4]) # 1 => pckt'.data[5] = pckt.data[5]
    BY <1>0, <1>4, <1>5
<1>7. Flags' /\ Names' /\ Counts'
    BY <1>0, <1>6 DEF Flags, Names, Counts, PID, original, insert
<1>8. Controls'
    BY <1>0, <1>6 DEF Controls
<1>9. Rest'
    BY <1>0 DEF Rest
<1> QED BY <1>0, <1>5, <1>7, <1>8, <1>9 DEF FieldsInv

\* Every call keeps the invariant.
LEMMA FieldsStep ==
    ASSUME FieldsInv, [Next]_vars
    PROVE  FieldsInv'
<1>1. ASSUME UNCHANGED <<pckt, given, named, counted, written>> PROVE FieldsInv'
    BY <1>1 DEF FieldsInv, Shape, Complete, Filling, Flags, Names, Counts, Controls, Rest, PID,
                original, insert
<1>2. CASE PushOneMore
    <2>1. pckt' = pckt
        BY <1>2, SizeFacts DEF PushOneMore, Call, Complete, push_back
    <2> QED BY <1>1, <1>2, <2>1 DEF PushOneMore, Call
<1>3. CASE Parse \/ Reset \/ AddSecond \/ (\E ts \in Stamps : SetPTS(ts) \/ SetDTS(ts)) \/ UNCHANGED vars
    BY <1>1, <1>3 DEF Parse, Reset, AddSecond, SetPTS, SetDTS, Call, vars
<1> QED BY <1>2, <1>3, FillStep, PIDStep, CCStep, WriteStep DEF Next

\* For every packet, whatever its size, and however often what is called: the flags stay
\* when the PID is set, the counter wraps, and neither touches the other.
THEOREM HeaderStays == Spec => []HeaderHolds
<1>1. FieldsInv => HeaderHolds
    <2> SUFFICES ASSUME FieldsInv, Complete
                 PROVE  /\ HeaderFlags(pckt) = HeaderFlags(original)
                        /\ cc(pckt) = (cc(original) + counted) % 16
                        /\ counted = 0 => scramblingControl(pckt) = scramblingControl(original)
                        /\ HasPayload(original) =>
                             adaptationFieldExist(pckt) = adaptationFieldExist(original)
                        /\ PID(pckt) = IF named = None THEN PID(original)
                                       ELSE (257 * (named \div 256)) % 8192
        BY DEF HeaderHolds
    <2>1. original.data = given.bytes /\ Flags /\ Names /\ Counts /\ Controls
        BY GivenFacts DEF FieldsInv
    <2>2. HeaderFlags(pckt) = HeaderFlags(original)
        BY <2>1 DEF Flags, HeaderFlags
    <2>3. cc(pckt) = (cc(original) + counted) % 16
        BY <2>1 DEF Counts, cc
    <2>4. counted = 0 => scramblingControl(pckt) = scramblingControl(original)
        BY <2>1 DEF Counts, scramblingControl
    <2>5. HasPayload(original) => adaptationFieldExist(pckt) = adaptationFieldExist(original)
        BY <2>1 DEF Controls, HasPayload, adaptationFieldExist, Control
    <2>6. PID(pckt) = IF named = None THEN PID(original) ELSE (257 * (named \div 256)) % 8192
        BY <2>1 DEF Names
    <2> QED BY <2>2, <2>3, <2>4, <2>5, <2>6
<1>2. FieldsInv /\ [Next]_vars => FieldsInv'
    BY FieldsStep
<1> QED BY FieldsInit, <1>1, <1>2, PTL DEF Spec

\* Two packets that agree from a place on have one payload there.
LEMMA SamePayload ==
    ASSUME NEW n \in Nat, NEW start \in Nat, start <= n,
           NEW d \in [1..n -> Nat], NEW e \in [1..n -> Nat],
           \A k \in 1..n : k > start => d[k] = e[k]
    PROVE  SubSeq(d, start + 1, n) = SubSeq(e, start + 1, n)
<1>1. d \in Seq(Nat) /\ e \in Seq(Nat) /\ Len(d) = n /\ Len(e) = n
    OBVIOUS
<1>2. SubSeq(d, start + 1, n) \in Seq(Nat) /\ SubSeq(e, start + 1, n) \in Seq(Nat)
    BY <1>1
<1>3. Len(SubSeq(d, start + 1, n)) = n - start /\ Len(SubSeq(e, start + 1, n)) = n - start
    BY <1>1
<1>4. ASSUME NEW k \in 1..(n - start)
      PROVE  SubSeq(d, start + 1, n)[k] = SubSeq(e, start + 1, n)[k]
    <2>1. SubSeq(d, start + 1, n)[k] = d[start + k] /\ SubSeq(e, start + 1, n)[k] = e[start + k]
        BY <1>1
    <2>2. start + k \in 1..n /\ start + k > start
        OBVIOUS
    <2> QED BY <2>1, <2>2
<1> QED BY <1>2, <1>3, <1>4

\* A payload stays where it was.
LEMMA SameStart ==
    ASSUME FieldsInv, Complete, HasPayload(original)
    PROVE  /\ adaptationFieldExist(pckt) = adaptationFieldExist(original)
           /\ data_byte(pckt) = data_byte(original)
           /\ adaptationFieldExist(pckt) = 3 => pckt.data[5] = given.bytes[5]
<1>1. original.data = given.bytes /\ Controls
    BY GivenFacts DEF FieldsInv
<1>2. Control(given.bytes[4]) \in {1, 3} /\ Control(pckt.data[4]) = Control(given.bytes[4])
    BY <1>1 DEF Controls, HasPayload, adaptationFieldExist, Control
<1>3. /\ adaptationFieldExist(pckt) = adaptationFieldExist(original)
      /\ adaptationFieldExist(pckt) \in {1, 3}
      /\ adaptationFieldExist(pckt) = 3 => pckt.data[5] = original.data[5]
    BY <1>1, <1>2 DEF Controls, adaptationFieldExist, Control
<1>4. data_byte(pckt) = data_byte(original)
    BY <1>3 DEF data_byte
<1> QED BY <1>1, <1>3, <1>4

\* The payload of a packet that has one stays where it was and, as long as no header is
\* written into it, what it was.
THEOREM PayloadKept == Spec => []PayloadStays
<1>1. FieldsInv => PayloadStays
    <2> SUFFICES ASSUME FieldsInv, Complete, HasPayload(original)
                 PROVE  /\ data_byte(pckt) = data_byte(original)
                        /\ written = {} => getPayload(pckt) = getPayload(original)
        BY DEF PayloadStays
    <2>1. /\ original.data = given.bytes /\ Controls /\ Rest
          /\ given.bytes \in [1..TS_SIZE -> Nat]
        BY GivenFacts DEF FieldsInv
    <2>4. data_byte(pckt) = data_byte(original)
        BY SameStart
    <2>5. ASSUME written = {} PROVE getPayload(pckt) = getPayload(original)
        <3>1. /\ TS_SIZE \in Nat /\ TS_SIZE > 20 /\ PayloadSize = TS_SIZE - 4
            BY SizeFacts
        <3>2. /\ pckt.data \in [1..TS_SIZE -> Nat]
              /\ \A k \in 5..TS_SIZE : pckt.data[k] = given.bytes[k]
            BY <2>1, <2>5 DEF Rest
        <3>3. pckt.data[5] \in Nat
            BY <3>1, <3>2
        <3>4. data_byte(pckt) \in Nat /\ data_byte(pckt) <= PayloadSize
            BY <3>3, StartFacts
        <3> DEFINE start == TS_SIZE - data_byte(pckt)
        <3>5. start \in Nat /\ start >= 4 /\ start <= TS_SIZE
            BY <3>1, <3>4
        <3> HIDE DEF start
        <3>6. \A k \in 1..TS_SIZE : k > start => pckt.data[k] = given.bytes[k]
            BY <3>1, <3>2, <3>5
        <3>7. SubSeq(pckt.data, start + 1, TS_SIZE) = SubSeq(given.bytes, start + 1, TS_SIZE)
            BY <2>1, <3>1, <3>2, <3>5, <3>6, SamePayload
        <3> QED BY <2>1, <2>4, <3>7 DEF getPayload, start
    <2> QED BY <2>4, <2>5
<1>2. FieldsInv /\ [Next]_vars => FieldsInv'
    BY FieldsStep
<1> QED BY FieldsInit, <1>1, <1>2, PTL DEF Spec
-----------------------------------------------------------------------------
(***************************************************************************)
(* The PESPacket: what parse() makes of a header, and serialize() of it.   *)
(***************************************************************************)
\* A uint16_t.
IsWord(n) == n \in Nat /\ n < 65536

Word(s, k, junk) == Short(s, k, 65536, junk)

PESShape(p) ==
    p = [packet_start_code_prefix |-> p.packet_start_code_prefix, stream_id |-> p.stream_id,
         PES_packet_length |-> p.PES_packet_length, flags1 |-> p.flags1, flags2 |-> p.flags2,
         PES_header_data_length |-> p.PES_header_data_length, PTS |-> p.PTS, DTS |-> p.DTS]

\* Numbers where the class has bytes or a uint16_t, and arrays of their sizes.
PESType(p) ==
    /\ PESShape(p)
    /\ p.packet_start_code_prefix \in Seq(Nat) /\ Len(p.packet_start_code_prefix) = 3
    /\ p.stream_id \in Nat
    /\ IsWord(p.PES_packet_length)
    /\ p.flags1 \in Nat /\ p.flags2 \in Nat /\ p.PES_header_data_length \in Nat
    /\ p.PTS \in Seq(Nat) /\ Len(p.PTS) = 5
    /\ p.DTS \in Seq(Nat) /\ Len(p.DTS) = 5

\* What parse() leaves of a header that has its start code, and flags.
ReadHeader(p, s, junk, q) ==
    /\ q.packet_start_code_prefix = <<0, 0, 1>>
    /\ q.stream_id = At(s, 3, junk)
    /\ q.PES_packet_length = Word(s, 4, junk)
    /\ q.flags1 = At(s, 6, junk)
    /\ q.flags2 = At(s, 7, junk)
    /\ q.PES_header_data_length = At(s, 8, junk)
    /\ q.PTS = IF TimeFlags(q) \in {Both, OnlyPTS} THEN Take(s, 9, 5, junk) ELSE p.PTS
    /\ q.DTS = IF TimeFlags(q) = Both THEN Take(s, 14, 5, junk) ELSE p.DTS

\* Fields of a header that are set together.
SetPrefix(p, x) == [p EXCEPT !.packet_start_code_prefix = x]
SetName(p, x, y) == [p EXCEPT !.stream_id = x, !.PES_packet_length = y]
SetFlags(p, x, y, z) ==
    [p EXCEPT !.flags1 = x, !.flags2 = y, !.PES_header_data_length = z]

LEMMA PrefixSet ==
    ASSUME NEW p, PESShape(p), NEW x
    PROVE  LET q == SetPrefix(p, x)
           IN  /\ PESShape(q)
               /\ q.packet_start_code_prefix = x /\ q.stream_id = p.stream_id
               /\ q.PES_packet_length = p.PES_packet_length /\ q.flags1 = p.flags1
               /\ q.flags2 = p.flags2 /\ q.PES_header_data_length = p.PES_header_data_length
               /\ q.PTS = p.PTS /\ q.DTS = p.DTS
<1>1. p = [packet_start_code_prefix |-> p.packet_start_code_prefix, stream_id |-> p.stream_id,
           PES_packet_length |-> p.PES_packet_length, flags1 |-> p.flags1,
           flags2 |-> p.flags2, PES_header_data_length |-> p.PES_header_data_length,
           PTS |-> p.PTS, DTS |-> p.DTS]
    BY DEF PESShape
<1> DEFINE q1 == [p EXCEPT !.packet_start_code_prefix = x]
<1>2. q1 = [packet_start_code_prefix |-> x, stream_id |-> p.stream_id,
            PES_packet_length |-> p.PES_packet_length, flags1 |-> p.flags1,
            flags2 |-> p.flags2, PES_header_data_length |-> p.PES_header_data_length,
            PTS |-> p.PTS, DTS |-> p.DTS]
    BY <1>1
<1> HIDE DEF q1
<1>3. SetPrefix(p, x) = q1
    BY DEF SetPrefix, q1
<1>4. /\ PESShape(q1)
       /\ q1.packet_start_code_prefix = x /\ q1.stream_id = p.stream_id
       /\ q1.PES_packet_length = p.PES_packet_length /\ q1.flags1 = p.flags1
       /\ q1.flags2 = p.flags2 /\ q1.PES_header_data_length = p.PES_header_data_length
       /\ q1.PTS = p.PTS /\ q1.DTS = p.DTS
    BY <1>2 DEF PESShape
<1> QED BY <1>3, <1>4

LEMMA NameSet ==
    ASSUME NEW p, PESShape(p), NEW x, NEW y
    PROVE  LET q == SetName(p, x, y)
           IN  /\ PESShape(q)
               /\ q.packet_start_code_prefix = p.packet_start_code_prefix /\ q.stream_id = x
               /\ q.PES_packet_length = y /\ q.flags1 = p.flags1
               /\ q.flags2 = p.flags2 /\ q.PES_header_data_length = p.PES_header_data_length
               /\ q.PTS = p.PTS /\ q.DTS = p.DTS
<1>1. p = [packet_start_code_prefix |-> p.packet_start_code_prefix, stream_id |-> p.stream_id,
           PES_packet_length |-> p.PES_packet_length, flags1 |-> p.flags1,
           flags2 |-> p.flags2, PES_header_data_length |-> p.PES_header_data_length,
           PTS |-> p.PTS, DTS |-> p.DTS]
    BY DEF PESShape
<1> DEFINE q1 == [p EXCEPT !.stream_id = x]
<1>2. q1 = [packet_start_code_prefix |-> p.packet_start_code_prefix, stream_id |-> x,
            PES_packet_length |-> p.PES_packet_length, flags1 |-> p.flags1,
            flags2 |-> p.flags2, PES_header_data_length |-> p.PES_header_data_length,
            PTS |-> p.PTS, DTS |-> p.DTS]
    BY <1>1
<1> HIDE DEF q1
<1> DEFINE q2 == [q1 EXCEPT !.PES_packet_length = y]
<1>3. q2 = [packet_start_code_prefix |-> p.packet_start_code_prefix, stream_id |-> x,
            PES_packet_length |-> y, flags1 |-> p.flags1,
            flags2 |-> p.flags2, PES_header_data_length |-> p.PES_header_data_length,
            PTS |-> p.PTS, DTS |-> p.DTS]
    BY <1>2
<1> HIDE DEF q2
<1>4. SetName(p, x, y) = q2
    BY DEF SetName, q1, q2
<1>5. /\ PESShape(q2)
       /\ q2.packet_start_code_prefix = p.packet_start_code_prefix /\ q2.stream_id = x
       /\ q2.PES_packet_length = y /\ q2.flags1 = p.flags1
       /\ q2.flags2 = p.flags2 /\ q2.PES_header_data_length = p.PES_header_data_length
       /\ q2.PTS = p.PTS /\ q2.DTS = p.DTS
    BY <1>3 DEF PESShape
<1> QED BY <1>4, <1>5

LEMMA FlagsSet ==
    ASSUME NEW p, PESShape(p), NEW x, NEW y, NEW z
    PROVE  LET q == SetFlags(p, x, y, z)
           IN  /\ PESShape(q)
               /\ q.packet_start_code_prefix = p.packet_start_code_prefix /\ q.stream_id = p.stream_id
               /\ q.PES_packet_length = p.PES_packet_length /\ q.flags1 = x
               /\ q.flags2 = y /\ q.PES_header_data_length = z
               /\ q.PTS = p.PTS /\ q.DTS = p.DTS
<1>1. p = [packet_start_code_prefix |-> p.packet_start_code_prefix, stream_id |-> p.stream_id,
           PES_packet_length |-> p.PES_packet_length, flags1 |-> p.flags1,
           flags2 |-> p.flags2, PES_header_data_length |-> p.PES_header_data_length,
           PTS |-> p.PTS, DTS |-> p.DTS]
    BY DEF PESShape
<1> DEFINE q1 == [p EXCEPT !.flags1 = x]
<1>2. q1 = [packet_start_code_prefix |-> p.packet_start_code_prefix, stream_id |-> p.stream_id,
            PES_packet_length |-> p.PES_packet_length, flags1 |-> x,
            flags2 |-> p.flags2, PES_header_data_length |-> p.PES_header_data_length,
            PTS |-> p.PTS, DTS |-> p.DTS]
    BY <1>1
<1> HIDE DEF q1
<1> DEFINE q2 == [q1 EXCEPT !.flags2 = y]
<1>3. q2 = [packet_start_code_prefix |-> p.packet_start_code_prefix, stream_id |-> p.stream_id,
            PES_packet_length |-> p.PES_packet_length, flags1 |-> x,
            flags2 |-> y, PES_header_data_length |-> p.PES_header_data_length,
            PTS |-> p.PTS, DTS |-> p.DTS]
    BY <1>2
<1> HIDE DEF q2
<1> DEFINE q3 == [q2 EXCEPT !.PES_header_data_length = z]
<1>4. q3 = [packet_start_code_prefix |-> p.packet_start_code_prefix, stream_id |-> p.stream_id,
            PES_packet_length |-> p.PES_packet_length, flags1 |-> x,
            flags2 |-> y, PES_header_data_length |-> z,
            PTS |-> p.PTS, DTS |-> p.DTS]
    BY <1>3
<1> HIDE DEF q3
<1>5. SetFlags(p, x, y, z) = q3
    BY DEF SetFlags, q1, q2, q3
<1>6. /\ PESShape(q3)
       /\ q3.packet_start_code_prefix = p.packet_start_code_prefix /\ q3.stream_id = p.stream_id
       /\ q3.PES_packet_length = p.PES_packet_length /\ q3.flags1 = x
       /\ q3.flags2 = y /\ q3.PES_header_data_length = z
       /\ q3.PTS = p.PTS /\ q3.DTS = p.DTS
    BY <1>4 DEF PESShape
<1> QED BY <1>5, <1>6

LEMMA PTSSet ==
    ASSUME NEW p, PESShape(p), NEW ts
    PROVE  LET q == setPTS(p, ts)
           IN  /\ PESShape(q)
               /\ q.packet_start_code_prefix = p.packet_start_code_prefix /\ q.stream_id = p.stream_id
               /\ q.PES_packet_length = p.PES_packet_length /\ q.flags1 = p.flags1
               /\ q.flags2 = 128 /\ q.PES_header_data_length = 5
               /\ q.PTS = encodeTimestamp(ts) /\ q.DTS = p.DTS
<1>1. p = [packet_start_code_prefix |-> p.packet_start_code_prefix, stream_id |-> p.stream_id,
           PES_packet_length |-> p.PES_packet_length, flags1 |-> p.flags1,
           flags2 |-> p.flags2, PES_header_data_length |-> p.PES_header_data_length,
           PTS |-> p.PTS, DTS |-> p.DTS]
    BY DEF PESShape
<1> DEFINE q1 == [p EXCEPT !.PES_header_data_length = 5]
<1>2. q1 = [packet_start_code_prefix |-> p.packet_start_code_prefix, stream_id |-> p.stream_id,
            PES_packet_length |-> p.PES_packet_length, flags1 |-> p.flags1,
            flags2 |-> p.flags2, PES_header_data_length |-> 5,
            PTS |-> p.PTS, DTS |-> p.DTS]
    BY <1>1
<1> HIDE DEF q1
<1> DEFINE q2 == [q1 EXCEPT !.flags2 = 128]
<1>3. q2 = [packet_start_code_prefix |-> p.packet_start_code_prefix, stream_id |-> p.stream_id,
            PES_packet_length |-> p.PES_packet_length, flags1 |-> p.flags1,
            flags2 |-> 128, PES_header_data_length |-> 5,
            PTS |-> p.PTS, DTS |-> p.DTS]
    BY <1>2
<1> HIDE DEF q2
<1> DEFINE q3 == [q2 EXCEPT !.PTS = encodeTimestamp(ts)]
<1>4. q3 = [packet_start_code_prefix |-> p.packet_start_code_prefix, stream_id |-> p.stream_id,
            PES_packet_length |-> p.PES_packet_length, flags1 |-> p.flags1,
            flags2 |-> 128, PES_header_data_length |-> 5,
            PTS |-> encodeTimestamp(ts), DTS |-> p.DTS]
    BY <1>3
<1> HIDE DEF q3
<1>5. setPTS(p, ts) = q3
    BY DEF setPTS, q1, q2, q3
<1>6. /\ PESShape(q3)
       /\ q3.packet_start_code_prefix = p.packet_start_code_prefix /\ q3.stream_id = p.stream_id
       /\ q3.PES_packet_length = p.PES_packet_length /\ q3.flags1 = p.flags1
       /\ q3.flags2 = 128 /\ q3.PES_header_data_length = 5
       /\ q3.PTS = encodeTimestamp(ts) /\ q3.DTS = p.DTS
    BY <1>4 DEF PESShape
<1> QED BY <1>5, <1>6

LEMMA DTSSet ==
    ASSUME NEW p, PESShape(p), NEW ts
    PROVE  LET q == setDTS(p, ts)
           IN  /\ PESShape(q)
               /\ q.packet_start_code_prefix = p.packet_start_code_prefix /\ q.stream_id = p.stream_id
               /\ q.PES_packet_length = p.PES_packet_length /\ q.flags1 = p.flags1
               /\ q.flags2 = 192 /\ q.PES_header_data_length = 10
               /\ q.PTS = p.PTS /\ q.DTS = encodeTimestamp(ts)
<1>1. p = [packet_start_code_prefix |-> p.packet_start_code_prefix, stream_id |-> p.stream_id,
           PES_packet_length |-> p.PES_packet_length, flags1 |-> p.flags1,
           flags2 |-> p.flags2, PES_header_data_length |-> p.PES_header_data_length,
           PTS |-> p.PTS, DTS |-> p.DTS]
    BY DEF PESShape
<1> DEFINE q1 == [p EXCEPT !.PES_header_data_length = 10]
<1>2. q1 = [packet_start_code_prefix |-> p.packet_start_code_prefix, stream_id |-> p.stream_id,
            PES_packet_length |-> p.PES_packet_length, flags1 |-> p.flags1,
            flags2 |-> p.flags2, PES_header_data_length |-> 10,
            PTS |-> p.PTS, DTS |-> p.DTS]
    BY <1>1
<1> HIDE DEF q1
<1> DEFINE q2 == [q1 EXCEPT !.flags2 = 192]
<1>3. q2 = [packet_start_code_prefix |-> p.packet_start_code_prefix, stream_id |-> p.stream_id,
            PES_packet_length |-> p.PES_packet_length, flags1 |-> p.flags1,
            flags2 |-> 192, PES_header_data_length |-> 10,
            PTS |-> p.PTS, DTS |-> p.DTS]
    BY <1>2
<1> HIDE DEF q2
<1> DEFINE q3 == [q2 EXCEPT !.DTS = encodeTimestamp(ts)]
<1>4. q3 = [packet_start_code_prefix |-> p.packet_start_code_prefix, stream_id |-> p.stream_id,
            PES_packet_length |-> p.PES_packet_length, flags1 |-> p.flags1,
            flags2 |-> 192, PES_header_data_length |-> 10,
            PTS |-> p.PTS, DTS |-> encodeTimestamp(ts)]
    BY <1>3
<1> HIDE DEF q3
<1>5. setDTS(p, ts) = q3
    BY DEF setDTS, q1, q2, q3
<1>6. /\ PESShape(q3)
       /\ q3.packet_start_code_prefix = p.packet_start_code_prefix /\ q3.stream_id = p.stream_id
       /\ q3.PES_packet_length = p.PES_packet_length /\ q3.flags1 = p.flags1
       /\ q3.flags2 = 192 /\ q3.PES_header_data_length = 10
       /\ q3.PTS = p.PTS /\ q3.DTS = encodeTimestamp(ts)
    BY <1>4 DEF PESShape
<1> QED BY <1>5, <1>6

LEMMA ParsePTSFacts ==
    ASSUME NEW p, PESShape(p), NEW s, NEW junk
    PROVE  LET q == parsePTS(p, s, 9, junk)
           IN  /\ PESShape(q)
               /\ q.packet_start_code_prefix = p.packet_start_code_prefix
               /\ q.stream_id = p.stream_id
               /\ q.PES_packet_length = p.PES_packet_length
               /\ q.flags1 = p.flags1 /\ q.flags2 = p.flags2
               /\ q.PES_header_data_length = p.PES_header_data_length
               /\ q.PTS = IF TimeFlags(p) \in {Both, OnlyPTS} THEN Take(s, 9, 5, junk) ELSE p.PTS
               /\ q.DTS = IF TimeFlags(p) = Both THEN Take(s, 14, 5, junk) ELSE p.DTS
<1>1. Both # OnlyPTS /\ 9 + 5 = 14
    BY DEF Both, OnlyPTS
<1>2. CASE TimeFlags(p) = Both
    <2>1. parsePTS(p, s, 9, junk) = [p EXCEPT !.PTS = Take(s, 9, 5, junk), !.DTS = Take(s, 14, 5, junk)]
        BY <1>1, <1>2 DEF parsePTS
    <2> QED BY <1>1, <1>2, <2>1 DEF PESShape
<1>3. CASE TimeFlags(p) = OnlyPTS
    <2>1. parsePTS(p, s, 9, junk) = [p EXCEPT !.PTS = Take(s, 9, 5, junk)]
        BY <1>1, <1>3 DEF parsePTS
    <2> QED BY <1>1, <1>3, <2>1 DEF PESShape
<1>4. CASE TimeFlags(p) \notin {Both, OnlyPTS}
    <2>1. parsePTS(p, s, 9, junk) = p
        BY <1>4 DEF parsePTS
    <2> QED BY <1>4, <2>1 DEF PESShape
<1> QED BY <1>2, <1>3, <1>4

\* The three ways in which parse() ends if the PESPacket is new, or was reset.
LEMMA ParseFacts ==
    ASSUME NEW p, PESShape(p), p.stream_id = 0, NEW s, NEW junk
    PROVE  LET r == PESparse(p, s, junk)
               prefix == Take(s, 0, 3, junk)
               id == At(s, 3, junk)
           IN  /\ PESShape(r.pes)
               /\ prefix # <<0, 0, 1>> =>
                    /\ r.read = 0
                    /\ r.pes = SetPrefix(p, prefix)
               /\ prefix = <<0, 0, 1>> /\ id \in Bare =>
                    /\ r.read = 6
                    /\ r.pes = SetName(SetPrefix(p, prefix), id, Word(s, 4, junk))
               /\ prefix = <<0, 0, 1>> /\ id \notin Bare =>
                    /\ r.read = 9 + At(s, 8, junk)
                    /\ ReadHeader(p, s, junk, r.pes)
<1> DEFINE r == PESparse(p, s, junk)
           prefix == Take(s, 0, 3, junk)
           id == At(s, 3, junk)
           len == Word(s, 4, junk)
           prefixed == SetPrefix(p, prefix)
           named1 == SetName(prefixed, id, len)
           flagged == SetFlags(named1, At(s, 6, junk), At(s, 7, junk), At(s, 8, junk))
<1>1. r = CASE p.stream_id # 0 -> [read |-> 0, pes |-> p]
            [] p.stream_id = 0 /\ ~hasPacketStartCodePrefix(prefixed) ->
                 [read |-> 0, pes |-> prefixed]
            [] p.stream_id = 0 /\ hasPacketStartCodePrefix(prefixed) /\ named1.stream_id \in Bare ->
                 [read |-> 6, pes |-> named1]
            [] OTHER -> [read |-> 9 + flagged.PES_header_data_length,
                         pes |-> parsePTS(flagged, s, 9, junk)]
    BY DEF PESparse, SetPrefix, SetName, SetFlags, Word
<1> HIDE DEF r, prefix, id, len
<1>2. PESShape(prefixed) /\ (hasPacketStartCodePrefix(prefixed) <=> prefix = <<0, 0, 1>>)
    <2>1. PESShape(prefixed) /\ prefixed.packet_start_code_prefix = prefix
        BY PrefixSet
    <2> HIDE DEF prefixed
    <2> QED BY <2>1 DEF hasPacketStartCodePrefix
<1>3. PESShape(named1) /\ named1.stream_id = id
    BY <1>2, NameSet
<1>4. /\ PESShape(flagged)
      /\ flagged.packet_start_code_prefix = prefix /\ flagged.stream_id = id
      /\ flagged.PES_packet_length = len
      /\ flagged.flags1 = At(s, 6, junk) /\ flagged.flags2 = At(s, 7, junk)
      /\ flagged.PES_header_data_length = At(s, 8, junk)
      /\ flagged.PTS = p.PTS /\ flagged.DTS = p.DTS
    <2>1. prefixed.packet_start_code_prefix = prefix /\ prefixed.PTS = p.PTS /\ prefixed.DTS = p.DTS
        BY PrefixSet
    <2>2. /\ named1.packet_start_code_prefix = prefix /\ named1.PES_packet_length = len
          /\ named1.PTS = p.PTS /\ named1.DTS = p.DTS
        BY <1>2, <2>1, NameSet
    <2> HIDE DEF prefixed, named1
    <2> QED BY <1>3, <2>2, FlagsSet
<1> HIDE DEF prefixed, named1, flagged
<1>5. CASE prefix # <<0, 0, 1>>
    <2>1. r = [read |-> 0, pes |-> prefixed]
        BY <1>1, <1>2, <1>5
    <2> QED BY <1>2, <1>5, <2>1 DEF prefixed, r, prefix, id, len
<1>6. CASE prefix = <<0, 0, 1>> /\ id \in Bare
    <2>1. r = [read |-> 6, pes |-> named1]
        BY <1>1, <1>2, <1>3, <1>6
    <2> QED BY <1>3, <1>6, <2>1 DEF prefixed, named1, r, prefix, id, len
<1>7. CASE prefix = <<0, 0, 1>> /\ id \notin Bare
    <2> DEFINE q == parsePTS(flagged, s, 9, junk)
    <2>1. r = [read |-> 9 + flagged.PES_header_data_length, pes |-> q]
        BY <1>1, <1>2, <1>3, <1>7
    <2>2. /\ PESShape(q)
          /\ q.packet_start_code_prefix = prefix
          /\ q.stream_id = id
          /\ q.PES_packet_length = len
          /\ q.flags1 = flagged.flags1 /\ q.flags2 = flagged.flags2
          /\ q.PES_header_data_length = At(s, 8, junk)
          /\ q.PTS = IF TimeFlags(flagged) \in {Both, OnlyPTS} THEN Take(s, 9, 5, junk) ELSE p.PTS
          /\ q.DTS = IF TimeFlags(flagged) = Both THEN Take(s, 14, 5, junk) ELSE p.DTS
        BY <1>4, ParsePTSFacts
    <2>3. TimeFlags(q) = TimeFlags(flagged)
        BY <2>2 DEF TimeFlags
    <2> HIDE DEF q
    <2>4. ReadHeader(p, s, junk, q)
        BY <1>4, <1>7, <2>2, <2>3 DEF ReadHeader, id, len
    <2>5. r.read = 9 + At(s, 8, junk) /\ r.pes = q
        BY <1>4, <2>1
    <2> QED BY <1>7, <2>2, <2>4, <2>5 DEF r, prefix, id, len
<1> QED BY <1>5, <1>6, <1>7


\* A new PESPacket.
LEMMA NewFacts == PESType(NewPES) /\ NewPES.stream_id = 0
<1>1. NewPES.stream_id = 0
    BY DEF NewPES
<1>2. PESShape(NewPES)
    BY DEF NewPES, PESShape
<1>3. <<0, 0, 0>> \in Seq(Nat) /\ Len(<<0, 0, 0>>) = 3
    OBVIOUS
<1>4. <<0, 0, 0, 0, 0>> \in Seq(Nat) /\ Len(<<0, 0, 0, 0, 0>>) = 5
    OBVIOUS
<1> DEFINE a == <<0, 0, 0>>
           b == <<0, 0, 0, 0, 0>>
<1>5. /\ NewPES.packet_start_code_prefix = a /\ NewPES.PES_packet_length = 0
      /\ NewPES.flags1 = 0 /\ NewPES.flags2 = 0 /\ NewPES.PES_header_data_length = 0
      /\ NewPES.PTS = b /\ NewPES.DTS = b
    BY DEF NewPES
<1>6. a \in Seq(Nat) /\ Len(a) = 3 /\ b \in Seq(Nat) /\ Len(b) = 5
    BY <1>3, <1>4
<1> HIDE DEF a, b
<1>7. IsWord(0)
    BY DEF IsWord
<1> QED BY <1>1, <1>2, <1>5, <1>6, <1>7 DEF PESType

\* Reads of numbers are of numbers.
LEMMA AtType ==
    ASSUME NEW s \in Seq(Nat), NEW junk \in Nat, NEW k \in Nat
    PROVE  At(s, k, junk) \in Nat
<1>1. CASE k < Len(s)
    <2>1. k + 1 \in 1..Len(s)
        BY <1>1
    <2> QED BY <1>1, <2>1, Element DEF At
<1>2. CASE ~(k < Len(s))
    BY <1>2 DEF At
<1> QED BY <1>1, <1>2

LEMMA WordType ==
    ASSUME NEW s \in Seq(Nat), NEW junk \in Nat, NEW k \in Nat
    PROVE  IsWord(Word(s, k, junk))
<1>1. k + 1 \in Nat
    OBVIOUS
<1>2. At(s, k, junk) \in Nat /\ At(s, k + 1, junk) \in Nat
    BY <1>1, AtType
<1>3. \A a \in Nat, b \in Nat : (256 * a + b) % 65536 \in Nat /\ (256 * a + b) % 65536 < 65536
    OBVIOUS
<1> QED BY <1>2, <1>3 DEF Short, Word, IsWord

LEMMA TakeType ==
    ASSUME NEW s \in Seq(Nat), NEW junk \in Nat, NEW k \in Nat, NEW n \in Nat
    PROVE  /\ Take(s, k, n, junk) \in Seq(Nat)
           /\ Len(Take(s, k, n, junk)) = n
           /\ \A j \in 1..n : Take(s, k, n, junk)[j] = At(s, k + j - 1, junk)
<1> DEFINE f == [j \in 1..n |-> At(s, k + j - 1, junk)]
<1>1. f \in [1..n -> Nat]
    <2>1. ASSUME NEW j \in 1..n PROVE At(s, k + j - 1, junk) \in Nat
        <3>1. k + j - 1 \in Nat
            OBVIOUS
        <3> QED BY <3>1, AtType
    <2> QED BY <2>1
<1>2. Take(s, k, n, junk) = f \o <<>>
    BY DEF Take
<1>3. \A j \in 1..n : f[j] = At(s, k + j - 1, junk)
    OBVIOUS
<1> HIDE DEF f
<1>4. f \in Seq(Nat) /\ Len(f) = n
    BY <1>1
<1>5. f \o <<>> = f
    BY <1>4
<1> QED BY <1>2, <1>3, <1>4, <1>5

LEMMA HeaderReads ==
    ASSUME NEW s \in Seq(Nat), NEW junk \in Nat
    PROVE  /\ Take(s, 0, 3, junk) \in Seq(Nat) /\ Len(Take(s, 0, 3, junk)) = 3
           /\ At(s, 3, junk) \in Nat
           /\ IsWord(Word(s, 4, junk))
           /\ At(s, 6, junk) \in Nat /\ At(s, 7, junk) \in Nat /\ At(s, 8, junk) \in Nat
           /\ Take(s, 9, 5, junk) \in Seq(Nat) /\ Len(Take(s, 9, 5, junk)) = 5
           /\ Take(s, 14, 5, junk) \in Seq(Nat) /\ Len(Take(s, 14, 5, junk)) = 5
<1>1. ASSUME NEW k \in Nat PROVE At(s, k, junk) \in Nat
    BY AtType
<1>2. ASSUME NEW k \in Nat, NEW n \in Nat
      PROVE  Take(s, k, n, junk) \in Seq(Nat) /\ Len(Take(s, k, n, junk)) = n
    BY TakeType
<1>8. ASSUME NEW k \in Nat
      PROVE  IsWord(Word(s, k, junk))
    BY WordType
<1>3. IsWord(Word(s, 4, junk))
    BY <1>8
<1>4. At(s, 3, junk) \in Nat /\ At(s, 6, junk) \in Nat /\ At(s, 7, junk) \in Nat /\ At(s, 8, junk) \in Nat
    BY <1>1
<1>5. Take(s, 0, 3, junk) \in Seq(Nat) /\ Len(Take(s, 0, 3, junk)) = 3
    BY <1>2
<1>6. Take(s, 9, 5, junk) \in Seq(Nat) /\ Len(Take(s, 9, 5, junk)) = 5
    BY <1>2
<1>7. Take(s, 14, 5, junk) \in Seq(Nat) /\ Len(Take(s, 14, 5, junk)) = 5
    BY <1>2
<1> QED BY <1>3, <1>4, <1>5, <1>6, <1>7

\* parse() keeps the types, and reads at least six bytes if it finds a start code.
LEMMA ParseType ==
    ASSUME NEW p, PESType(p), NEW s \in Seq(Nat), NEW junk \in Nat
    PROVE  PESType(PESparse(p, s, junk).pes)
<1> DEFINE r == PESparse(p, s, junk)
           prefix == Take(s, 0, 3, junk)
           id == At(s, 3, junk)
           len == Word(s, 4, junk)
<1>1. CASE p.stream_id # 0
    <2>1. r = [read |-> 0, pes |-> p]
        BY <1>1 DEF PESparse
    <2> QED BY <2>1
<1>2. CASE p.stream_id = 0
    <2>0. PESShape(p)
        BY DEF PESType
    <2>1. /\ prefix \in Seq(Nat) /\ Len(prefix) = 3 /\ id \in Nat /\ IsWord(len)
          /\ At(s, 6, junk) \in Nat /\ At(s, 7, junk) \in Nat /\ At(s, 8, junk) \in Nat
          /\ Take(s, 9, 5, junk) \in Seq(Nat) /\ Len(Take(s, 9, 5, junk)) = 5
          /\ Take(s, 14, 5, junk) \in Seq(Nat) /\ Len(Take(s, 14, 5, junk)) = 5
        <3> HIDE DEF prefix, id, len
        <3>1. /\ Take(s, 0, 3, junk) \in Seq(Nat) /\ Len(Take(s, 0, 3, junk)) = 3
              /\ At(s, 3, junk) \in Nat
              /\ IsWord(Word(s, 4, junk))
            BY HeaderReads
        <3>2. /\ At(s, 6, junk) \in Nat /\ At(s, 7, junk) \in Nat /\ At(s, 8, junk) \in Nat
              /\ Take(s, 9, 5, junk) \in Seq(Nat) /\ Len(Take(s, 9, 5, junk)) = 5
              /\ Take(s, 14, 5, junk) \in Seq(Nat) /\ Len(Take(s, 14, 5, junk)) = 5
            BY HeaderReads
        <3> QED BY <3>1, <3>2 DEF prefix, id, len
    <2> HIDE DEF prefix, id, len
    <2>2. /\ PESShape(r.pes)
          /\ prefix # <<0, 0, 1>> => r.pes = SetPrefix(p, prefix)
          /\ prefix = <<0, 0, 1>> /\ id \in Bare =>
               r.pes = SetName(SetPrefix(p, prefix), id, len)
          /\ prefix = <<0, 0, 1>> /\ id \notin Bare => ReadHeader(p, s, junk, r.pes)
        BY <1>2, <2>0, ParseFacts DEF prefix, id, len
    <2> HIDE DEF r
    <2>3. PESType(SetPrefix(p, prefix))
        <3> DEFINE q == SetPrefix(p, prefix)
        <3>1. /\ PESShape(q)
              /\ q.packet_start_code_prefix = prefix /\ q.stream_id = p.stream_id
              /\ q.PES_packet_length = p.PES_packet_length /\ q.flags1 = p.flags1
              /\ q.flags2 = p.flags2 /\ q.PES_header_data_length = p.PES_header_data_length
              /\ q.PTS = p.PTS /\ q.DTS = p.DTS
            BY <2>0, PrefixSet
        <3> HIDE DEF q
        <3> QED BY <2>1, <3>1 DEF PESType, q
    <2>4. PESType(SetName(SetPrefix(p, prefix), id, len))
        <3> DEFINE m == SetPrefix(p, prefix)
                   q == SetName(m, id, len)
        <3>1. PESType(m)
            BY <2>3
        <3> HIDE DEF m
        <3>2. /\ PESShape(q)
              /\ q.packet_start_code_prefix = m.packet_start_code_prefix /\ q.stream_id = id
              /\ q.PES_packet_length = len /\ q.flags1 = m.flags1
              /\ q.flags2 = m.flags2 /\ q.PES_header_data_length = m.PES_header_data_length
              /\ q.PTS = m.PTS /\ q.DTS = m.DTS
            BY <3>1, NameSet DEF PESType
        <3> HIDE DEF q
        <3>3. PESType(q)
            BY <2>1, <3>1, <3>2 DEF PESType
        <3> QED BY <3>3 DEF q, m
    <2>5. CASE prefix = <<0, 0, 1>> /\ id \notin Bare
        <3>1. <<0, 0, 1>> \in Seq(Nat) /\ Len(<<0, 0, 1>>) = 3
            OBVIOUS
        <3>2. r.pes.packet_start_code_prefix = prefix /\ ReadHeader(p, s, junk, r.pes)
            BY <2>2, <2>5 DEF ReadHeader
        <3>3. r.pes.PTS \in Seq(Nat) /\ Len(r.pes.PTS) = 5
            BY <2>1, <3>2 DEF ReadHeader, PESType
        <3>4. r.pes.DTS \in Seq(Nat) /\ Len(r.pes.DTS) = 5
            BY <2>1, <3>2 DEF ReadHeader, PESType
        <3>5. /\ r.pes.stream_id \in Nat /\ r.pes.PES_packet_length = len
              /\ r.pes.flags1 \in Nat /\ r.pes.flags2 \in Nat
              /\ r.pes.PES_header_data_length \in Nat
            BY <2>1, <3>2 DEF ReadHeader, id, len
        <3> DEFINE q == r.pes
        <3>6. /\ PESShape(q)
              /\ q.packet_start_code_prefix \in Seq(Nat) /\ Len(q.packet_start_code_prefix) = 3
              /\ q.stream_id \in Nat
              /\ IsWord(q.PES_packet_length)
              /\ q.flags1 \in Nat /\ q.flags2 \in Nat /\ q.PES_header_data_length \in Nat
              /\ q.PTS \in Seq(Nat) /\ Len(q.PTS) = 5
              /\ q.DTS \in Seq(Nat) /\ Len(q.DTS) = 5
            BY <2>1, <2>2, <3>2, <3>3, <3>4, <3>5
        <3> HIDE DEF q
        <3>7. PESType(q)
            BY <3>6 DEF PESType
        <3> QED BY <3>7 DEF q, r
    <2> QED BY <2>2, <2>3, <2>4, <2>5 DEF r
<1> QED BY <1>1, <1>2

-----------------------------------------------------------------------------
\* Two sequences, one after the other.
LEMMA Joined ==
    ASSUME NEW a \in Seq(Nat), NEW b \in Seq(Nat)
    PROVE  /\ a \o b \in Seq(Nat) /\ Len(a \o b) = Len(a) + Len(b)
           /\ \A k \in 1..Len(a) : (a \o b)[k] = a[k]
           /\ \A k \in 1..Len(b) : (a \o b)[Len(a) + k] = b[k]
OBVIOUS

\* The time stamps that serialize() writes.
Stamped(p) ==
    CASE TimeFlags(p) = Both -> p.PTS \o p.DTS
      [] TimeFlags(p) = OnlyPTS -> p.PTS
      [] OTHER -> <<>>

LEMMA StampedFacts ==
    ASSUME NEW p, PESType(p)
    PROVE  /\ Stamped(p) \in Seq(Nat)
           /\ Len(Stamped(p)) = IF TimeFlags(p) = Both THEN 10
                                ELSE IF TimeFlags(p) = OnlyPTS THEN 5 ELSE 0
           /\ TimeFlags(p) \in {Both, OnlyPTS} => \A k \in 1..5 : Stamped(p)[k] = p.PTS[k]
           /\ TimeFlags(p) = Both => \A k \in 1..5 : Stamped(p)[5 + k] = p.DTS[k]
<1>1. p.PTS \in Seq(Nat) /\ Len(p.PTS) = 5 /\ p.DTS \in Seq(Nat) /\ Len(p.DTS) = 5
    BY DEF PESType
<1>2. Both # OnlyPTS
    BY DEF Both, OnlyPTS
<1>3. CASE TimeFlags(p) = Both
    <2>1. Stamped(p) = p.PTS \o p.DTS
        BY <1>2, <1>3, Zenon DEF Stamped
    <2>2. /\ p.PTS \o p.DTS \in Seq(Nat) /\ Len(p.PTS \o p.DTS) = Len(p.PTS) + Len(p.DTS)
          /\ \A k \in 1..Len(p.PTS) : (p.PTS \o p.DTS)[k] = p.PTS[k]
          /\ \A k \in 1..Len(p.DTS) : (p.PTS \o p.DTS)[Len(p.PTS) + k] = p.DTS[k]
        BY <1>1, Joined
    <2> DEFINE t == Stamped(p)
    <2>3. t = p.PTS \o p.DTS
        BY <2>1
    <2> HIDE DEF t
    <2>4. t \in Seq(Nat) /\ Len(t) = 10
        <3>1. t \in Seq(Nat) /\ Len(t) = Len(p.PTS) + Len(p.DTS)
            BY <2>2, <2>3
        <3> QED BY <1>1, <3>1
    <2>5. \A k \in 1..5 : t[k] = p.PTS[k]
        BY <1>1, <2>2, <2>3
    <2>6. \A k \in 1..5 : t[5 + k] = p.DTS[k]
        BY <1>1, <2>2, <2>3
    <2> QED BY <1>3, <2>4, <2>5, <2>6 DEF t
<1>4. CASE TimeFlags(p) = OnlyPTS
    BY <1>1, <1>2, <1>4 DEF Stamped
<1>5. CASE TimeFlags(p) \notin {Both, OnlyPTS}
    <2>1. Stamped(p) = <<>>
        BY <1>5 DEF Stamped
    <2> QED BY <1>5, <2>1
<1> QED BY <1>3, <1>4, <1>5

\* The bytes that serialize() writes, one by one.
LEMMA SerializeFacts ==
    ASSUME NEW p, PESType(p)
    PROVE  LET h == PESserialize(p)
           IN  /\ h \in Seq(Nat) /\ Len(h) = 9 + Len(Stamped(p))
               /\ \A k \in 1..3 : h[k] = p.packet_start_code_prefix[k]
               /\ h[4] = p.stream_id
               /\ h[5] = p.PES_packet_length \div 256 /\ h[6] = p.PES_packet_length % 256
               /\ h[7] = p.flags1 /\ h[8] = p.flags2 /\ h[9] = p.PES_header_data_length
               /\ \A k \in 1..Len(Stamped(p)) : h[9 + k] = Stamped(p)[k]
<1> DEFINE A == p.packet_start_code_prefix
           B == <<p.stream_id>>
           C == Bytes2(p.PES_packet_length)
           D == <<p.flags1, p.flags2, p.PES_header_data_length>>
           E == Stamped(p)
<1>1. PESserialize(p) = (((A \o B) \o C) \o D) \o E
    BY DEF PESserialize, Stamped
<1>2. A \in Seq(Nat) /\ Len(A) = 3 /\ E \in Seq(Nat)
    BY StampedFacts DEF PESType
<1>3. B \in Seq(Nat) /\ Len(B) = 1 /\ B[1] = p.stream_id
    BY DEF PESType
<1>4. /\ C \in Seq(Nat) /\ Len(C) = 2
      /\ C[1] = p.PES_packet_length \div 256 /\ C[2] = p.PES_packet_length % 256
    <2> DEFINE n == p.PES_packet_length
    <2>1. n \div 256 \in Nat /\ n % 256 \in Nat
        <3>1. n \in Nat
            BY DEF PESType, IsWord
        <3> HIDE DEF n
        <3> QED BY <3>1
    <2>2. C = <<n \div 256, n % 256>>
        BY DEF Bytes2
    <2> HIDE DEF C, n
    <2>3. C \in Seq(Nat) /\ Len(C) = 2 /\ C[1] = n \div 256 /\ C[2] = n % 256
        BY <2>1, <2>2
    <2> QED BY <2>3 DEF n
<1>5. /\ D \in Seq(Nat) /\ Len(D) = 3
      /\ D[1] = p.flags1 /\ D[2] = p.flags2 /\ D[3] = p.PES_header_data_length
    BY DEF PESType
<1> HIDE DEF A, B, C, D, E
<1> DEFINE AB == A \o B
           ABC == AB \o C
           ABCD == ABC \o D
<1>6. /\ AB \in Seq(Nat) /\ Len(AB) = 4
      /\ \A k \in 1..3 : AB[k] = A[k]
      /\ AB[4] = p.stream_id
    <2>1. /\ AB \in Seq(Nat) /\ Len(AB) = Len(A) + Len(B)
          /\ \A k \in 1..Len(A) : AB[k] = A[k]
          /\ \A k \in 1..Len(B) : AB[Len(A) + k] = B[k]
        BY <1>2, <1>3, Joined
    <2> HIDE DEF AB
    <2>2. AB[3 + 1] = B[1]
        BY <1>2, <1>3, <2>1
    <2> QED BY <1>2, <1>3, <2>1, <2>2
<1> HIDE DEF AB
<1>7. /\ ABC \in Seq(Nat) /\ Len(ABC) = 6
      /\ \A k \in 1..4 : ABC[k] = AB[k]
      /\ ABC[5] = C[1] /\ ABC[6] = C[2]
    <2>1. /\ ABC \in Seq(Nat) /\ Len(ABC) = Len(AB) + Len(C)
          /\ \A k \in 1..Len(AB) : ABC[k] = AB[k]
          /\ \A k \in 1..Len(C) : ABC[Len(AB) + k] = C[k]
        BY <1>4, <1>6, Joined, ZenonT(60)
    <2> HIDE DEF ABC
    <2>2. ABC[4 + 1] = C[1] /\ ABC[4 + 2] = C[2]
        BY <1>4, <1>6, <2>1
    <2> QED BY <1>4, <1>6, <2>1, <2>2
<1> HIDE DEF ABC
<1>8. /\ ABCD \in Seq(Nat) /\ Len(ABCD) = 9
      /\ \A k \in 1..6 : ABCD[k] = ABC[k]
      /\ ABCD[7] = D[1] /\ ABCD[8] = D[2] /\ ABCD[9] = D[3]
    <2>1. /\ ABCD \in Seq(Nat) /\ Len(ABCD) = Len(ABC) + Len(D)
          /\ \A k \in 1..Len(ABC) : ABCD[k] = ABC[k]
          /\ \A k \in 1..Len(D) : ABCD[Len(ABC) + k] = D[k]
        BY <1>5, <1>7, Joined, ZenonT(60)
    <2> HIDE DEF ABCD
    <2>2. ABCD[6 + 1] = D[1] /\ ABCD[6 + 2] = D[2] /\ ABCD[6 + 3] = D[3]
        BY <1>5, <1>7, <2>1
    <2> QED BY <1>5, <1>7, <2>1, <2>2
<1> HIDE DEF ABCD
<1>9. /\ ABCD \o E \in Seq(Nat) /\ Len(ABCD \o E) = 9 + Len(E)
      /\ \A k \in 1..9 : (ABCD \o E)[k] = ABCD[k]
      /\ \A k \in 1..Len(E) : (ABCD \o E)[9 + k] = E[k]
    <2> DEFINE t == ABCD \o E
    <2>1. /\ t \in Seq(Nat) /\ Len(t) = Len(ABCD) + Len(E)
          /\ \A k \in 1..Len(ABCD) : t[k] = ABCD[k]
          /\ \A k \in 1..Len(E) : t[Len(ABCD) + k] = E[k]
        BY <1>2, <1>8, Joined
    <2> HIDE DEF t
    <2>2. t \in Seq(Nat) /\ Len(t) = 9 + Len(E) /\ \A k \in 1..9 : t[k] = ABCD[k]
        BY <1>8, <2>1
    <2>3. \A k \in 1..Len(E) : t[9 + k] = E[k]
        BY <1>8, <2>1
    <2> QED BY <2>2, <2>3 DEF t
<1>10. PESserialize(p) = ABCD \o E
    BY <1>1 DEF ABCD, ABC, AB
<1> DEFINE h == ABCD \o E
<1>11. /\ \A k \in 1..3 : h[k] = A[k]
       /\ h[4] = p.stream_id /\ h[5] = C[1] /\ h[6] = C[2]
       /\ h[7] = D[1] /\ h[8] = D[2] /\ h[9] = D[3]
    <2>1. \A k \in 1..9 : h[k] = ABCD[k]
        BY <1>9
    <2> HIDE DEF h
    <2>2. h[1] = A[1] /\ h[2] = A[2] /\ h[3] = A[3]
        BY <1>6, <1>7, <1>8, <2>1
    <2>3. h[4] = p.stream_id
        BY <1>6, <1>7, <1>8, <2>1
    <2>4. h[5] = C[1] /\ h[6] = C[2]
        BY <1>7, <1>8, <2>1
    <2>5. h[7] = D[1] /\ h[8] = D[2] /\ h[9] = D[3]
        BY <1>8, <2>1
    <2>6. \A k \in 1..3 : k = 1 \/ k = 2 \/ k = 3
        OBVIOUS
    <2> QED BY <2>2, <2>3, <2>4, <2>5, <2>6
<1> HIDE DEF h
<1>12. h = PESserialize(p)
    BY <1>10 DEF h
<1> QED
    <2>1. h \in Seq(Nat) /\ Len(h) = 9 + Len(E) /\ \A k \in 1..Len(E) : h[9 + k] = E[k]
        BY <1>9 DEF h
    <2> QED BY <1>4, <1>5, <1>11, <1>12, <2>1 DEF A, E

\* The bytes of a payload.
LEMMA PayloadFacts ==
    ASSUME NEW p, p.data \in [1..TS_SIZE -> Nat], data_byte(p) \in Nat, data_byte(p) <= PayloadSize
    PROVE  /\ getPayload(p) \in Seq(Nat) /\ Len(getPayload(p)) = data_byte(p)
           /\ \A k \in 1..data_byte(p) : getPayload(p)[k] = p.data[TS_SIZE - data_byte(p) + k]
<1> DEFINE d == p.data
           n == data_byte(p)
<1>1. TS_SIZE \in Nat /\ n \in Nat /\ n <= TS_SIZE
    BY SizeFacts
<1>2. getPayload(p) = SubSeq(d, TS_SIZE - n + 1, TS_SIZE)
    BY DEF getPayload
<1>3. d \in [1..TS_SIZE -> Nat]
    OBVIOUS
<1> HIDE DEF d, n
<1>4. d \in Seq(Nat) /\ Len(d) = TS_SIZE
    BY <1>1, <1>3
<1>5. ASSUME NEW N \in Nat, NEW m \in Nat, m <= N, NEW q \in Seq(Nat), Len(q) = N
      PROVE  /\ SubSeq(q, N - m + 1, N) \in Seq(Nat) /\ Len(SubSeq(q, N - m + 1, N)) = m
             /\ \A k \in 1..m : SubSeq(q, N - m + 1, N)[k] = q[N - m + k]
    <2>1. N - m + 1 \in 1..(N + 1)
        BY <1>5
    <2>2. SubSeq(q, N - m + 1, N) \in Seq(Nat) /\ Len(SubSeq(q, N - m + 1, N)) = m
        BY <1>5, <2>1
    <2>3. ASSUME NEW k \in 1..m PROVE SubSeq(q, N - m + 1, N)[k] = q[N - m + k]
        BY <1>5, <2>1
    <2> QED BY <2>2, <2>3
<1>6. /\ SubSeq(d, TS_SIZE - n + 1, TS_SIZE) \in Seq(Nat)
      /\ Len(SubSeq(d, TS_SIZE - n + 1, TS_SIZE)) = n
      /\ \A k \in 1..n : SubSeq(d, TS_SIZE - n + 1, TS_SIZE)[k] = d[TS_SIZE - n + k]
    BY <1>1, <1>4, <1>5, Zenon
<1> QED BY <1>2, <1>6, Zenon DEF d, n

\* A header over the beginning of a payload.
LEMMA Overlaid ==
    ASSUME NEW h \in Seq(Nat), NEW s \in Seq(Nat)
    PROVE  LET t == SubSeq(h \o SubSeq(s, Len(h) + 1, Len(s)), 1, Len(s))
           IN  /\ t \in Seq(Nat) /\ Len(t) = Len(s)
               /\ \A k \in 1..Len(s) : t[k] = IF k <= Len(h) THEN h[k] ELSE s[k]
<1> DEFINE rest == SubSeq(s, Len(h) + 1, Len(s))
           all == h \o rest
<1>1. Len(h) \in Nat /\ Len(s) \in Nat
    OBVIOUS
<1>2. /\ rest \in Seq(Nat)
      /\ Len(rest) = IF Len(h) + 1 <= Len(s) THEN Len(s) - Len(h) ELSE 0
      /\ \A k \in 1..Len(rest) : rest[k] = s[Len(h) + k]
    <2> DEFINE n == Len(h)
    <2>1. n \in Nat /\ rest = SubSeq(s, n + 1, Len(s))
        BY <1>1
    <2> HIDE DEF n, rest
    <2>2. CASE n + 1 <= Len(s)
        BY <1>1, <2>1, <2>2 DEF n
    <2>3. CASE ~(n + 1 <= Len(s))
        <3>1. rest = <<>>
            BY <1>1, <2>1, <2>3
        <3> QED BY <1>1, <2>1, <2>3, <3>1 DEF n
    <2> QED BY <2>2, <2>3
<1> HIDE DEF rest
<1>3. /\ all \in Seq(Nat) /\ Len(all) = Len(h) + Len(rest)
      /\ \A k \in 1..Len(h) : all[k] = h[k]
      /\ \A k \in 1..Len(rest) : all[Len(h) + k] = rest[k]
    BY <1>2, Joined
<1> HIDE DEF all
<1>4. Len(s) <= Len(all)
    BY <1>1, <1>2, <1>3
<1> DEFINE t == SubSeq(all, 1, Len(s))
<1>5. t \in Seq(Nat) /\ Len(t) = Len(s) /\ \A k \in 1..Len(s) : t[k] = all[k]
    BY <1>1, <1>3, <1>4
<1> HIDE DEF t
<1>6. ASSUME NEW k \in 1..Len(s) PROVE t[k] = IF k <= Len(h) THEN h[k] ELSE s[k]
    <2>1. CASE k <= Len(h)
        BY <1>1, <1>3, <1>5, <2>1
    <2>2. CASE k > Len(h)
        <3>1. k - Len(h) \in 1..Len(rest) /\ Len(h) + (k - Len(h)) = k
            BY <1>1, <1>2, <2>2
        <3>2. all[Len(h) + (k - Len(h))] = rest[k - Len(h)]
            BY <1>3, <3>1
        <3>3. rest[k - Len(h)] = s[Len(h) + (k - Len(h))]
            BY <1>2, <3>1
        <3> QED BY <1>1, <1>5, <2>2, <3>1, <3>2, <3>3
    <2> QED BY <1>1, <2>1, <2>2
<1> QED BY <1>5, <1>6 DEF t, all, rest

\* What setPayload() writes, and where.
LEMMA PutBack ==
    ASSUME Shape, Complete, pckt.data \in [1..TS_SIZE -> Nat],
           data_byte(pckt) \in Nat, data_byte(pckt) <= PayloadSize,
           NEW t \in Seq(Nat), Len(t) = data_byte(pckt), pckt' = setPayload(pckt, t)
    PROVE  /\ pckt'.data \in [1..TS_SIZE -> Nat]
           /\ \A k \in 1..TS_SIZE :
                pckt'.data[k] = IF k > TS_SIZE - data_byte(pckt)
                                THEN t[k - (TS_SIZE - data_byte(pckt))] ELSE pckt.data[k]
<1> DEFINE start == TS_SIZE - data_byte(pckt)
           f == [k \in 1..TS_SIZE |-> IF k > start /\ k - start <= Len(t)
                                      THEN t[k - start] ELSE pckt.data[k]]
<1>1. TS_SIZE \in Nat /\ start \in Nat /\ start + Len(t) = TS_SIZE
    BY SizeFacts
<1>2. pckt = [pos |-> pckt.pos, data |-> pckt.data]
    BY DEF Shape
<1>3. pckt' = [pckt EXCEPT !.data = f \o <<>>]
    BY DEF setPayload
<1> HIDE DEF start
<1>4. ASSUME NEW k \in 1..TS_SIZE
      PROVE  /\ f[k] \in Nat
             /\ f[k] = IF k > start THEN t[k - start] ELSE pckt.data[k]
    <2>1. CASE k > start
        <3>1. k - start \in 1..Len(t)
            BY <1>1, <2>1
        <3>2. f[k] = t[k - start]
            BY <2>1, <3>1
        <3> QED BY <2>1, <3>1, <3>2, Element
    <2>2. CASE ~(k > start)
        BY <2>2
    <2> QED BY <2>1, <2>2
<1>5. f \in [1..TS_SIZE -> Nat]
    <2>1. f = [k \in 1..TS_SIZE |-> f[k]]
        OBVIOUS
    <2> HIDE DEF f
    <2> QED BY <1>4, <2>1
<1> HIDE DEF f
<1>6. f \in Seq(Nat)
    BY <1>1, <1>5
<1>7. f \o <<>> = f
    BY <1>6
<1>8. pckt'.data = f
    BY <1>2, <1>3, <1>7
<1> QED BY <1>4, <1>5, <1>8 DEF start

-----------------------------------------------------------------------------
(***************************************************************************)
(* The inductive invariant: what is in the PESPacket, and what a header    *)
(* that was written back leaves of the payload.                            *)
(***************************************************************************)
Start(g) == TS_SIZE - data_byte(insert(g.bytes))
HeaderOf(g) == Reads(insert(g.bytes)).read

Numbers == pckt.data \in [1..TS_SIZE -> Nat] /\ PESType(pes)

Asked ==
    /\ asked = [PTS |-> asked.PTS, DTS |-> asked.DTS]
    /\ fresh => pes.stream_id = 0
    /\ asked.PTS # None =>
         pes.PTS = encodeTimestamp(asked.PTS) /\ TimeFlags(pes) \in {Both, OnlyPTS}
    /\ asked.DTS # None =>
         pes.DTS = encodeTimestamp(asked.DTS) /\ TimeFlags(pes) = Both

\* Nothing is written into the adaptation field,
InFront ==
    \A k \in 1..TS_SIZE : 5 <= k /\ k <= Start(given) => pckt.data[k] = given.bytes[k]

\* nor behind a header of the same size,
Behind ==
    sized => \A k \in 1..TS_SIZE : k > Start(given) + HeaderOf(given) => pckt.data[k] = given.bytes[k]

\* which a reader finds to be of that size.
Fits ==
    written # {} /\ sized =>
        /\ Start(given) + 9 <= TS_SIZE
        /\ pckt.data[Start(given) + 1] = 0
        /\ pckt.data[Start(given) + 2] = 0
        /\ pckt.data[Start(given) + 3] = 1
        /\ pckt.data[Start(given) + 4] \notin Bare
        /\ HeaderOf(given) = 9 + pckt.data[Start(given) + 9]

\* The header that was written last is there, as far as there is room.
Headers ==
    \A w \in written :
        \A k \in 1..Len(PESserialize(w)) :
            Start(given) + k <= TS_SIZE => pckt.data[Start(given) + k] = PESserialize(w)[k]

WrittenInv ==
    /\ Complete /\ HasPayload(original) => InFront /\ Behind /\ Fits /\ Headers
    /\ \A w \in written : PESType(w)

\* A reader of any packet.
LEMMA Prefixed ==
    ASSUME NEW s \in Seq(Nat), NEW junk \in Nat
    PROVE  Take(s, 0, 3, junk) = <<0, 0, 1>> <=>
             At(s, 0, junk) = 0 /\ At(s, 1, junk) = 0 /\ At(s, 2, junk) = 1
<1> DEFINE t == Take(s, 0, 3, junk)
           u == <<0, 0, 1>>
<1>1. /\ t \in Seq(Nat) /\ Len(t) = 3
      /\ t[1] = At(s, 0, junk) /\ t[2] = At(s, 1, junk) /\ t[3] = At(s, 2, junk)
    <2>1. ASSUME NEW k \in Nat, NEW n \in Nat
          PROVE  /\ Take(s, k, n, junk) \in Seq(Nat) /\ Len(Take(s, k, n, junk)) = n
                 /\ \A j \in 1..n : Take(s, k, n, junk)[j] = At(s, k + j - 1, junk)
        BY TakeType
    <2>2. t \in Seq(Nat) /\ Len(t) = 3 /\ \A j \in 1..3 : t[j] = At(s, 0 + j - 1, junk)
        BY <2>1
    <2>3. 0 + 1 - 1 = 0 /\ 0 + 2 - 1 = 1 /\ 0 + 3 - 1 = 2
        OBVIOUS
    <2> HIDE DEF t
    <2>4. t[1] = At(s, 0 + 1 - 1, junk) /\ t[2] = At(s, 0 + 2 - 1, junk) /\ t[3] = At(s, 0 + 3 - 1, junk)
        BY <2>2
    <2> QED BY <2>2, <2>3, <2>4
<1>2. u \in Seq(Nat) /\ Len(u) = 3 /\ u[1] = 0 /\ u[2] = 0 /\ u[3] = 1
    OBVIOUS
<1> HIDE DEF t, u
<1>3. t = u <=> t[1] = u[1] /\ t[2] = u[2] /\ t[3] = u[3]
    <2>1. ASSUME t[1] = u[1], t[2] = u[2], t[3] = u[3] PROVE t = u
        <3>1. \A k \in 1..3 : k = 1 \/ k = 2 \/ k = 3
            OBVIOUS
        <3>2. \A k \in 1..3 : t[k] = u[k]
            BY <2>1, <3>1
        <3> QED BY <1>1, <1>2, <3>2
    <2> QED BY <2>1
<1> QED BY <1>1, <1>2, <1>3 DEF t, u

LEMMA ReadsFacts ==
    ASSUME NEW p, p.data \in [1..TS_SIZE -> Nat]
    PROVE  LET s == getPayload(p)
               r == Reads(p)
           IN  /\ s \in Seq(Nat) /\ Len(s) = data_byte(p)
               /\ data_byte(p) \in Nat /\ data_byte(p) <= PayloadSize
               /\ r.read \in Nat /\ PESType(r.pes)
               /\ Take(s, 0, 3, Junk) # <<0, 0, 1>> => r.read = 0 /\ r.pes.stream_id = 0
               /\ Take(s, 0, 3, Junk) = <<0, 0, 1>> /\ At(s, 3, Junk) \in Bare =>
                    r.read = 6 /\ r.pes.stream_id \in Bare
               /\ Take(s, 0, 3, Junk) = <<0, 0, 1>> /\ At(s, 3, Junk) \notin Bare =>
                    r.read = 9 + At(s, 8, Junk) /\ ReadHeader(NewPES, s, Junk, r.pes)
<1> DEFINE s == getPayload(p)
           r == Reads(p)
<1>1. data_byte(p) \in Nat /\ data_byte(p) <= PayloadSize
    <2>1. 5 \in 1..TS_SIZE
        BY SizeFacts
    <2>2. p.data[5] \in Nat
        BY <2>1
    <2> QED BY <2>2, StartFacts
<1>2. s \in Seq(Nat) /\ Len(s) = data_byte(p)
    BY <1>1, PayloadFacts
<1>3. Junk \in Nat
    BY DEF Junk
<1>4. r = PESparse(NewPES, s, Junk)
    BY DEF Reads
<1> HIDE DEF s, r
<1>5. PESType(NewPES) /\ PESShape(NewPES) /\ NewPES.stream_id = 0
    BY NewFacts DEF PESType
<1>6. /\ Take(s, 0, 3, Junk) # <<0, 0, 1>> =>
           r.read = 0 /\ r.pes = SetPrefix(NewPES, Take(s, 0, 3, Junk))
      /\ Take(s, 0, 3, Junk) = <<0, 0, 1>> /\ At(s, 3, Junk) \in Bare =>
           /\ r.read = 6
           /\ r.pes = SetName(SetPrefix(NewPES, Take(s, 0, 3, Junk)), At(s, 3, Junk), Word(s, 4, Junk))
      /\ Take(s, 0, 3, Junk) = <<0, 0, 1>> /\ At(s, 3, Junk) \notin Bare =>
           /\ r.read = 9 + At(s, 8, Junk)
           /\ ReadHeader(NewPES, s, Junk, r.pes)
    BY <1>4, <1>5, ParseFacts
<1>7. PESType(r.pes)
    BY <1>2, <1>3, <1>4, <1>5, ParseType
<1>8. /\ PESShape(SetPrefix(NewPES, Take(s, 0, 3, Junk)))
      /\ SetPrefix(NewPES, Take(s, 0, 3, Junk)).stream_id = 0
    BY <1>5, PrefixSet
<1>9. SetName(SetPrefix(NewPES, Take(s, 0, 3, Junk)), At(s, 3, Junk), Word(s, 4, Junk)).stream_id
        = At(s, 3, Junk)
    BY <1>8, NameSet
<1>10. At(s, 8, Junk) \in Nat
    BY <1>2, <1>3, HeaderReads
<1>11. r.read \in Nat
    BY <1>6, <1>10
<1>12. /\ Take(s, 0, 3, Junk) # <<0, 0, 1>> => r.read = 0 /\ r.pes.stream_id = 0
       /\ Take(s, 0, 3, Junk) = <<0, 0, 1>> /\ At(s, 3, Junk) \in Bare =>
            r.read = 6 /\ r.pes.stream_id \in Bare
    BY <1>6, <1>8, <1>9
<1> QED BY <1>1, <1>2, <1>6, <1>7, <1>11, <1>12 DEF s, r

\* As long as nothing was written, the payload is as it came.
LEMMA GivenStart ==
    ASSUME given \in Packets
    PROVE  /\ Start(given) \in Nat /\ Start(given) >= 4 /\ Start(given) <= TS_SIZE
           /\ Start(given) = TS_SIZE - data_byte(original)
           /\ HeaderOf(given) \in Nat
<1>1. original = insert(given.bytes) /\ original.data \in [1..TS_SIZE -> Nat]
    BY GivenFacts DEF original
<1>2. /\ data_byte(original) \in Nat /\ data_byte(original) <= PayloadSize
      /\ Reads(original).read \in Nat
    BY <1>1, ReadsFacts
<1>3. Start(given) = TS_SIZE - data_byte(original)
    BY <1>1 DEF Start
<1>4. HeaderOf(given) \in Nat
    BY <1>1, <1>2 DEF HeaderOf
<1> QED BY <1>2, <1>3, <1>4, SizeFacts

LEMMA Untouched ==
    ASSUME FieldsInv, Complete, written = {}
    PROVE  InFront /\ Behind /\ Fits /\ Headers
<1>1. /\ \A k \in 5..TS_SIZE : pckt.data[k] = given.bytes[k]
      /\ given \in Packets
    BY DEF FieldsInv, Rest
<1>2. Start(given) \in Nat /\ Start(given) >= 4 /\ HeaderOf(given) \in Nat
    BY <1>1, GivenStart
<1>3. InFront
    BY <1>1 DEF InFront
<1>4. Behind
    <2> SUFFICES ASSUME NEW k \in 1..TS_SIZE, k > Start(given) + HeaderOf(given)
                 PROVE  pckt.data[k] = given.bytes[k]
        BY DEF Behind
    <2>1. k \in 5..TS_SIZE
        BY <1>2
    <2> QED BY <1>1, <2>1
<1> QED BY <1>3, <1>4 DEF Fits, Headers

\* A call that writes no header leaves what is behind the header of the packet.
LEMMA QuietStep ==
    ASSUME FieldsInv, Numbers, [Next]_vars, ~WriteBack
    PROVE  /\ pckt'.data \in [1..TS_SIZE -> Nat]
           /\ Complete => /\ Complete'
                          /\ given' = given /\ written' = written /\ sized' = sized
                          /\ \A k \in 5..TS_SIZE : pckt'.data[k] = pckt.data[k]
<1>0. TS_SIZE \in Nat /\ TS_SIZE > 20 /\ Shape /\ given \in Packets /\ pckt.data \in [1..TS_SIZE -> Nat]
    BY SizeFacts DEF FieldsInv, Numbers
<1>1. CASE PushBack
    <2>1. ~Complete /\ pckt.pos < TS_SIZE /\ pckt.pos + 1 \in 1..TS_SIZE
        BY <1>0, <1>1 DEF PushBack, Shape, Complete
    <2>2. pckt'.data = [pckt.data EXCEPT ![pckt.pos + 1] = given.bytes[pckt.pos + 1]]
        BY <1>1, <2>1 DEF PushBack, push_back
    <2>3. given.bytes[pckt.pos + 1] \in Nat
        BY <1>0, <2>1, GivenFacts
    <2> QED BY <1>0, <2>1, <2>2, <2>3
<1>2. CASE PushOneMore
    <2>1. pckt' = pckt
        BY <1>2, <1>0 DEF PushOneMore, Call, Complete, push_back
    <2> QED BY <1>0, <1>2, <2>1 DEF PushOneMore, Call, Complete
<1>3. CASE Parse \/ Reset \/ AddSecond \/ (\E ts \in Stamps : SetPTS(ts) \/ SetDTS(ts)) \/ UNCHANGED vars
    <2>1. pckt' = pckt /\ given' = given /\ written' = written /\ sized' = sized
        BY <1>3 DEF Parse, Reset, AddSecond, SetPTS, SetDTS, Call, vars
    <2> QED BY <1>0, <2>1 DEF Complete
<1>4. ASSUME NEW pid \in PIDs, SetPID(pid)
      PROVE  /\ pckt'.data \in [1..TS_SIZE -> Nat]
             /\ Complete => /\ Complete'
                            /\ given' = given /\ written' = written /\ sized' = sized
                            /\ \A k \in 5..TS_SIZE : pckt'.data[k] = pckt.data[k]
    <2> DEFINE b == 32 * (pckt.data[2] \div 32) + pid \div 256
               q == pid \div 256
    <2>1. Complete /\ given' = given /\ written' = written /\ sized' = sized
        BY <1>4 DEF SetPID, Call
    <2>2. b \in Nat /\ q \in Nat
        <3>1. pid \in Nat
            BY PIDsAssumption
        <3>2. 2 \in 1..TS_SIZE /\ pckt.data[2] \in Nat
            BY <1>0
        <3> QED BY <3>1, <3>2
    <2>3. pckt' = [pckt EXCEPT !.data[2] = b, !.data[3] = q]
        BY <1>4 DEF SetPID, setPID
    <2> HIDE DEF b, q
    <2>4. /\ Complete'
          /\ \A k \in 1..TS_SIZE : k \notin {2, 3} => pckt'.data[k] = pckt.data[k]
          /\ pckt'.data \in [1..TS_SIZE -> Nat]
        BY <1>0, <2>1, <2>2, <2>3, Updates
    <2>5. \A k \in 5..TS_SIZE : k \in 1..TS_SIZE /\ k \notin {2, 3}
        BY <1>0
    <2> QED BY <2>1, <2>4, <2>5
<1>5. CASE IncrementCC
    <2> DEFINE c == (cc(pckt) + 1) % 16
               control == IF adaptationFieldExist(pckt) = 1 THEN 16 ELSE 48
    <2>1. Complete /\ given' = given /\ written' = written /\ sized' = sized
        BY <1>5 DEF IncrementCC, Call
    <2>2. control + c \in Nat
        <3>1. 4 \in 1..TS_SIZE /\ pckt.data[4] \in Nat
            BY <1>0
        <3>2. cc(pckt) \in Nat
            BY <3>1 DEF cc
        <3>3. c \in Nat
            BY <3>2
        <3> HIDE DEF c
        <3> QED BY <3>3
    <2>3. pckt' = [pckt EXCEPT !.data[4] = control + c]
        BY <1>5 DEF IncrementCC, incrementCC
    <2> HIDE DEF control, c
    <2>4. /\ Complete'
          /\ \A k \in 1..TS_SIZE : k # 4 => pckt'.data[k] = pckt.data[k]
          /\ pckt'.data \in [1..TS_SIZE -> Nat]
        BY <1>0, <2>1, <2>2, <2>3, Updates
    <2>5. \A k \in 5..TS_SIZE : k \in 1..TS_SIZE /\ k # 4
        BY <1>0
    <2> QED BY <2>1, <2>4, <2>5
<1> QED BY <1>1, <1>2, <1>3, <1>4, <1>5 DEF Next

\* What is written over a payload, and what is left of it.
LEMMA WriteEffect ==
    ASSUME FieldsInv, Numbers, WriteBack
    PROVE  LET h == PESserialize(pes)
               start == TS_SIZE - data_byte(pckt)
           IN  /\ Complete /\ Complete' /\ start \in Nat /\ start >= 4 /\ start <= TS_SIZE
               /\ h \in Seq(Nat)
               /\ given' = given /\ written' = {pes} /\ sized' = (sized /\ FitsOriginal)
               /\ pckt'.data \in [1..TS_SIZE -> Nat]
               /\ \A k \in 1..TS_SIZE : k <= start => pckt'.data[k] = pckt.data[k]
               /\ \A k \in 1..Len(h) : start + k <= TS_SIZE => pckt'.data[start + k] = h[k]
               /\ \A k \in 1..TS_SIZE : k > start + Len(h) => pckt'.data[k] = pckt.data[k]
<1> DEFINE h == PESserialize(pes)
           s == getPayload(pckt)
           n == data_byte(pckt)
           start == TS_SIZE - n
           t == SubSeq(h \o SubSeq(s, Len(h) + 1, Len(s)), 1, Len(s))
<1>1. /\ pckt.data \in [1..TS_SIZE -> Nat] /\ Shape /\ Complete /\ h \in Seq(Nat)
    BY SerializeFacts DEF FieldsInv, Numbers, WriteBack, Call
<1>2. /\ s \in Seq(Nat) /\ Len(s) = n /\ n \in Nat /\ n <= PayloadSize
    BY <1>1, ReadsFacts
<1>3. \A k \in 1..n : s[k] = pckt.data[start + k]
    BY <1>1, <1>2, PayloadFacts
<1>4. /\ pckt' = setPayload(pckt, t)
      /\ given' = given /\ written' = {pes} /\ sized' = (sized /\ FitsOriginal)
    BY DEF WriteBack, Call
<1>5. TS_SIZE \in Nat /\ start \in Nat /\ start >= 4 /\ start <= TS_SIZE /\ start + n = TS_SIZE
    BY <1>2, SizeFacts
<1> HIDE DEF h, s
<1>6. /\ t \in Seq(Nat) /\ Len(t) = n
      /\ \A k \in 1..n : t[k] = IF k <= Len(h) THEN h[k] ELSE s[k]
    BY <1>1, <1>2, Overlaid
<1> HIDE DEF t
<1>7. /\ pckt'.data \in [1..TS_SIZE -> Nat]
      /\ \A k \in 1..TS_SIZE :
           pckt'.data[k] = IF k > start THEN t[k - start] ELSE pckt.data[k]
    BY <1>1, <1>2, <1>4, <1>6, PutBack
<1> HIDE DEF n
<1>8. Complete'
    <2>1. n \in Nat /\ n <= PayloadSize /\ pckt' = setPayload(pckt, t)
        BY <1>2, <1>4
    <2> QED BY <1>1, <2>1, Overwritten DEF n
<1> HIDE DEF start
<1>9. ASSUME NEW k \in 1..Len(h), start + k <= TS_SIZE
      PROVE  pckt'.data[start + k] = h[k]
    <2>1. start + k \in 1..TS_SIZE /\ start + k > start /\ (start + k) - start = k /\ k \in 1..n
        <3>1. Len(h) \in Nat /\ n \in Nat
            BY <1>1, <1>2
        <3> QED BY <1>5, <1>9, <3>1
    <2> QED BY <1>6, <1>7, <2>1
<1>10. ASSUME NEW k \in 1..TS_SIZE, k > start + Len(h) PROVE pckt'.data[k] = pckt.data[k]
    <2>1. Len(h) \in Nat
        BY <1>1
    <2>2. k > start /\ k - start \in 1..n /\ ~(k - start <= Len(h)) /\ start + (k - start) = k
        <3>1. n \in Nat
            BY <1>2
        <3> QED BY <1>5, <1>10, <2>1, <3>1
    <2>3. pckt'.data[k] = s[k - start]
        BY <1>6, <1>7, <2>2
    <2>4. s[k - start] = pckt.data[start + (k - start)]
        BY <1>3, <2>2 DEF start
    <2> QED BY <2>2, <2>3, <2>4
<1>11. \A k \in 1..TS_SIZE : k <= start => pckt'.data[k] = pckt.data[k]
    BY <1>5, <1>7
<1> QED BY <1>1, <1>4, <1>5, <1>7, <1>8, <1>9, <1>10, <1>11 DEF h, n, start

LEMMA StampNumbers ==
    ASSUME NEW ts
    PROVE  encodeTimestamp(ts) \in Seq(Nat) /\ Len(encodeTimestamp(ts)) = 5
<1>1. encodeTimestamp(ts) \in Seq(0..255) /\ Len(encodeTimestamp(ts)) = 5
    BY StampBytes
<1> DEFINE t == encodeTimestamp(ts)
<1>2. 0..255 \subseteq Nat
    OBVIOUS
<1> HIDE DEF t
<1>3. t \in [1..Len(t) -> Nat] /\ Len(t) = 5
    BY <1>1, <1>2, AsFunction DEF t
<1>4. t \in Seq(Nat)
    <2>1. ASSUME NEW n \in Nat, NEW a \in [1..n -> Nat] PROVE a \in Seq(Nat)
        OBVIOUS
    <2>2. Len(t) \in Nat
        BY <1>3
    <2> QED BY <1>3, <2>1, <2>2, Zenon
<1> QED BY <1>3, <1>4 DEF t

\* What the calls leave in the PESPacket.
LEMMA AskedStep ==
    ASSUME FieldsInv, Numbers, Asked, [Next]_vars
    PROVE  PESType(pes)' /\ Asked'
<1>0. PESType(pes) /\ PESShape(pes) /\ pckt.data \in [1..TS_SIZE -> Nat]
    BY DEF Numbers, PESType
<1>1. CASE UNCHANGED <<pes, asked, fresh>>
    BY <1>0, <1>1 DEF Asked, TimeFlags, PESType, PESShape
<1>2. CASE Parse
    <2>1. pes' = PESparse(pes, getPayload(pckt), Junk).pes /\ fresh' = FALSE /\ asked' = NotAsked
        BY <1>2 DEF Parse
    <2>2. getPayload(pckt) \in Seq(Nat) /\ Junk \in Nat
        BY <1>0, ReadsFacts DEF Junk
    <2>3. PESType(pes')
        BY <1>0, <2>1, <2>2, ParseType
    <2>4. Asked'
        BY <2>1 DEF Asked, NotAsked
    <2> QED BY <2>3, <2>4
<1>3. CASE Reset
    <2>1. pes' = reset(pes) /\ fresh' = TRUE /\ asked' = asked
        BY <1>3 DEF Reset
    <2>2. /\ PESShape(pes') /\ pes'.stream_id = 0
          /\ pes'.packet_start_code_prefix = pes.packet_start_code_prefix
          /\ pes'.PES_packet_length = pes.PES_packet_length /\ pes'.flags1 = pes.flags1
          /\ pes'.flags2 = pes.flags2 /\ pes'.PES_header_data_length = pes.PES_header_data_length
          /\ pes'.PTS = pes.PTS /\ pes'.DTS = pes.DTS
        BY <1>0, <2>1 DEF reset, PESShape
    <2>3. PESType(pes')
        BY <1>0, <2>2 DEF PESType
    <2>4. Asked'
        BY <2>1, <2>2 DEF Asked, TimeFlags
    <2> QED BY <2>3, <2>4
<1>4. ASSUME NEW ts, SetPTS(ts) PROVE PESType(pes)' /\ Asked'
    <2>1. pes' = setPTS(pes, ts) /\ fresh' = fresh /\ asked' = [PTS |-> ts, DTS |-> None]
        BY <1>4 DEF SetPTS
    <2>2. /\ PESShape(pes') /\ pes'.stream_id = pes.stream_id
          /\ pes'.packet_start_code_prefix = pes.packet_start_code_prefix
          /\ pes'.PES_packet_length = pes.PES_packet_length /\ pes'.flags1 = pes.flags1
          /\ pes'.flags2 = 128 /\ pes'.PES_header_data_length = 5
          /\ pes'.PTS = encodeTimestamp(ts) /\ pes'.DTS = pes.DTS
        BY <1>0, <2>1, PTSSet
    <2>3. PESType(pes')
        BY <1>0, <2>2, StampNumbers DEF PESType
    <2>4. TimeFlags(pes') = OnlyPTS
        BY <2>2 DEF TimeFlags, OnlyPTS
    <2>5. /\ asked' = [PTS |-> asked'.PTS, DTS |-> asked'.DTS]
          /\ asked'.PTS = ts /\ asked'.DTS = None
        BY <2>1
    <2> QED BY <2>1, <2>2, <2>3, <2>4, <2>5 DEF Asked
<1>5. ASSUME NEW ts, SetDTS(ts) PROVE PESType(pes)' /\ Asked'
    <2>1. pes' = setDTS(pes, ts) /\ fresh' = fresh /\ asked' = [asked EXCEPT !.DTS = ts]
        BY <1>5 DEF SetDTS
    <2>2. /\ PESShape(pes') /\ pes'.stream_id = pes.stream_id
          /\ pes'.packet_start_code_prefix = pes.packet_start_code_prefix
          /\ pes'.PES_packet_length = pes.PES_packet_length /\ pes'.flags1 = pes.flags1
          /\ pes'.flags2 = 192 /\ pes'.PES_header_data_length = 10
          /\ pes'.PTS = pes.PTS /\ pes'.DTS = encodeTimestamp(ts)
        BY <1>0, <2>1, DTSSet
    <2>3. PESType(pes')
        BY <1>0, <2>2, StampNumbers DEF PESType
    <2>4. TimeFlags(pes') = Both
        BY <2>2 DEF TimeFlags, Both
    <2>5. /\ asked' = [PTS |-> asked'.PTS, DTS |-> asked'.DTS]
          /\ asked'.PTS = asked.PTS /\ asked'.DTS = ts
        BY <2>1 DEF Asked
    <2> QED BY <2>1, <2>2, <2>3, <2>4, <2>5 DEF Asked
<1>6. CASE PushBack \/ PushOneMore \/ WriteBack \/ (\E pid \in PIDs : SetPID(pid)) \/ IncrementCC
             \/ UNCHANGED vars
    BY <1>1, <1>6 DEF PushBack, PushOneMore, WriteBack, SetPID, IncrementCC, vars
<1> QED BY <1>2, <1>3, <1>4, <1>5, <1>6 DEF Next, AddSecond

\* A header can only be as long as the one that was there if a payload has room for it.
LEMMA Roomy ==
    ASSUME given \in Packets, Numbers, FitsOriginal
    PROVE  /\ HeaderOf(given) = Len(PESserialize(pes))
           /\ HeaderOf(given) = 9 + pes.PES_header_data_length
           /\ Start(given) + 9 <= TS_SIZE
<1>1. original = insert(given.bytes) /\ original.data \in [1..TS_SIZE -> Nat]
    BY GivenFacts DEF original
<1> DEFINE s == getPayload(original)
           r == Reads(original)
           h == PESserialize(pes)
<1>2. /\ s \in Seq(Nat) /\ Len(s) = data_byte(original)
      /\ data_byte(original) \in Nat /\ data_byte(original) <= PayloadSize
      /\ Take(s, 0, 3, Junk) # <<0, 0, 1>> => r.read = 0
      /\ Take(s, 0, 3, Junk) = <<0, 0, 1>> /\ At(s, 3, Junk) \in Bare => r.read = 6
      /\ Take(s, 0, 3, Junk) = <<0, 0, 1>> /\ At(s, 3, Junk) \notin Bare => r.read = 9 + At(s, 8, Junk)
    BY <1>1, ReadsFacts
<1>3. PESType(pes)
    BY DEF Numbers
<1>4. Len(h) \in {9, 14, 19}
    <2>1. Len(h) = 9 + Len(Stamped(pes))
        BY <1>3, SerializeFacts
    <2>2. Len(Stamped(pes)) \in {0, 5, 10}
        BY <1>3, StampedFacts
    <2> DEFINE m == Len(Stamped(pes))
    <2> HIDE DEF h, m
    <2>3. Len(h) = 9 + m /\ (m = 0 \/ m = 5 \/ m = 10)
        BY <2>1, <2>2 DEF m
    <2> QED BY <2>3
<1>5. r.read = Len(h) /\ r.read = pes.PES_header_data_length + 9 /\ pes.PES_header_data_length \in Nat
    BY <1>3 DEF FitsOriginal, PESType
<1>6. HeaderOf(given) = r.read
    BY <1>1 DEF HeaderOf
<1> HIDE DEF s, r, h
<1>7. r.read = 9 + At(s, 8, Junk)
    BY <1>2, <1>4, <1>5
<1>8. 8 < Len(s)
    <2> SUFFICES ASSUME ~(8 < Len(s)) PROVE FALSE
        OBVIOUS
    <2>1. At(s, 8, Junk) = 255
        BY DEF At, Junk
    <2> QED BY <1>4, <1>5, <1>7, <2>1
<1>9. Start(given) = TS_SIZE - data_byte(original) /\ TS_SIZE \in Nat
    BY GivenStart, SizeFacts
<1>10. Start(given) + 9 <= TS_SIZE
    BY <1>2, <1>8, <1>9
<1>11. HeaderOf(given) = 9 + pes.PES_header_data_length
    BY <1>5, <1>6
<1> QED BY <1>5, <1>6, <1>10, <1>11 DEF h

\* A header that is written back is found where a reader looks for it.
LEMMA WriteKeeps ==
    ASSUME FieldsInv, Numbers, WrittenInv, WriteBack
    PROVE  WrittenInv'
<1> DEFINE h == PESserialize(pes)
           start == TS_SIZE - data_byte(pckt)
<1>1. /\ Complete /\ Complete' /\ start \in Nat /\ start >= 4 /\ start <= TS_SIZE
      /\ h \in Seq(Nat)
      /\ given' = given /\ written' = {pes} /\ sized' = (sized /\ FitsOriginal)
      /\ \A k \in 1..TS_SIZE : k <= start => pckt'.data[k] = pckt.data[k]
      /\ \A k \in 1..Len(h) : start + k <= TS_SIZE => pckt'.data[start + k] = h[k]
      /\ \A k \in 1..TS_SIZE : k > start + Len(h) => pckt'.data[k] = pckt.data[k]
    BY WriteEffect
<1>2. given \in Packets /\ PESType(pes)
    BY DEF FieldsInv, Numbers
<1>3. \A w \in written' : PESType(w)
    BY <1>1, <1>2
<1>4. ASSUME HasPayload(original)
      PROVE  InFront' /\ Behind' /\ Fits' /\ Headers'
    <2>1. start = Start(given) /\ HeaderOf(given) \in Nat
        BY <1>1, <1>2, <1>4, SameStart, GivenStart
    <2>2. InFront /\ Behind
        BY <1>1, <1>4 DEF WrittenInv
    <2> HIDE DEF start, h
    <2>3. InFront'
        BY <1>1, <2>1, <2>2 DEF InFront
    <2>4. Behind'
        <3> SUFFICES ASSUME sized', NEW k \in 1..TS_SIZE, k > Start(given) + HeaderOf(given)
                     PROVE  pckt'.data[k] = given.bytes[k]
            BY <1>1 DEF Behind
        <3>1. sized /\ FitsOriginal
            BY <1>1
        <3>2. HeaderOf(given) = Len(h)
            BY <1>2, <3>1, Roomy DEF h, Numbers
        <3>3. pckt'.data[k] = pckt.data[k]
            BY <1>1, <2>1, <3>2
        <3> QED BY <2>2, <3>1, <3>3 DEF Behind
    <2>5. Fits'
        <3> SUFFICES ASSUME sized'
                     PROVE  /\ Start(given) + 9 <= TS_SIZE
                            /\ pckt'.data[Start(given) + 1] = 0
                            /\ pckt'.data[Start(given) + 2] = 0
                            /\ pckt'.data[Start(given) + 3] = 1
                            /\ pckt'.data[Start(given) + 4] \notin Bare
                            /\ HeaderOf(given) = 9 + pckt'.data[Start(given) + 9]
            BY <1>1 DEF Fits
        <3>1. FitsOriginal
            BY <1>1
        <3>2. /\ HeaderOf(given) = Len(h)
              /\ HeaderOf(given) = 9 + pes.PES_header_data_length
              /\ Start(given) + 9 <= TS_SIZE
            BY <1>2, <3>1, Roomy DEF h
        <3>3. /\ Len(h) = 9 + Len(Stamped(pes)) /\ Len(Stamped(pes)) \in Nat
              /\ \A k \in 1..3 : h[k] = pes.packet_start_code_prefix[k]
              /\ h[4] = pes.stream_id /\ h[9] = pes.PES_header_data_length
            BY <1>2, SerializeFacts, StampedFacts DEF h
        <3>4. pes.packet_start_code_prefix = <<0, 0, 1>> /\ pes.stream_id \notin Bare
            BY <3>1 DEF FitsOriginal, hasPacketStartCodePrefix
        <3>5. h[1] = 0 /\ h[2] = 0 /\ h[3] = 1
            BY <3>3, <3>4
        <3>6. ASSUME NEW k \in 1..9 PROVE pckt'.data[Start(given) + k] = h[k]
            <4>1. Start(given) + 9 <= TS_SIZE /\ TS_SIZE \in Nat /\ Start(given) \in Nat
                BY <1>1, <2>1, <3>2, SizeFacts
            <4>2. Len(h) \in Nat /\ 9 <= Len(h)
                BY <3>3
            <4>3. k \in 1..Len(h) /\ Start(given) + k <= TS_SIZE
                BY <4>1, <4>2
            <4> QED BY <1>1, <2>1, <4>3
        <3>7. /\ pckt'.data[Start(given) + 1] = h[1] /\ pckt'.data[Start(given) + 2] = h[2]
              /\ pckt'.data[Start(given) + 3] = h[3] /\ pckt'.data[Start(given) + 4] = h[4]
              /\ pckt'.data[Start(given) + 9] = h[9]
            BY <3>6
        <3> QED BY <3>2, <3>3, <3>4, <3>5, <3>7
    <2>6. Headers'
        BY <1>1, <2>1 DEF Headers, h
    <2> QED BY <2>3, <2>4, <2>5, <2>6
<1>5. HasPayload(original)' <=> HasPayload(original)
    BY <1>1 DEF HasPayload, original, insert, adaptationFieldExist
<1> QED BY <1>3, <1>4, <1>5 DEF WrittenInv

\* The invariant of the payload.
AllInv == FieldsInv /\ Numbers /\ Asked /\ WrittenInv

LEMMA AllInit == Init => AllInv
<1> SUFFICES ASSUME Init PROVE AllInv
    OBVIOUS
<1>1. FieldsInv /\ given \in Packets
    BY FieldsInit DEF FieldsInv
<1>2. /\ pes = NewPES /\ fresh = TRUE /\ asked = NotAsked /\ written = {}
    BY DEF Init
<1>3. pckt.data \in [1..TS_SIZE -> Nat]
    <2>1. CASE ~Complete
        BY <1>1, <2>1 DEF FieldsInv, Filling
    <2>2. CASE Complete
        BY <1>1, <1>2, <2>2 DEF FieldsInv, Rest
    <2> QED BY <2>1, <2>2
<1>4. Numbers
    BY <1>2, <1>3, NewFacts DEF Numbers
<1>5. Asked
    BY <1>2, NewFacts DEF Asked, NotAsked
<1>6. WrittenInv
    BY <1>1, <1>2, Untouched DEF WrittenInv
<1> QED BY <1>1, <1>4, <1>5, <1>6 DEF AllInv

LEMMA UntouchedNext ==
    (FieldsInv /\ Complete /\ written = {})' => (InFront /\ Behind /\ Fits /\ Headers)'
BY Untouched, PTL

LEMMA AllStep ==
    ASSUME AllInv, [Next]_vars
    PROVE  AllInv'
<1>0. FieldsInv /\ Numbers /\ Asked /\ WrittenInv
    BY DEF AllInv
<1>1. FieldsInv'
    BY <1>0, FieldsStep
<1>2. PESType(pes)' /\ Asked'
    BY <1>0, AskedStep
<1>3. CASE WriteBack
    <2>1. pckt'.data \in [1..TS_SIZE -> Nat]
        BY <1>0, <1>3, WriteEffect
    <2>2. WrittenInv'
        BY <1>0, <1>3, WriteKeeps
    <2> QED BY <1>1, <1>2, <2>1, <2>2 DEF AllInv, Numbers
<1>4. CASE ~WriteBack
    <2>1. /\ pckt'.data \in [1..TS_SIZE -> Nat]
          /\ Complete => /\ Complete'
                         /\ given' = given /\ written' = written /\ sized' = sized
                         /\ \A k \in 5..TS_SIZE : pckt'.data[k] = pckt.data[k]
        BY <1>0, <1>4, QuietStep
    <2>2. CASE ~Complete
        <3>1. written' = {}
            <4>1. written = {}
                BY <1>0, <2>2 DEF FieldsInv, Filling
            <4>2. PushBack \/ UNCHANGED vars
                BY <2>2 DEF Next, PushOneMore, Parse, Reset, SetPTS, SetDTS, AddSecond, WriteBack,
                            SetPID, IncrementCC, Call
            <4> QED BY <4>1, <4>2 DEF PushBack, vars
        <3>2. WrittenInv'
            BY <1>1, <3>1, UntouchedNext DEF WrittenInv
        <3> QED BY <1>1, <1>2, <2>1, <3>2 DEF AllInv, Numbers
    <2>3. CASE Complete
        <3>1. \A k \in 5..TS_SIZE : pckt'.data[k] = pckt.data[k]
            BY <2>1, <2>3
        <3>2. given' = given /\ written' = written /\ sized' = sized /\ given \in Packets
            BY <1>0, <2>1, <2>3 DEF FieldsInv
        <3>3. /\ Start(given) \in Nat /\ Start(given) >= 4 /\ Start(given) <= TS_SIZE
              /\ HeaderOf(given) \in Nat /\ TS_SIZE \in Nat
            BY <3>2, GivenStart, SizeFacts
        <3>4. ASSUME HasPayload(original), InFront, Behind, Fits, Headers,
                     \A w \in written : PESType(w)
              PROVE  InFront' /\ Behind' /\ Fits' /\ Headers'
            <4>1. InFront'
                BY <3>1, <3>2, <3>4 DEF InFront
            <4>2. Behind'
                <5> SUFFICES ASSUME sized, NEW k \in 1..TS_SIZE, k > Start(given) + HeaderOf(given)
                             PROVE  pckt'.data[k] = given.bytes[k]
                    BY <3>2 DEF Behind
                <5>1. k \in 5..TS_SIZE
                    BY <3>3
                <5> QED BY <3>1, <3>4, <5>1 DEF Behind
            <4>3. ASSUME Start(given) + 9 <= TS_SIZE, NEW k \in 1..9
                  PROVE  pckt'.data[Start(given) + k] = pckt.data[Start(given) + k]
                <5>1. Start(given) + k \in 5..TS_SIZE
                    BY <3>3, <4>3
                <5> QED BY <3>1, <5>1
            <4>4. Start(given) + 9 <= TS_SIZE =>
                    /\ pckt'.data[Start(given) + 1] = pckt.data[Start(given) + 1]
                    /\ pckt'.data[Start(given) + 2] = pckt.data[Start(given) + 2]
                    /\ pckt'.data[Start(given) + 3] = pckt.data[Start(given) + 3]
                    /\ pckt'.data[Start(given) + 4] = pckt.data[Start(given) + 4]
                    /\ pckt'.data[Start(given) + 9] = pckt.data[Start(given) + 9]
                BY <4>3
            <4>5. Fits'
                BY <3>2, <3>4, <4>4 DEF Fits
            <4>6. Headers'
                <5> SUFFICES ASSUME NEW w \in written, NEW k \in 1..Len(PESserialize(w)),
                                    Start(given) + k <= TS_SIZE
                             PROVE  pckt'.data[Start(given) + k] = PESserialize(w)[k]
                    BY <3>2 DEF Headers
                <5>1. Start(given) + k \in 5..TS_SIZE
                    BY <3>3
                <5> QED BY <3>1, <3>4, <5>1 DEF Headers
            <4> QED BY <4>1, <4>2, <4>5, <4>6
        <3>5. HasPayload(original)' <=> HasPayload(original)
            BY <3>2 DEF HasPayload, original, insert, adaptationFieldExist
        <3>6. WrittenInv'
            BY <1>0, <2>3, <3>2, <3>4, <3>5 DEF WrittenInv
        <3> QED BY <1>1, <1>2, <2>1, <3>6 DEF AllInv, Numbers
    <2> QED BY <2>2, <2>3
<1> QED BY <1>3, <1>4

-----------------------------------------------------------------------------
\* Headers that are read from the same payload show the same stamps.
LEMMA ReadAlike ==
    ASSUME NEW a, NEW b, NEW s, NEW junk, NEW p, NEW q,
           ReadHeader(a, s, junk, p), ReadHeader(b, s, junk, q)
    PROVE  pts(p) = pts(q) /\ dts(p) = dts(q)
<1>1. TimeFlags(p) = TimeFlags(q)
    BY DEF ReadHeader, TimeFlags
<1>2. TimeFlags(p) \in {Both, OnlyPTS} => p.PTS = q.PTS
    BY <1>1 DEF ReadHeader
<1>3. TimeFlags(p) = Both => p.DTS = q.DTS
    BY <1>1 DEF ReadHeader
<1> QED BY <1>1, <1>2, <1>3 DEF pts, dts

\* A PESPacket that is new, or was reset, and parses a header with flags has the time
\* stamps that a new one finds in it: parse() leaves none of an earlier packet.
THEOREM ReadingAgain == Spec => ReadsLikeNew
<1>1. ASSUME AllInv, Parse, fresh, Reads(pckt).pes.stream_id \notin Bare \cup {0}
      PROVE  pts(pes') = pts(Reads(pckt).pes) /\ dts(pes') = dts(Reads(pckt).pes)
    <2> DEFINE s == getPayload(pckt)
               found == Reads(pckt).pes
               r == PESparse(pes, s, Junk)
    <2>1. pckt.data \in [1..TS_SIZE -> Nat] /\ PESShape(pes) /\ pes.stream_id = 0
        BY <1>1 DEF AllInv, Numbers, Asked, PESType
    <2>2. /\ Take(s, 0, 3, Junk) = <<0, 0, 1>> /\ At(s, 3, Junk) \notin Bare
          /\ ReadHeader(NewPES, s, Junk, found)
        BY <1>1, <2>1, ReadsFacts
    <2>3. ReadHeader(pes, s, Junk, r.pes)
        <3>1. Take(s, 0, 3, Junk) = <<0, 0, 1>> /\ At(s, 3, Junk) \notin Bare =>
                 ReadHeader(pes, s, Junk, r.pes)
            BY <2>1, ParseFacts
        <3> QED BY <2>2, <3>1
    <2>4. pes' = r.pes
        BY <1>1 DEF Parse
    <2> HIDE DEF s, found, r
    <2>5. pts(r.pes) = pts(found) /\ dts(r.pes) = dts(found)
        BY <2>2, <2>3, ReadAlike
    <2> QED BY <2>4, <2>5 DEF found
<1>2. AllInv /\ [Next]_vars => AllInv'
    BY AllStep
<1>3. AllInv /\ [Next]_vars =>
        [Parse /\ fresh =>
           LET found == Reads(pckt).pes
           IN  found.stream_id \notin Bare \cup {0} => pts(pes') = pts(found) /\ dts(pes') = dts(found)]_vars
    BY <1>1
<1> QED BY AllInit, <1>2, <1>3, PTL DEF Spec, ReadsLikeNew

\* pts() and dts() give back what setPTS() and setDTS() were given, but for bits 30 to
\* 32, and the packer would have written the same bytes of it.
THEOREM StampsKept == Spec => []StampsValue
<1>1. AllInv => StampsValue
    <2> SUFFICES ASSUME AllInv PROVE StampsValue
        OBVIOUS
    <2>1. Asked /\ Both # OnlyPTS
        BY DEF AllInv, Both, OnlyPTS
    <2>2. ASSUME asked.PTS # None
          PROVE  /\ pts(pes) = Kept(asked.PTS)
                 /\ asked.PTS \subseteq 0..29 => pes.PTS = writePTS({1}, asked.PTS)
        <3>1. pes.PTS = encodeTimestamp(asked.PTS) /\ TimeFlags(pes) \in {Both, OnlyPTS}
            BY <2>1, <2>2 DEF Asked
        <3>2. pts(pes) = decodeTimestamp(encodeTimestamp(asked.PTS))
            BY <3>1 DEF pts
        <3> QED BY <3>1, <3>2, StampRead, EncodersAgree DEF Kept
    <2>3. ASSUME asked.DTS # None
          PROVE  /\ dts(pes) = Kept(asked.DTS)
                 /\ asked.DTS \subseteq 0..29 =>
                      decodeTimestamp(writePTS({1}, asked.DTS)) = dts(pes)
        <3>1. pes.DTS = encodeTimestamp(asked.DTS) /\ TimeFlags(pes) = Both
            BY <2>1, <2>3 DEF Asked
        <3>2. dts(pes) = decodeTimestamp(encodeTimestamp(asked.DTS))
            BY <3>1 DEF dts
        <3> QED BY <3>2, StampRead, EncodersAgree DEF Kept
    <2> QED BY <2>2, <2>3 DEF StampsValue
<1>2. AllInv /\ [Next]_vars => AllInv'
    BY AllStep
<1> QED BY AllInit, <1>1, <1>2, PTL DEF Spec

\* Sequences that agree behind a place have the same rest there.
LEMMA SameRest ==
    ASSUME NEW u \in Seq(Nat), NEW v \in Seq(Nat), Len(u) = Len(v), NEW m \in Nat,
           \A k \in 1..Len(u) : k > m => u[k] = v[k]
    PROVE  SubSeq(u, m + 1, Len(u)) = SubSeq(v, m + 1, Len(v))
<1>0. Len(u) \in Nat
    OBVIOUS
<1>1. CASE m <= Len(u)
    <2>1. /\ Len(u) \in Nat /\ u \in [1..Len(u) -> Nat] /\ v \in [1..Len(u) -> Nat]
        OBVIOUS
    <2> QED BY <1>1, <2>1, SamePayload
<1>2. CASE m > Len(u)
    <2>1. SubSeq(u, m + 1, Len(u)) = <<>> /\ SubSeq(v, m + 1, Len(v)) = <<>>
        BY <1>2
    <2> QED BY <2>1, Zenon
<1>3. m <= Len(u) \/ m > Len(u)
    BY <1>0
<1> QED BY <1>1, <1>2, <1>3, Zenon

\* What a reader finds in a payload that begins where it did in the original.
LEMMA ReadsPayload ==
    ASSUME AllInv, Complete, HasPayload(original)
    PROVE  LET s == getPayload(pckt)
           IN  /\ s \in Seq(Nat) /\ Len(s) = TS_SIZE - Start(given)
               /\ \A k \in 1..Len(s) : s[k] = pckt.data[Start(given) + k]
               /\ data_byte(pckt) = Len(s)
               /\ given \in Packets /\ Start(given) \in Nat /\ TS_SIZE \in Nat
<1> DEFINE s == getPayload(pckt)
<1>1. pckt.data \in [1..TS_SIZE -> Nat] /\ FieldsInv /\ given \in Packets
    BY DEF AllInv, Numbers, FieldsInv
<1>2. data_byte(pckt) \in Nat /\ data_byte(pckt) <= PayloadSize
    BY <1>1, ReadsFacts
<1>3. /\ s \in Seq(Nat) /\ Len(s) = data_byte(pckt)
      /\ \A k \in 1..data_byte(pckt) : s[k] = pckt.data[TS_SIZE - data_byte(pckt) + k]
    BY <1>1, <1>2, PayloadFacts
<1>4. data_byte(pckt) = data_byte(original)
    BY <1>1, SameStart
<1>5. Start(given) = TS_SIZE - data_byte(pckt) /\ Start(given) \in Nat
    BY <1>1, <1>4, GivenStart
<1>6. TS_SIZE - Start(given) = data_byte(pckt) /\ TS_SIZE \in Nat
    BY <1>2, <1>5, SizeFacts
<1> HIDE DEF s
<1> QED BY <1>1, <1>3, <1>5, <1>6 DEF s

\* A header that is written over one of the same length leaves the data of the
\* elementary stream, and a reader finds where they begin.
THEOREM UnitKept == Spec => []KeepsUnit
<1>1. AllInv => KeepsUnit
    <2> SUFFICES ASSUME AllInv, HasPayload(original), written # {}, sized
                 PROVE  DataIn(pckt) = DataIn(original)
        BY DEF KeepsUnit
    <2> DEFINE s == getPayload(pckt)
               o == getPayload(original)
               start == Start(given)
    <2>1. FieldsInv /\ Complete
        BY DEF AllInv, FieldsInv, Filling
    <2>2. Behind /\ Fits
        BY <2>1 DEF AllInv, WrittenInv
    <2>3. /\ s \in Seq(Nat) /\ Len(s) = TS_SIZE - start
          /\ \A k \in 1..Len(s) : s[k] = pckt.data[start + k]
          /\ data_byte(pckt) = Len(s)
          /\ given \in Packets /\ start \in Nat /\ TS_SIZE \in Nat
        BY <2>1, ReadsPayload
    <2>4. data_byte(original) = Len(s)
        BY <2>1, <2>3, SameStart
    <2>5. original.data = given.bytes /\ given.bytes \in [1..TS_SIZE -> Nat]
        BY <2>3, GivenFacts
    <2>6. data_byte(original) \in Nat /\ data_byte(original) <= PayloadSize
        BY <2>5, ReadsFacts
    <2>7. /\ o \in Seq(Nat) /\ Len(o) = Len(s)
          /\ \A k \in 1..Len(s) : o[k] = given.bytes[start + k]
        <3>1. /\ o \in Seq(Nat) /\ Len(o) = data_byte(original)
              /\ \A k \in 1..data_byte(original) :
                   o[k] = original.data[TS_SIZE - data_byte(original) + k]
            BY <2>5, <2>6, PayloadFacts
        <3>2. TS_SIZE - data_byte(original) = start
            BY <2>3, <2>4, <2>6
        <3> HIDE DEF s, o, start
        <3> QED BY <2>4, <2>5, <3>1, <3>2
    <2>8. HeaderOf(given) \in Nat /\ Reads(original).read = HeaderOf(given)
        BY <2>3, GivenStart DEF HeaderOf, original
    <2>9. Reads(pckt).read = HeaderOf(given)
        <3>1. /\ start + 9 <= TS_SIZE
              /\ pckt.data[start + 1] = 0 /\ pckt.data[start + 2] = 0 /\ pckt.data[start + 3] = 1
              /\ pckt.data[start + 4] \notin Bare
              /\ HeaderOf(given) = 9 + pckt.data[start + 9]
            BY <2>2 DEF Fits
        <3>2. ASSUME NEW k \in Nat, k < 9 PROVE At(s, k, Junk) = pckt.data[start + (k + 1)]
            <4> HIDE DEF s, start
            <4>1. k < Len(s) /\ k + 1 \in 1..Len(s)
                BY <2>3, <3>1, <3>2
            <4> QED BY <2>3, <4>1 DEF At
        <3> HIDE DEF s, start
        <3>3. /\ At(s, 0, Junk) = pckt.data[start + (0 + 1)]
              /\ At(s, 1, Junk) = pckt.data[start + (1 + 1)]
              /\ At(s, 2, Junk) = pckt.data[start + (2 + 1)]
              /\ At(s, 3, Junk) = pckt.data[start + (3 + 1)]
              /\ At(s, 8, Junk) = pckt.data[start + (8 + 1)]
            BY <3>2
        <3>4. 0 + 1 = 1 /\ 1 + 1 = 2 /\ 2 + 1 = 3 /\ 3 + 1 = 4 /\ 8 + 1 = 9
            OBVIOUS
        <3>5. /\ At(s, 0, Junk) = 0 /\ At(s, 1, Junk) = 0 /\ At(s, 2, Junk) = 1
              /\ At(s, 3, Junk) \notin Bare /\ HeaderOf(given) = 9 + At(s, 8, Junk)
            BY <3>1, <3>3, <3>4
        <3>6. Take(s, 0, 3, Junk) = <<0, 0, 1>>
            BY <2>3, <3>5, Prefixed DEF Junk
        <3>7. Take(s, 0, 3, Junk) = <<0, 0, 1>> /\ At(s, 3, Junk) \notin Bare =>
                 Reads(pckt).read = 9 + At(s, 8, Junk)
            BY ReadsFacts DEF AllInv, Numbers, s
        <3> QED BY <3>5, <3>6, <3>7
    <2>10. \A k \in 1..Len(s) : k > HeaderOf(given) => s[k] = o[k]
        <3> SUFFICES ASSUME NEW k \in 1..Len(s), k > HeaderOf(given) PROVE s[k] = o[k]
            OBVIOUS
        <3> HIDE DEF s, o, start
        <3>1. start + k \in 1..TS_SIZE /\ start + k > start + HeaderOf(given)
            BY <2>3, <2>8
        <3>2. pckt.data[start + k] = given.bytes[start + k]
            BY <2>2, <3>1 DEF Behind, start
        <3> QED BY <2>3, <2>7, <3>2
    <2> HIDE DEF s, o, start
    <2>11. SubSeq(s, HeaderOf(given) + 1, Len(s)) = SubSeq(o, HeaderOf(given) + 1, Len(o))
        BY <2>3, <2>7, <2>8, <2>10, SameRest
    <2> QED BY <2>8, <2>9, <2>11 DEF DataIn, s, o
<1>2. AllInv /\ [Next]_vars => AllInv'
    BY AllStep
<1> QED BY AllInit, <1>1, <1>2, PTL DEF Spec

\* A number of 16 bits is read as it was written.
LEMMA WordBack ==
    ASSUME NEW n, IsWord(n), NEW s, NEW k, NEW junk,
           At(s, k, junk) = n \div 256, At(s, k + 1, junk) = n % 256
    PROVE  Word(s, k, junk) = n
<1>1. \A m \in Nat : m < 65536 => (256 * (m \div 256) + (m % 256)) % 65536 = m
    OBVIOUS
<1> QED BY <1>1 DEF IsWord, Word, Short

\* Sequences with the same elements.
LEMMA SameSequence ==
    ASSUME NEW a \in Seq(Nat), NEW b \in Seq(Nat), Len(a) = Len(b),
           \A k \in 1..Len(a) : a[k] = b[k]
    PROVE  a = b
OBVIOUS

\* A time stamp that is read as it was written.
LEMMA TakeBack ==
    ASSUME NEW s \in Seq(Nat), NEW k \in Nat, NEW junk \in Nat, NEW t \in Seq(Nat), Len(t) = 5,
           \A j \in 1..5 : At(s, k + j - 1, junk) = t[j]
    PROVE  Take(s, k, 5, junk) = t
<1>1. ASSUME NEW n \in Nat
      PROVE  /\ Take(s, k, n, junk) \in Seq(Nat) /\ Len(Take(s, k, n, junk)) = n
             /\ \A j \in 1..n : Take(s, k, n, junk)[j] = At(s, k + j - 1, junk)
    BY TakeType, ZenonT(60)
<1> DEFINE u == Take(s, k, 5, junk)
<1>2. u \in Seq(Nat) /\ Len(u) = 5 /\ \A j \in 1..5 : u[j] = At(s, k + j - 1, junk)
    BY <1>1
<1> HIDE DEF u
<1>3. \A j \in 1..5 : u[j] = t[j]
    BY <1>2
<1>4. u = t
    BY <1>2, <1>3, SameSequence
<1> QED BY <1>4 DEF u

\* A reader of the changed packet finds what was written back, if there was room for it.
THEOREM StampsFound == Spec => []StampsArrive
<1>1. AllInv => StampsArrive
    <2> SUFFICES ASSUME AllInv, NEW w \in written, HasPayload(original),
                        hasPacketStartCodePrefix(w), w.stream_id \notin Bare \cup {0},
                        Len(PESserialize(w)) <= data_byte(pckt)
                 PROVE  LET found == Reads(pckt).pes
                        IN  /\ pts(found) = pts(w)
                            /\ dts(found) = dts(w)
                            /\ found.PES_packet_length = w.PES_packet_length
                            /\ found.flags1 = w.flags1
        BY DEF StampsArrive
    <2> DEFINE s == getPayload(pckt)
               start == Start(given)
               h == PESserialize(w)
               t == Stamped(w)
               found == Reads(pckt).pes
    <2>1. FieldsInv /\ Complete
        BY DEF AllInv, FieldsInv, Filling
    <2>2. Headers /\ PESType(w)
        BY <2>1 DEF AllInv, WrittenInv
    <2>3. /\ s \in Seq(Nat) /\ Len(s) = TS_SIZE - start
          /\ \A k \in 1..Len(s) : s[k] = pckt.data[start + k]
          /\ data_byte(pckt) = Len(s)
          /\ start \in Nat /\ TS_SIZE \in Nat
        BY <2>1, ReadsPayload
    <2>4. /\ h \in Seq(Nat) /\ Len(h) = 9 + Len(t)
          /\ \A k \in 1..3 : h[k] = w.packet_start_code_prefix[k]
          /\ h[4] = w.stream_id
          /\ h[5] = w.PES_packet_length \div 256 /\ h[6] = w.PES_packet_length % 256
          /\ h[7] = w.flags1 /\ h[8] = w.flags2 /\ h[9] = w.PES_header_data_length
          /\ \A k \in 1..Len(t) : h[9 + k] = t[k]
        BY <2>2, SerializeFacts
    <2>5. /\ t \in Seq(Nat)
          /\ Len(t) = IF TimeFlags(w) = Both THEN 10 ELSE IF TimeFlags(w) = OnlyPTS THEN 5 ELSE 0
          /\ TimeFlags(w) \in {Both, OnlyPTS} => \A k \in 1..5 : t[k] = w.PTS[k]
          /\ TimeFlags(w) = Both => \A k \in 1..5 : t[5 + k] = w.DTS[k]
        BY <2>2, StampedFacts
    <2>6. /\ Take(s, 0, 3, Junk) = <<0, 0, 1>> /\ At(s, 3, Junk) \notin Bare =>
               ReadHeader(NewPES, s, Junk, found)
        BY ReadsFacts DEF AllInv, Numbers
    <2>7. Junk \in Nat /\ Both # OnlyPTS
        BY DEF Junk, Both, OnlyPTS
    <2>8. w.packet_start_code_prefix = <<0, 0, 1>>
        BY DEF hasPacketStartCodePrefix
    <2>9. Len(h) <= Len(s)
        BY <2>3
    <2> HIDE DEF s, start, h, t, found
    <2>20. Len(h) \in Nat /\ Len(s) \in Nat /\ Len(t) \in Nat /\ Len(h) = 9 + Len(t)
        BY <2>3, <2>4, <2>5
    <2>21. TimeFlags(w) \in {Both, OnlyPTS} => Len(t) >= 5
        <3>1. TimeFlags(w) = Both => Len(t) = 10
            BY <2>5
        <3>2. TimeFlags(w) = OnlyPTS => Len(t) = 5
            BY <2>5, <2>7
        <3>3. TimeFlags(w) = Both \/ TimeFlags(w) = OnlyPTS => Len(t) = 10 \/ Len(t) = 5
            BY <3>1, <3>2
        <3>4. Len(t) = 10 \/ Len(t) = 5 => Len(t) >= 5
            <4> DEFINE m == Len(t)
            <4> HIDE DEF m
            <4>1. m = 10 \/ m = 5 => m >= 5
                OBVIOUS
            <4> QED BY <4>1 DEF m
        <3> QED BY <3>3, <3>4
    <2>22. TimeFlags(w) = Both => Len(t) = 10
        BY <2>5
    <2>10. ASSUME NEW k \in Nat, k < Len(h)
           PROVE  At(s, k, Junk) = h[k + 1]
        <3>1. k < Len(s) /\ k + 1 \in 1..Len(h) /\ k + 1 \in 1..Len(s)
            BY <2>9, <2>10, <2>20
        <3>2. At(s, k, Junk) = pckt.data[start + (k + 1)]
            BY <2>3, <3>1 DEF At
        <3>3. start + (k + 1) <= TS_SIZE
            BY <2>3, <3>1
        <3>4. pckt.data[start + (k + 1)] = h[k + 1]
            BY <2>2, <3>1, <3>3 DEF Headers, start, h
        <3> QED BY <3>2, <3>4
    <2>11. ASSUME NEW k \in Nat, k < 9
           PROVE  At(s, k, Junk) = h[k + 1]
        <3>1. k < Len(h)
            BY <2>11, <2>20
        <3> QED BY <2>10, <3>1
    <2>12. /\ At(s, 0, Junk) = h[0 + 1] /\ At(s, 1, Junk) = h[1 + 1] /\ At(s, 2, Junk) = h[2 + 1]
           /\ At(s, 3, Junk) = h[3 + 1] /\ At(s, 4, Junk) = h[4 + 1] /\ At(s, 5, Junk) = h[5 + 1]
           /\ At(s, 6, Junk) = h[6 + 1] /\ At(s, 7, Junk) = h[7 + 1] /\ At(s, 8, Junk) = h[8 + 1]
        BY <2>11
    <2>13. /\ At(s, 0, Junk) = 0 /\ At(s, 1, Junk) = 0 /\ At(s, 2, Junk) = 1
           /\ At(s, 3, Junk) = w.stream_id
           /\ At(s, 4, Junk) = w.PES_packet_length \div 256
           /\ At(s, 4 + 1, Junk) = w.PES_packet_length % 256
           /\ At(s, 6, Junk) = w.flags1 /\ At(s, 7, Junk) = w.flags2
        <3>1. /\ 0 + 1 = 1 /\ 1 + 1 = 2 /\ 2 + 1 = 3 /\ 3 + 1 = 4 /\ 4 + 1 = 5 /\ 5 + 1 = 6
              /\ 6 + 1 = 7 /\ 7 + 1 = 8
            OBVIOUS
        <3>2. h[1] = 0 /\ h[2] = 0 /\ h[3] = 1
            BY <2>4, <2>8
        <3>3. /\ At(s, 0, Junk) = h[1] /\ At(s, 1, Junk) = h[2] /\ At(s, 2, Junk) = h[3]
              /\ At(s, 3, Junk) = h[4] /\ At(s, 4, Junk) = h[5] /\ At(s, 4 + 1, Junk) = h[6]
              /\ At(s, 6, Junk) = h[7] /\ At(s, 7, Junk) = h[8]
            BY <2>12, <3>1, Zenon
        <3> QED BY <2>4, <3>2, <3>3, Zenon
    <2>14. ReadHeader(NewPES, s, Junk, found)
        <3>1. Take(s, 0, 3, Junk) = <<0, 0, 1>>
            BY <2>3, <2>7, <2>13, Prefixed
        <3>2. At(s, 3, Junk) \notin Bare
            BY <2>13
        <3> QED BY <2>6, <3>1, <3>2
    <2>15. found.PES_packet_length = w.PES_packet_length /\ found.flags1 = w.flags1
        <3>1. Word(s, 4, Junk) = w.PES_packet_length
            BY <2>2, <2>13, WordBack DEF PESType
        <3> QED BY <2>13, <2>14, <3>1 DEF ReadHeader
    <2>16. TimeFlags(found) = TimeFlags(w)
        BY <2>13, <2>14 DEF ReadHeader, TimeFlags
    <2>17. ASSUME TimeFlags(w) \in {Both, OnlyPTS} PROVE found.PTS = w.PTS
        <3>1. ASSUME NEW k \in 1..5 PROVE h[9 + k] = w.PTS[k]
            <4>1. k \in 1..Len(t)
                BY <2>17, <2>20, <2>21
            <4>2. h[9 + k] = t[k] /\ t[k] = w.PTS[k]
                BY <2>4, <2>5, <2>17, <4>1
            <4> QED BY <4>2
        <3>2. ASSUME NEW j \in 1..5 PROVE At(s, 9 + j - 1, Junk) = w.PTS[j]
            <4>1. 9 + j - 1 \in Nat /\ 9 + j - 1 < Len(h) /\ (9 + j - 1) + 1 = 9 + j
                BY <2>17, <2>20, <2>21
            <4> QED BY <2>10, <3>1, <4>1
        <3>3. Take(s, 9, 5, Junk) = w.PTS
            BY <2>2, <2>3, <2>7, <3>2, TakeBack, SMTT(60) DEF PESType
        <3> QED BY <2>14, <2>16, <2>17, <3>3 DEF ReadHeader
    <2>18. ASSUME TimeFlags(w) = Both PROVE found.DTS = w.DTS
        <3>1. ASSUME NEW k \in 1..5 PROVE h[9 + (5 + k)] = w.DTS[k]
            <4> DEFINE m == Len(t)
            <4>3. m = 10
                BY <2>18, <2>22
            <4> HIDE DEF m
            <4>4. 5 + k \in 1..m
                BY <4>3
            <4>1. 5 + k \in 1..Len(t)
                BY <4>4 DEF m
            <4>2. h[9 + (5 + k)] = t[5 + k] /\ t[5 + k] = w.DTS[k]
                BY <2>4, <2>5, <2>18, <4>1
            <4> QED BY <4>2
        <3>2. ASSUME NEW j \in 1..5 PROVE At(s, 14 + j - 1, Junk) = w.DTS[j]
            <4> DEFINE m == Len(h)
            <4>4. m = 9 + Len(t) /\ Len(t) = 10
                BY <2>18, <2>20, <2>22
            <4>5. m = 9 + 10
                BY <4>4, Zenon
            <4>2. m = 19
                BY <4>5
            <4> HIDE DEF m
            <4>3. 14 + j - 1 < m
                BY <4>2
            <4>1. 14 + j - 1 \in Nat /\ 14 + j - 1 < Len(h) /\ (14 + j - 1) + 1 = 9 + (5 + j)
                BY <4>3 DEF m
            <4> QED BY <2>10, <3>1, <4>1
        <3>3. Take(s, 14, 5, Junk) = w.DTS
            BY <2>2, <2>3, <2>7, <3>2, TakeBack, SMTT(60) DEF PESType
        <3> QED BY <2>14, <2>16, <2>18, <3>3 DEF ReadHeader
    <2>19. pts(found) = pts(w) /\ dts(found) = dts(w)
        BY <2>16, <2>17, <2>18 DEF pts, dts
    <2> QED BY <2>15, <2>19 DEF found
<1>2. AllInv /\ [Next]_vars => AllInv'
    BY AllStep
<1> QED BY AllInit, <1>1, <1>2, PTL DEF Spec

\* Sequences that agree in a part.
LEMMA SamePart ==
    ASSUME NEW n \in Nat, NEW d \in [1..n -> Nat], NEW e \in [1..n -> Nat],
           NEW a \in Nat, NEW b \in Nat, 1 <= a, b <= n,
           \A k \in a..b : d[k] = e[k]
    PROVE  SubSeq(d, a, b) = SubSeq(e, a, b)
<1> DEFINE u == SubSeq(d, a, b)
           v == SubSeq(e, a, b)
<1>1. d \in Seq(Nat) /\ e \in Seq(Nat) /\ Len(d) = n /\ Len(e) = n
    OBVIOUS
<1>2. u \in Seq(Nat) /\ v \in Seq(Nat) /\ Len(u) = Len(v)
    BY <1>1
<1>3. ASSUME NEW k \in 1..Len(u) PROVE u[k] = v[k]
    <2>1. k + a - 1 \in a..b /\ u[k] = d[k + a - 1] /\ v[k] = e[k + a - 1]
        BY <1>1, <1>2
    <2> QED BY <2>1
<1> HIDE DEF u, v
<1>4. u = v
    BY <1>2, <1>3, SameSequence
<1> QED BY <1>4 DEF u, v

\* The clock reference of a packet is printed as the packer got it, without two of its
\* bits, whatever is changed in the packet: no call reaches the adaptation field.
THEOREM ClockStays == Spec => []ClockArrives
<1>1. AllInv => ClockArrives
    <2> SUFFICES ASSUME AllInv, Complete, HasPayload(original)
                 PROVE  /\ PrintsPCR(pckt) <=> given.clock # None
                        /\ given.clock # None =>
                             readPcrBits(getPCR(pckt)) = [base |-> given.clock.base \ {0},
                                                          ext |-> given.clock.ext \ {8}]
        BY DEF ClockArrives
    <2> DEFINE L == given.bytes[5]
    <2>1. /\ FieldsInv /\ given \in Packets /\ InFront
          /\ pckt.data \in [1..TS_SIZE -> Nat]
          /\ given.bytes \in [1..TS_SIZE -> Nat] /\ L \in Nat
          /\ original.data = given.bytes
          /\ TS_SIZE \in Nat /\ TS_SIZE > 20 /\ PayloadSize = TS_SIZE - 4 /\ PayloadSize \in Nat
        <3>1. given \in Packets /\ FieldsInv
            BY DEF AllInv, FieldsInv
        <3>2. 5 \in 1..TS_SIZE
            BY SizeFacts
        <3> QED BY <3>1, <3>2, SizeFacts, GivenFacts DEF AllInv, Numbers, WrittenInv
    <2>2. /\ adaptationFieldExist(pckt) = adaptationFieldExist(original)
          /\ adaptationFieldExist(pckt) = 3 => pckt.data[5] = L
        BY <2>1, SameStart
    <2>3. adaptationFieldExist(original) \in {1, 3}
        BY DEF HasPayload
    <2>4. Start(given) = TS_SIZE - data_byte(original)
        BY <2>1, GivenStart
    <2> HIDE DEF L
    <2>5. ASSUME adaptationFieldExist(original) = 3
          PROVE  /\ Start(given) \in Nat /\ (L > 0 => Start(given) >= 6)
                 /\ L <= PayloadSize - 2 => Start(given) = L + 5
        <3>1. data_byte(original) = IF L <= PayloadSize - 2 THEN PayloadSize - L - 1
                                    ELSE PayloadSize - 2
            BY <2>1, <2>5 DEF data_byte, L
        <3>2. /\ TS_SIZE \in Nat /\ PayloadSize = TS_SIZE - 4 /\ TS_SIZE > 20 /\ L \in Nat
              /\ Start(given) = TS_SIZE - data_byte(original)
            BY <2>1, <2>4
        <3>3. CASE L <= PayloadSize - 2
            <4>1. data_byte(original) = PayloadSize - L - 1
                BY <3>1, <3>3
            <4>2. \A n \in Nat, l \in Nat :
                    l <= n - 4 - 2 => n - (n - 4 - l - 1) = l + 5 /\ l + 5 \in Nat
                OBVIOUS
            <4>3. Start(given) = TS_SIZE - (TS_SIZE - 4 - L - 1) /\ L <= TS_SIZE - 4 - 2
                BY <3>2, <3>3, <4>1
            <4>4. Start(given) = L + 5
                BY <3>2, <4>2, <4>3
            <4> QED BY <3>2, <4>4
        <3>4. CASE ~(L <= PayloadSize - 2)
            <4>1. data_byte(original) = PayloadSize - 2
                BY <3>1, <3>4
            <4> QED BY <3>2, <3>4, <4>1
        <3> QED BY <3>3, <3>4
    <2>6. ASSUME adaptationFieldExist(original) = 3, L > 0
          PROVE  pckt.data[6] = original.data[6]
        <3>1. 6 \in 1..TS_SIZE /\ 5 <= 6 /\ 6 <= Start(given)
            BY <2>1, <2>5, <2>6
        <3> QED BY <2>1, <3>1 DEF InFront
    <2>7. PrintsPCR(pckt) <=> PrintsPCR(original)
        BY <2>1, <2>2, <2>3, <2>6 DEF PrintsPCR, hasAdaptationField, PCR_flag, L
    <2>8. PrintsPCR(original) <=> given.clock # None
        BY <2>1, PacketsAssumption DEF original
    <2>9. ASSUME given.clock # None
          PROVE  readPcrBits(getPCR(pckt)) = [base |-> given.clock.base \ {0},
                                              ext |-> given.clock.ext \ {8}]
        <3>1. /\ given.clock.base \subseteq 0..32 /\ given.clock.ext \subseteq 0..8
              /\ SubSeq(given.bytes, 7, 12) = writePcrBits(given.clock)
              /\ 7 <= L /\ L <= PayloadSize - 2
            BY <2>1, <2>9, PacketsAssumption DEF L
        <3>2. adaptationFieldExist(original) = 3
            BY <2>3, <2>8, <2>9 DEF PrintsPCR, hasAdaptationField
        <3>3. Start(given) >= 12 /\ Start(given) \in Nat
            BY <2>1, <2>5, <3>1, <3>2
        <3>4. \A k \in 7..12 : pckt.data[k] = given.bytes[k]
            <4> SUFFICES ASSUME NEW k \in 7..12 PROVE pckt.data[k] = given.bytes[k]
                OBVIOUS
            <4>1. k \in 1..TS_SIZE /\ 5 <= k /\ k <= Start(given)
                <5>1. TS_SIZE \in Nat /\ TS_SIZE > 20 /\ Start(given) >= 12 /\ Start(given) \in Nat
                    BY <2>1, <3>3
                <5> QED BY <5>1
            <4> QED BY <2>1, <4>1 DEF InFront
        <3>5. SubSeq(pckt.data, 7, 12) = SubSeq(given.bytes, 7, 12)
            BY <2>1, <3>4, SamePart
        <3>6. getPCR(pckt) = writePcrBits(given.clock)
            BY <3>1, <3>5 DEF getPCR
        <3> QED BY <3>1, <3>6, ClockRead
    <2> QED BY <2>7, <2>8, <2>9
<1>2. AllInv /\ [Next]_vars => AllInv'
    BY AllStep
<1> QED BY AllInit, <1>1, <1>2, PTL DEF Spec
=============================================================================
