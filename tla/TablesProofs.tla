---------------------------- MODULE TablesProofs -----------------------------
(***************************************************************************)
(* A program map table that is built states its length and has its CRC,    *)
(* for every seed, every element and any number of calls; what is put into *)
(* packets is bytes; a program association table that fits into one packet *)
(* arrives; and so does a program map table that can be carried and read.  *)
(***************************************************************************)
EXTENDS Tables, DataProofs, FiniteSetTheorems

\* A byte that is written.
Byte == 0..255

LEMMA OneDescBytes ==
    ASSUME NEW d \in Descriptor
    PROVE  /\ OneDesc(d) \in Seq(Byte) /\ Len(OneDesc(d)) = 2 + DescLength(d)
           /\ DescLength(d) \in Byte
<1> DEFINE a == <<d.tag, DescLength(d)>>
           b == SubSeq(d.value, 1, DescLength(d))
           n == DescLength(d)
           v == d.value
<1>1. v \in Seq(Byte) /\ d.tag \in Byte
  BY DEF Descriptor, Byte
<1>2. Len(v) \in Nat
  BY <1>1, LenProperties
<1>3. n = Len(v) % 256
  BY DEF DescLength
<1> HIDE DEF n, v
<1>4. n \in Byte /\ n \in Nat /\ n <= Len(v)
  <2>1. \A m \in Nat : m % 256 \in 0..255 /\ m % 256 <= m
    <3>1. \A m \in Nat : /\ m = 256 * (m \div 256) + (m % 256)
                         /\ m \div 256 \in Nat /\ m % 256 \in 0..255
      OBVIOUS
    <3>2. \A m, q, r \in Nat : m = 256 * q + r => r <= m
      OBVIOUS
    <3> QED BY <3>1, <3>2
  <2>2. \A m \in 0..255 : m \in Nat
    OBVIOUS
  <2> QED BY <1>2, <1>3, <2>1, <2>2 DEF Byte
<1>5. \A i \in 1..n : v[i] \in Byte
  <2>1. \A i \in 1..n : i \in 1..Len(v)
    BY <1>2, <1>4
  <2> QED BY <1>1, <2>1, ElementOfSeq
<1>6. SubSeq(v, 1, n) \in Seq(Byte) /\ Len(SubSeq(v, 1, n)) = n
  <2>1. Len(SubSeq(v, 1, n)) = IF 1 <= n THEN n - 1 + 1 ELSE 0
    BY <1>4, <1>5, SubSeqProperties
  <2>2. SubSeq(v, 1, n) \in Seq(Byte)
    BY <1>4, <1>5, SubSeqProperties
  <2> QED BY <1>4, <2>1, <2>2
<1>7. b \in Seq(Byte) /\ Len(b) = n
  BY <1>6 DEF n, v
<1>8. a \in Seq(Byte) /\ Len(a) = 2
  BY <1>1, <1>4 DEF n
<1> HIDE DEF a, b
<1>9. a \o b \in Seq(Byte) /\ Len(a \o b) = 2 + n
  <2>1. a \o b \in Seq(Byte) /\ Len(a \o b) = Len(a) + Len(b)
    BY <1>7, <1>8, ConcatProperties
  <2> QED BY <1>7, <1>8, <2>1
<1>10. OneDesc(d) = a \o b
  BY DEF OneDesc, a, b
<1> QED
  BY <1>4, <1>9, <1>10 DEF n

\* The descriptors of an element, or of the program, as they are written.
LEMMA DescBytesFacts ==
    ASSUME NEW ds \in Seq(Descriptor)
    PROVE  /\ DescBytes(ds) \in Seq(Byte)
           /\ [k \in DOMAIN ds |-> 2 + DescLength(ds[k])] \in Seq(Nat)
           /\ Len(DescBytes(ds)) = Total([k \in DOMAIN ds |-> 2 + DescLength(ds[k])])
<1> DEFINE n == Len(ds)
           q == [k \in 1..Len(ds) |-> OneDesc(ds[k])]
           w == [k \in DOMAIN ds |-> 2 + DescLength(ds[k])]
<1>1. n \in Nat /\ DOMAIN ds = 1..n /\ \A k \in 1..n : ds[k] \in Descriptor
  BY LenProperties, ElementOfSeq
<1>2. \A k \in 1..n : /\ q[k] \in Seq(Byte) /\ Len(q[k]) = 2 + DescLength(ds[k])
                      /\ 2 + DescLength(ds[k]) \in Nat
  <2>1. ASSUME NEW k \in 1..n
        PROVE  /\ q[k] \in Seq(Byte) /\ Len(q[k]) = 2 + DescLength(ds[k])
               /\ 2 + DescLength(ds[k]) \in Nat
    <3>1. q[k] = OneDesc(ds[k])
      OBVIOUS
    <3>2. /\ OneDesc(ds[k]) \in Seq(Byte) /\ Len(OneDesc(ds[k])) = 2 + DescLength(ds[k])
          /\ DescLength(ds[k]) \in Byte
      BY <1>1, OneDescBytes
    <3>3. \A m \in Byte : 2 + m \in Nat
      BY DEF Byte
    <3> QED BY <3>1, <3>2, <3>3, Zenon
  <2> QED BY <2>1
<1>3. /\ DOMAIN q = 1..n /\ q = [k \in DOMAIN q |-> q[k]]
      /\ DOMAIN w = 1..n /\ w = [k \in DOMAIN w |-> w[k]]
      /\ \A k \in 1..n : w[k] = 2 + DescLength(ds[k])
  BY <1>1
<1>4. DescBytes(ds) = FlattenSeq(q)
  BY DEF DescBytes, OneDesc
<1> HIDE DEF q, w, n
<1>5. q \in Seq(Seq(Byte))
  BY <1>1, <1>2, <1>3, IsSeq
<1>6. w \in Seq(Nat)
  <2>1. \A k \in 1..n : w[k] \in Nat
    BY <1>2, <1>3
  <2> QED BY <1>1, <1>3, <2>1, IsSeq
<1>7. Lengths(q) = w
  <2>1. Lengths(q) \in Seq(Nat)
    BY <1>5, LengthsType
  <2>2. DOMAIN Lengths(q) = 1..n /\ \A k \in 1..n : Lengths(q)[k] = Len(q[k])
    BY <1>3 DEF Lengths
  <2>3. \A k \in 1..n : Lengths(q)[k] = w[k]
    BY <1>2, <1>3, <2>2
  <2>4. n \in Nat /\ DOMAIN w = 1..n
    BY <1>1, <1>3
  <2> QED BY <1>6, <2>1, <2>2, <2>3, <2>4, SameSeq
<1>8. FlattenSeq(q) \in Seq(Byte) /\ Len(FlattenSeq(q)) = Total(Lengths(q))
  BY <1>5, FlattenType, FlattenLength
<1> QED
  BY <1>4, <1>6, <1>7, <1>8 DEF w

-----------------------------------------------------------------------------
LEMMA InfoLength ==
    ASSUME NEW e \in Element
    PROVE  /\ ES_info_length(e) \in Nat
           /\ DescBytes(e.descs) \in Seq(Byte) /\ Len(DescBytes(e.descs)) = ES_info_length(e)
<1>1. e.descs \in Seq(Descriptor)
  BY DEF Element
<1> QED
  BY <1>1, DescBytesFacts, TotalNat DEF ES_info_length

Bits13 == 0..8191

LEMMA ElementParts ==
    ASSUME NEW e \in Element
    PROVE  /\ e.type \in Byte /\ e.pid \in Bits13 /\ e.descs \in Seq(Descriptor)
           /\ DistinctTags(e.descs)
           /\ e = [type |-> e.type, pid |-> e.pid, descs |-> e.descs]
<1>1. e \in [type : Byte, pid : Bits13, descs : Seq(Descriptor)] /\ DistinctTags(e.descs)
  <2>1. Byte = 0..255 /\ Bits13 = PID
    BY DEF Byte, Bits13, PID
  <2>2. e \in [type : 0..255, pid : PID, descs : Seq(Descriptor)] /\ DistinctTags(e.descs)
    BY Zenon DEF Element
  <2> QED BY <2>1, <2>2
<1> QED
  BY <1>1

\* The bytes of one element.
OneElem(e) ==
    <<e.type>> \o Bytes2(e.pid + 57344) \o Bytes2(ES_info_length(e) + 61440) \o DescBytes(e.descs)

LEMMA TwoBytes ==
    ASSUME NEW n \in Nat
    PROVE  /\ Bytes2(n) \in Seq(Nat) /\ Len(Bytes2(n)) = 2
           /\ n < 65536 => Bytes2(n) \in Seq(Byte)
<1>1. n \div 256 \in Nat /\ n % 256 \in 0..255 /\ (n < 65536 => n \div 256 \in 0..255)
  OBVIOUS
<1>2. \A a, b : Len(<<a, b>>) = 2
  OBVIOUS
<1>3. \A T : \A a, b \in T : <<a, b>> \in Seq(T)
  OBVIOUS
<1>4. n % 256 \in Nat
  BY <1>1
<1> QED
  BY <1>1, <1>2, <1>3, <1>4 DEF Bytes2, Byte

LEMMA FourParts ==
    ASSUME NEW S, NEW a \in Seq(S), NEW b \in Seq(S), NEW c \in Seq(S), NEW d \in Seq(S),
           Len(a) = 1, Len(b) = 2, Len(c) = 2
    PROVE  a \o b \o c \o d \in Seq(S) /\ Len(a \o b \o c \o d) = 5 + Len(d)
<1>1. a \o b \in Seq(S) /\ Len(a \o b) = 3
  <2>1. a \o b \in Seq(S) /\ Len(a \o b) = Len(a) + Len(b)
    BY ConcatProperties
  <2> QED BY <2>1
<1>2. (a \o b) \o c \in Seq(S) /\ Len((a \o b) \o c) = 5
  <2>1. (a \o b) \o c \in Seq(S) /\ Len((a \o b) \o c) = Len(a \o b) + Len(c)
    BY <1>1, ConcatProperties
  <2> QED BY <1>1, <2>1
<1>3. /\ ((a \o b) \o c) \o d \in Seq(S)
      /\ Len(((a \o b) \o c) \o d) = Len((a \o b) \o c) + Len(d)
  BY <1>2, ConcatProperties
<1> QED
  BY <1>2, <1>3

LEMMA OneElemBytes ==
    ASSUME NEW e \in Element
    PROVE  /\ OneElem(e) \in Seq(Nat) /\ Len(OneElem(e)) = 5 + ES_info_length(e)
           /\ ES_info_length(e) \in Nat
           /\ ES_info_length(e) < 4096 => OneElem(e) \in Seq(Byte)
<1> DEFINE a == <<e.type>>
           b == Bytes2(e.pid + 57344)
           c == Bytes2(ES_info_length(e) + 61440)
           d == DescBytes(e.descs)
<1>1. e.type \in Byte
  BY ElementParts
<1>10. e.pid \in Bits13
  BY ElementParts
<1>2. Byte \subseteq Nat
  BY DEF Byte
<1>3. a \in Seq(Byte) /\ a \in Seq(Nat) /\ Len(a) = 1
  <2>1. \A T : \A x \in T : <<x>> \in Seq(T) /\ Len(<<x>>) = 1
    OBVIOUS
  <2>2. e.type \in Nat
    BY <1>1, <1>2, Zenon
  <2> QED BY <1>1, <2>1, <2>2
<1>4. b \in Seq(Byte) /\ b \in Seq(Nat) /\ Len(b) = 2
  <2>1. e.pid + 57344 \in Nat /\ e.pid + 57344 < 65536
    <3>1. ASSUME NEW p \in Bits13 PROVE p + 57344 \in Nat /\ p + 57344 < 65536
      BY DEF Bits13
    <3> DEFINE p == e.pid
    <3>2. p \in Bits13
      BY <1>10
    <3> HIDE DEF p
    <3>3. p + 57344 \in Nat /\ p + 57344 < 65536
      BY <3>1, <3>2
    <3> QED BY <3>3 DEF p
  <2> QED BY <2>1, TwoBytes
<1>5. /\ c \in Seq(Nat) /\ Len(c) = 2
      /\ ES_info_length(e) < 4096 => c \in Seq(Byte)
  <2>1. \A n \in Nat : n + 61440 \in Nat /\ (n < 4096 => n + 61440 < 65536)
    OBVIOUS
  <2>2. ES_info_length(e) + 61440 \in Nat
        /\ (ES_info_length(e) < 4096 => ES_info_length(e) + 61440 < 65536)
    BY InfoLength, <2>1
  <2> QED BY <2>2, TwoBytes
<1>6. d \in Seq(Byte) /\ d \in Seq(Nat) /\ Len(d) = ES_info_length(e)
  <2>1. d \in Seq(Byte) /\ Len(d) = ES_info_length(e)
    BY InfoLength
  <2> QED BY <1>2, <2>1, SeqMonotonic
<1>7. OneElem(e) = a \o b \o c \o d
  BY DEF OneElem
<1> HIDE DEF a, b, c, d
<1>8. a \o b \o c \o d \in Seq(Nat) /\ Len(a \o b \o c \o d) = 5 + Len(d)
  BY <1>3, <1>4, <1>5, <1>6, FourParts, SMTT(30)
<1>9. ES_info_length(e) < 4096 => a \o b \o c \o d \in Seq(Byte)
  BY <1>3, <1>4, <1>5, <1>6, FourParts
<1> QED
  BY <1>6, <1>7, <1>8, <1>9, InfoLength

\* The bytes that each element takes.
Taken(es) == [k \in DOMAIN es |-> 5 + ES_info_length(es[k])]

LEMMA TakenType ==
    ASSUME NEW es \in Seq(Element)
    PROVE  Taken(es) \in Seq(Nat) /\ Len(Taken(es)) = Len(es)
<1>1. Len(es) \in Nat /\ DOMAIN es = 1..Len(es) /\ \A k \in 1..Len(es) : es[k] \in Element
  BY LenProperties, ElementOfSeq
<1>2. \A k \in 1..Len(es) : 5 + ES_info_length(es[k]) \in Nat
  <2>1. \A n \in Nat : 5 + n \in Nat
    OBVIOUS
  <2> QED BY <1>1, <2>1, InfoLength
<1>3. /\ DOMAIN Taken(es) = 1..Len(es) /\ Taken(es) = [k \in DOMAIN Taken(es) |-> Taken(es)[k]]
      /\ \A k \in 1..Len(es) : Taken(es)[k] \in Nat
  BY <1>1, <1>2 DEF Taken
<1> QED
  BY <1>1, <1>3, IsSeq

\* The elements have few enough descriptors for a length of twelve bits.
Small(es) == \A k \in 1..Len(es) : ES_info_length(es[k]) < 4096

LEMMA ElemBytesFacts ==
    ASSUME NEW es \in Seq(Element)
    PROVE  /\ ElemBytes(es) \in Seq(Nat)
           /\ Len(ElemBytes(es)) = Total(Taken(es))
           /\ Small(es) => ElemBytes(es) \in Seq(Byte)
<1> DEFINE n == Len(es)
           q == [k \in 1..Len(es) |-> OneElem(es[k])]
           w == Taken(es)
<1>1. n \in Nat /\ DOMAIN es = 1..n /\ \A k \in 1..n : es[k] \in Element
  BY LenProperties, ElementOfSeq
<1>2. \A k \in 1..n : /\ q[k] \in Seq(Nat) /\ Len(q[k]) = 5 + ES_info_length(es[k])
                      /\ ES_info_length(es[k]) < 4096 => q[k] \in Seq(Byte)
  <2>1. \A k \in 1..n : q[k] = OneElem(es[k])
    OBVIOUS
  <2> HIDE DEF q, n
  <2>2. ASSUME NEW k \in 1..n
        PROVE  /\ q[k] \in Seq(Nat) /\ Len(q[k]) = 5 + ES_info_length(es[k])
               /\ ES_info_length(es[k]) < 4096 => q[k] \in Seq(Byte)
    <3>1. q[k] = OneElem(es[k]) /\ es[k] \in Element
      BY <1>1, <2>1
    <3> QED BY <3>1, OneElemBytes
  <2> QED BY <2>2
<1>3. /\ DOMAIN q = 1..n /\ q = [k \in DOMAIN q |-> q[k]]
      /\ DOMAIN w = 1..n
      /\ \A k \in 1..n : w[k] = 5 + ES_info_length(es[k])
  BY <1>1 DEF Taken
<1>4. ElemBytes(es) = FlattenSeq(q)
  BY DEF ElemBytes, OneElem
<1>6. w \in Seq(Nat)
  BY TakenType
<1> HIDE DEF q, w, n
<1>5. q \in Seq(Seq(Nat))
  BY <1>1, <1>2, <1>3, IsSeq
<1>7. Lengths(q) = w
  <2>1. Lengths(q) \in Seq(Nat)
    BY <1>5, LengthsType
  <2>2. DOMAIN Lengths(q) = 1..n /\ \A k \in 1..n : Lengths(q)[k] = Len(q[k])
    BY <1>3 DEF Lengths
  <2>3. \A k \in 1..n : Lengths(q)[k] = w[k]
    BY <1>2, <1>3, <2>2
  <2>4. n \in Nat /\ DOMAIN w = 1..n
    BY <1>1, <1>3
  <2> QED BY <1>6, <2>1, <2>2, <2>3, <2>4, SameSeq
<1>8. FlattenSeq(q) \in Seq(Nat) /\ Len(FlattenSeq(q)) = Total(Lengths(q))
  BY <1>5, FlattenType, FlattenLength
<1>9. ASSUME \A k \in 1..n : ES_info_length(es[k]) < 4096 PROVE FlattenSeq(q) \in Seq(Byte)
  <2>1. \A k \in 1..n : q[k] \in Seq(Byte)
    BY <1>2, <1>9
  <2>2. q \in Seq(Seq(Byte))
    BY <1>1, <1>3, <2>1, IsSeq
  <2> QED BY <2>2, FlattenType
<1> QED
  BY <1>4, <1>7, <1>8, <1>9 DEF w, n, Small

-----------------------------------------------------------------------------
\* What parse() makes of the byte with the highest bits of program_info_length.
InfoBytes == 240..243

\* A table that can be written: the header is that of a parsed section, with a
\* pointer_field of 0.
Shape(t) ==
    /\ t = [buffer |-> t.buffer, pmt |-> t.pmt, info |-> t.info, elmts |-> t.elmts, crc |-> t.crc]
    /\ t.pmt \in Seq(Byte) /\ Len(t.pmt) = 13 /\ t.pmt[1] = 0
    /\ t.pmt[2] = 2 /\ t.pmt[12] \in InfoBytes
    /\ t.info \in Seq(Descriptor) /\ DistinctTags(t.info)
    /\ t.elmts \in Seq(Element)

\* The descriptors of the program, as they are written.
Info(t) == IF programInfoLength(t) > 0 THEN DescBytes(t.info) ELSE <<>>

\* Numbers of twelve bits, and that which two bytes hold.
Bits12 == 0..4095
Value12(a, b) == (256 * a + b) % 4096

LEMMA TwelveBits ==
    ASSUME NEW a \in Nat, NEW b \in Nat
    PROVE  Value12(a, b) \in Bits12
BY DEF Value12, Bits12

LEMMA HeaderBytes ==
    ASSUME NEW v \in Seq(Byte), Len(v) = 13, v[1] = 0
    PROVE  /\ v[3] \in Nat /\ v[4] \in Nat /\ v[12] \in Nat /\ v[13] \in Nat
           /\ Short(v, v[1] + 11, 4096, 0) = Value12(v[12], v[13])
           /\ Short(v, v[1] + 2, 4096, 0) = Value12(v[3], v[4])
           /\ Tail(v) \in Seq(Byte) /\ Len(Tail(v)) = 12
<1>1. \A k \in 1..13 : v[k] \in Byte
  BY ElementOfSeq
<1>2. \A b \in Byte : b \in Nat
  BY DEF Byte
<1>3. v[3] \in Nat /\ v[4] \in Nat /\ v[12] \in Nat /\ v[13] \in Nat
  BY <1>1, <1>2
<1>4. v[1] + 11 = 11 /\ v[1] + 2 = 2
  BY SMT
<1>5. At(v, 11, 0) = v[12] /\ At(v, 11 + 1, 0) = v[13] /\ At(v, 2, 0) = v[3] /\ At(v, 2 + 1, 0) = v[4]
  BY DEF At
<1>6. Tail(v) \in Seq(Byte) /\ Len(Tail(v)) = 12
  <2>1. v # <<>>
    BY SMT
  <2>2. Tail(v) \in Seq(Byte) /\ Len(Tail(v)) = Len(v) - 1
    BY <2>1, HeadTailProperties
  <2> QED BY <2>2
<1>7. Short(v, v[1] + 11, 4096, 0) = Value12(v[12], v[13])
  BY <1>4, <1>5 DEF Short, Value12
<1>8. Short(v, v[1] + 2, 4096, 0) = Value12(v[3], v[4])
  BY <1>4, <1>5 DEF Short, Value12
<1> QED
  BY <1>3, <1>6, <1>7, <1>8

LEMMA InfoFacts ==
    ASSUME NEW t, Shape(t)
    PROVE  /\ programInfoLength(t) = Value12(t.pmt[12], t.pmt[13])
           /\ programInfoLength(t) \in Bits12
           /\ Info(t) \in Seq(Byte) /\ Len(Info(t)) \in Nat
           /\ ~LostInfo(t) => Len(Info(t)) = programInfoLength(t)
<1> DEFINE v == t.pmt
<1>1. v \in Seq(Byte) /\ Len(v) = 13 /\ v[1] = 0 /\ t.info \in Seq(Descriptor)
  BY DEF Shape
<1>2. programInfoLength(t) = Short(v, v[1] + 11, 4096, 0)
  BY DEF programInfoLength
<1> HIDE DEF v
<1>3. v[12] \in Nat /\ v[13] \in Nat /\ programInfoLength(t) = Value12(v[12], v[13])
  BY <1>1, <1>2, HeaderBytes
<1>4. programInfoLength(t) \in Bits12
  BY <1>3, TwelveBits
<1>5. DescBytes(t.info) \in Seq(Byte) /\ Len(DescBytes(t.info)) \in Nat
  BY <1>1, DescBytesFacts, LenProperties
<1>6. <<>> \in Seq(Byte) /\ Len(<<>>) = 0
  BY EmptySeq
<1>7. Info(t) \in Seq(Byte) /\ Len(Info(t)) \in Nat
  BY <1>5, <1>6 DEF Info
<1>8. ASSUME ~LostInfo(t) PROVE Len(Info(t)) = programInfoLength(t)
  <2>1. programInfoLength(t) = Len(DescBytes(t.info))
    BY <1>8 DEF LostInfo
  <2>2. CASE programInfoLength(t) > 0
    BY <2>1, <2>2 DEF Info
  <2>3. CASE ~(programInfoLength(t) > 0)
    <3> DEFINE p == programInfoLength(t)
    <3>0. Bits12 \subseteq Nat
      BY DEF Bits12
    <3>1. ASSUME NEW q \in Bits12, ~(q > 0) PROVE q = 0
      BY <3>0, <3>1
    <3>2. p = 0
      BY <1>4, <2>3, <3>1
    <3>3. Info(t) = <<>>
      BY <2>3 DEF Info
    <3> QED BY <1>6, <3>2, <3>3
  <2> QED BY <2>2, <2>3
<1>9. programInfoLength(t) = Value12(t.pmt[12], t.pmt[13])
  BY <1>3 DEF v
<1> QED
  BY <1>4, <1>7, <1>8, <1>9, Zenon

LEMMA SizeOf ==
    ASSUME NEW t, Shape(t)
    PROVE  /\ Covered(t) \in Seq(Nat)
           /\ serialize(t) \in Seq(Nat)
           /\ Total(Taken(t.elmts)) \in Nat
           /\ Len(serialize(t)) = 17 + Len(Info(t)) + Total(Taken(t.elmts))
<1> DEFINE h == Tail(t.pmt)
           i == Info(t)
           e == ElemBytes(t.elmts)
           z == <<CrcByte, CrcByte, CrcByte, CrcByte>>
           y == <<t.pmt[1]>>
<1>1. Byte \subseteq Nat
  BY DEF Byte
<1>2. h \in Seq(Nat) /\ Len(h) = 12
  <2>1. h \in Seq(Byte) /\ Len(h) = 12
    BY HeaderBytes DEF Shape
  <2> QED BY <1>1, <2>1, SeqMonotonic
<1>3. i \in Seq(Nat) /\ Len(i) \in Nat
  <2>1. i \in Seq(Byte) /\ Len(i) \in Nat
    BY InfoFacts
  <2> QED BY <1>1, <2>1, SeqMonotonic
<1>4. e \in Seq(Nat) /\ Len(e) = Total(Taken(t.elmts)) /\ Total(Taken(t.elmts)) \in Nat
  <2>1. t.elmts \in Seq(Element)
    BY DEF Shape
  <2> QED BY <2>1, ElemBytesFacts, TakenType, TotalNat
<1>5. z \in Seq(Nat) /\ Len(z) = 4
  BY DEF CrcByte
<1>6. y \in Seq(Nat) /\ Len(y) = 1
  BY DEF Shape
<1>7. Covered(t) = h \o i \o e /\ serialize(t) = y \o Covered(t) \o z
  BY DEF Covered, serialize, Info
<1> HIDE DEF h, i, e, z, y
<1>8. h \o i \in Seq(Nat) /\ Len(h \o i) = Len(h) + Len(i)
  BY <1>2, <1>3, ConcatProperties
<1>9. (h \o i) \o e \in Seq(Nat) /\ Len((h \o i) \o e) = Len(h \o i) + Len(e)
  BY <1>4, <1>8, ConcatProperties
<1>16. Covered(t) \in Seq(Nat)
  BY <1>7, <1>9
<1>10. y \o Covered(t) \in Seq(Nat) /\ Len(y \o Covered(t)) = Len(y) + Len(Covered(t))
  BY <1>6, <1>16, ConcatProperties
<1>11. /\ (y \o Covered(t)) \o z \in Seq(Nat)
       /\ Len((y \o Covered(t)) \o z) = Len(y \o Covered(t)) + Len(z)
  BY <1>5, <1>10, ConcatProperties
<1>12. \A a, b \in Nat : ((1 + ((12 + a) + b)) + 4) = (17 + a) + b
  OBVIOUS
<1>13. Len(serialize(t)) = (1 + ((12 + Len(i)) + Len(e))) + 4
  BY <1>2, <1>5, <1>6, <1>7, <1>8, <1>9, <1>10, <1>11, Zenon
<1>14. Len(e) \in Nat
  BY <1>4
<1>15. Len(serialize(t)) = (17 + Len(i)) + Len(e)
  BY <1>3, <1>12, <1>13, <1>14
<1> QED
  BY <1>4, <1>7, <1>9, <1>11, <1>15 DEF i, e

-----------------------------------------------------------------------------
\* The two bytes of a length, the highest four bits of which say something else.
LEMMA LengthBytes ==
    ASSUME NEW n \in Nat
    PROVE  /\ Bytes2(Or0xB000(n % 65536))[1] \in Byte /\ Bytes2(Or0xB000(n % 65536))[2] \in Byte
           /\ n \in Bits12 => Value12(Bytes2(Or0xB000(n % 65536))[1],
                                      Bytes2(Or0xB000(n % 65536))[2]) = n
<1> DEFINE m == n % 65536
           w == Or0xB000(m)
<1>1. m \in Nat /\ m < 65536 /\ (n < 4096 => m = n)
  <2>1. \A a \in Nat : a % 65536 \in Nat /\ a % 65536 < 65536
    OBVIOUS
  <2>2. ASSUME n < 4096 PROVE n % 65536 = n
    BY <2>2
  <2> QED BY <2>1, <2>2
<1> HIDE DEF m
<1>2. w \in Nat /\ w < 65536
  <2> DEFINE r == m % 4096
  <2>1. r \in Nat /\ r < 4096
    BY <1>1
  <2>2. w = (IF (m \div 16384) % 2 = 1 THEN 61440 ELSE 45056) + r
    BY DEF Or0xB000
  <2> HIDE DEF r, w
  <2>3. w = 61440 + r \/ w = 45056 + r
    BY <2>2
  <2>4. ASSUME NEW k \in Nat, k < 4096, w = 61440 + k \/ w = 45056 + k
        PROVE  w \in Nat /\ w < 65536
    <3>1. CASE w = 61440 + k
      BY <2>4, <3>1
    <3>2. CASE w = 45056 + k
      BY <2>4, <3>2
    <3> QED BY <2>4, <3>1, <3>2
  <2> QED BY <2>1, <2>3, <2>4
<1>3. ASSUME n < 4096 PROVE w = 45056 + n
  <2>1. ASSUME NEW k \in Nat, k < 4096 PROVE k % 4096 = k /\ k \div 16384 = 0
    BY <2>1
  <2>2. n % 4096 = n /\ n \div 16384 = 0
    BY <1>3, <2>1
  <2>3. m = n
    BY <1>1, <1>3
  <2> QED BY <2>2, <2>3 DEF Or0xB000
<1> HIDE DEF w
<1>4. Bytes2(w)[1] = w \div 256 /\ Bytes2(w)[2] = w % 256
  BY DEF Bytes2
<1>5. Bytes2(w)[1] \in Byte /\ Bytes2(w)[2] \in Byte
  <2>1. w \in Nat /\ w < 65536
    BY <1>2
  <2>2. w \div 256 < 256 /\ w \div 256 \in Nat /\ w % 256 \in 0..255
    BY <2>1
  <2> QED BY <1>4, <2>2 DEF Byte
<1>6. ASSUME n \in Bits12 PROVE Value12(Bytes2(w)[1], Bytes2(w)[2]) = n
  <2>1. n < 4096
    BY <1>6 DEF Bits12
  <2>2. w = 45056 + n
    BY <1>3, <2>1
  <2>3. 256 * (w \div 256) + (w % 256) = w
    BY <1>2
  <2>4. (45056 + n) % 4096 = n
    BY <2>1
  <2> QED BY <1>4, <2>2, <2>3, <2>4 DEF Value12
<1>7. Or0xB000(n % 65536) = w
  BY DEF w, m
<1> QED
  BY <1>5, <1>6, <1>7

LEMMA OtherByte ==
    ASSUME NEW v \in Seq(Byte), Len(v) = 13, NEW i \in 1..13, NEW x \in Byte,
           NEW w, w = [v EXCEPT ![i] = x]
    PROVE  w \in Seq(Byte) /\ Len(w) = 13 /\ \A j \in 1..13 : w[j] = IF j = i THEN x ELSE v[j]
<1>1. DOMAIN v = 1..13 /\ \A j \in 1..13 : v[j] \in Byte
  BY LenProperties, ElementOfSeq
<1>2. DOMAIN w = 1..13 /\ \A j \in 1..13 : w[j] = IF j = i THEN x ELSE v[j]
  BY <1>1
<1>3. w = [j \in DOMAIN w |-> w[j]] /\ \A j \in 1..13 : w[j] \in Byte
  BY <1>1, <1>2
<1> DEFINE n == 13
<1>4. n \in Nat /\ DOMAIN w = 1..n /\ \A j \in 1..n : w[j] \in Byte
  BY <1>2, <1>3
<1> HIDE DEF n
<1>5. w \in Seq(Byte) /\ Len(w) = n
  BY <1>3, <1>4, IsSeq
<1> QED
  BY <1>2, <1>5 DEF n

\* What calcLen() writes of a length.
LengthWord(n) == Or0xB000(n % 65536)

\* Table u is table t with a length of n.
Restated(u, t, n) ==
    /\ Shape(u) /\ u.elmts = t.elmts /\ u.info = t.info
    /\ u.pmt[12] = t.pmt[12] /\ u.pmt[13] = t.pmt[13]
    /\ n \in Bits12 => Value12(u.pmt[3], u.pmt[4]) = n

\* The length is written, and nothing else changes.
LEMMA LengthWritten ==
    ASSUME NEW t, Shape(t), NEW n \in Nat, NEW w, w = LengthWord(n),
           NEW u, u = set_section_length(t, w)
    PROVE  Restated(u, t, n)
<1> DEFINE b == Bytes2(w)
           x == b[1]
           y == b[2]
           v == t.pmt
           z == [v EXCEPT ![3] = x, ![4] = y]
<1>1. x \in Byte /\ y \in Byte /\ (n \in Bits12 => Value12(x, y) = n)
  <2>1. w = Or0xB000(n % 65536)
    BY DEF LengthWord
  <2>2. b = Bytes2(Or0xB000(n % 65536))
    BY <2>1
  <2> HIDE DEF b
  <2> QED BY <2>2, LengthBytes
<1>2. u = [t EXCEPT !.pmt[3] = x, !.pmt[4] = y]
  <2> DEFINE at == t.pmt[1] + 3
  <2>1. at = 3 /\ at + 1 = 4
    BY DEF Shape
  <2>2. u = [t EXCEPT !.pmt[at] = x, !.pmt[at + 1] = y]
    BY DEF set_section_length
  <2> HIDE DEF at, x, y
  <2> QED BY <2>1, <2>2
<1>3. v \in Seq(Byte) /\ Len(v) = 13 /\ v[1] = 0
  BY DEF Shape
<1> HIDE DEF x, y
<1>4. u = [buffer |-> t.buffer, pmt |-> z, info |-> t.info, elmts |-> t.elmts, crc |-> t.crc]
  <2>1. t = [buffer |-> t.buffer, pmt |-> v, info |-> t.info, elmts |-> t.elmts, crc |-> t.crc]
    BY DEF Shape
  <2> HIDE DEF v
  <2>2. [t EXCEPT !.pmt[3] = x, !.pmt[4] = y]
          = [buffer |-> t.buffer, pmt |-> z, info |-> t.info, elmts |-> t.elmts, crc |-> t.crc]
    <3> DEFINE a == t.buffer
               c == t.info
               d == t.elmts
               e == t.crc
               half == [v EXCEPT ![3] = x]
               s == [t EXCEPT !.pmt[3] = x]
    <3>1. t = [buffer |-> a, pmt |-> v, info |-> c, elmts |-> d, crc |-> e]
      BY <2>1
    <3>2. [t EXCEPT !.pmt[3] = x, !.pmt[4] = y] = [s EXCEPT !.pmt[4] = y]
      OBVIOUS
    <3>3. z = [half EXCEPT ![4] = y]
      OBVIOUS
    <3> HIDE DEF a, c, d, e
    <3>4. s = [buffer |-> a, pmt |-> half, info |-> c, elmts |-> d, crc |-> e]
      BY <3>1
    <3> HIDE DEF s, half, z
    <3>5. [s EXCEPT !.pmt[4] = y] = [buffer |-> a, pmt |-> z, info |-> c, elmts |-> d, crc |-> e]
      BY <3>3, <3>4
    <3> QED BY <3>2, <3>5 DEF a, c, d, e
  <2> QED BY <1>2, <2>2
<1> HIDE DEF v
<1>5. /\ z \in Seq(Byte) /\ Len(z) = 13 /\ z[1] = 0 /\ z[3] = x /\ z[4] = y
      /\ z[2] = v[2] /\ z[12] = v[12] /\ z[13] = v[13]
  <2> DEFINE half == [v EXCEPT ![3] = x]
  <2>1. half \in Seq(Byte) /\ Len(half) = 13 /\ \A j \in 1..13 : half[j] = IF j = 3 THEN x ELSE v[j]
    <3>1. 3 \in 1..13
      OBVIOUS
    <3> QED BY <1>1, <1>3, <3>1, OtherByte
  <2>2. z = [half EXCEPT ![4] = y]
    BY <1>3
  <2> HIDE DEF half, z
  <2>3. 4 \in 1..13
    OBVIOUS
  <2>4. z \in Seq(Byte) /\ Len(z) = 13 /\ \A j \in 1..13 : z[j] = IF j = 4 THEN y ELSE half[j]
    BY <1>1, <2>1, <2>2, <2>3, OtherByte, SMTT(30)
  <2> QED BY <1>3, <2>1, <2>4
<1> HIDE DEF z
<1>6. /\ u.buffer = t.buffer /\ u.pmt = z /\ u.info = t.info /\ u.elmts = t.elmts /\ u.crc = t.crc
      /\ u = [buffer |-> u.buffer, pmt |-> u.pmt, info |-> u.info, elmts |-> u.elmts, crc |-> u.crc]
  BY <1>4
<1>7. Shape(u)
  <2>1. /\ t.info \in Seq(Descriptor) /\ t.elmts \in Seq(Element) /\ DistinctTags(t.info)
        /\ v[2] = 2 /\ v[12] \in InfoBytes
    BY DEF Shape, v
  <2> QED BY <1>5, <1>6, <2>1 DEF Shape
<1>8. n \in Bits12 => Value12(u.pmt[3], u.pmt[4]) = n
  BY <1>1, <1>5, <1>6
<1>9. u.pmt[12] = t.pmt[12] /\ u.pmt[13] = t.pmt[13]
  BY <1>5, <1>6 DEF v
<1> QED
  BY <1>6, <1>7, <1>8, <1>9 DEF Restated

\* What a table says depends on its header, its descriptors and its elements.
LEMMA SameParts ==
    ASSUME NEW t, NEW u, Shape(t), Shape(u), u.info = t.info, u.elmts = t.elmts,
           u.pmt[12] = t.pmt[12], u.pmt[13] = t.pmt[13]
    PROVE  /\ programInfoLength(u) = programInfoLength(t) /\ Info(u) = Info(t)
           /\ LostInfo(u) <=> LostInfo(t)
           /\ u.pmt = t.pmt => Covered(u) = Covered(t)
<1>1. programInfoLength(u) = programInfoLength(t)
  BY InfoFacts
<1>2. Info(u) = Info(t)
  BY <1>1 DEF Info
<1>3. LostInfo(u) <=> LostInfo(t)
  BY <1>1 DEF LostInfo
<1>4. ASSUME u.pmt = t.pmt PROVE Covered(u) = Covered(t)
  BY <1>1, <1>4 DEF Covered
<1> QED
  BY <1>1, <1>2, <1>3, <1>4

\* calcCRC of a table that can be written.
LEMMA Checked ==
    ASSUME NEW t, Shape(t)
    PROVE  LET u == calcCRC(t)
           IN  /\ Shape(u) /\ u.pmt = t.pmt /\ u.info = t.info /\ u.elmts = t.elmts
               /\ u.crc = Covered(u)
<1> DEFINE a == t.buffer
           b == t.pmt
           c == t.info
           d == t.elmts
           e == t.crc
           f == Covered(t)
           u == calcCRC(t)
<1>1. t = [buffer |-> a, pmt |-> b, info |-> c, elmts |-> d, crc |-> e]
  BY DEF Shape
<1>2. u = [t EXCEPT !.crc = f]
  BY DEF calcCRC
<1> HIDE DEF a, b, c, d, e, f, u
<1>3. u = [buffer |-> a, pmt |-> b, info |-> c, elmts |-> d, crc |-> f]
  BY <1>1, <1>2
<1>4. u.buffer = a /\ u.pmt = b /\ u.info = c /\ u.elmts = d /\ u.crc = f
  BY <1>3
<1>5. u = [buffer |-> u.buffer, pmt |-> u.pmt, info |-> u.info, elmts |-> u.elmts, crc |-> u.crc]
  BY <1>3, <1>4
<1>6. u.pmt = t.pmt /\ u.info = t.info /\ u.elmts = t.elmts /\ u.crc = Covered(t)
  BY <1>4 DEF b, c, d, f
<1>7. Shape(u)
  BY <1>5, <1>6 DEF Shape
<1>8. Covered(u) = Covered(t)
  BY <1>6, <1>7, SameParts
<1> QED
  BY <1>6, <1>7, <1>8 DEF u

LEMMA ElementsReplaced ==
    ASSUME NEW t, Shape(t), NEW es \in Seq(Element)
    PROVE  LET u == [t EXCEPT !.elmts = es]
           IN  Shape(u) /\ u.pmt = t.pmt /\ u.info = t.info /\ u.elmts = es /\ u.crc = t.crc
<1> DEFINE a == t.buffer
           b == t.pmt
           c == t.info
           d == t.elmts
           e == t.crc
           u == [t EXCEPT !.elmts = es]
<1>1. t = [buffer |-> a, pmt |-> b, info |-> c, elmts |-> d, crc |-> e]
  BY DEF Shape
<1> HIDE DEF a, b, c, d, e
<1>3. u = [buffer |-> a, pmt |-> b, info |-> c, elmts |-> es, crc |-> e]
  BY <1>1
<1> HIDE DEF u
<1>4. u.buffer = a /\ u.pmt = b /\ u.info = c /\ u.elmts = es /\ u.crc = e
  BY <1>3
<1>5. u = [buffer |-> u.buffer, pmt |-> u.pmt, info |-> u.info, elmts |-> u.elmts, crc |-> u.crc]
  BY <1>3, <1>4
<1>6. u.pmt = t.pmt /\ u.info = t.info /\ u.elmts = es /\ u.crc = t.crc
  BY <1>4 DEF b, c, e
<1>7. Shape(u)
  BY <1>5, <1>6 DEF Shape
<1> QED
  BY <1>6, <1>7 DEF u

\* calcLen and calcCRC of a table with other elements: it states its length and has its CRC.
LEMMA Remade ==
    ASSUME NEW t, Shape(t), NEW es \in Seq(Element)
    PROVE  LET u == calcCRC(calcLen([t EXCEPT !.elmts = es]))
           IN  /\ Shape(u) /\ u.elmts = es /\ u.crc = Covered(u)
               /\ u.info = t.info /\ programInfoLength(u) = programInfoLength(t)
               /\ Len(serialize(u)) = 17 + Len(Info(t)) + Total(Taken(es))
               /\ Len(serialize(u)) <= MaxSize => LostInfo(u) \/ StatesItsLength(u)
<1> DEFINE s == [t EXCEPT !.elmts = es]
           p == programInfoLength(t)
           k == Total(Taken(es))
           n == (13 + k) + p
           m == calcLen(s)
           u == calcCRC(m)
<1>1. Shape(s) /\ s.pmt = t.pmt /\ s.info = t.info /\ s.elmts = es
  BY ElementsReplaced
<1>2. programInfoLength(s) = p
  BY <1>1 DEF programInfoLength
<1>3. k \in Nat
  BY TakenType, TotalNat
<1>4. p \in Nat
  <2>1. p \in Bits12
    BY InfoFacts
  <2> HIDE DEF p
  <2> QED BY <2>1 DEF Bits12
<1> HIDE DEF s
<1>5. m = set_section_length(s, Or0xB000(n % 65536))
  BY <1>1, <1>2 DEF calcLen, Taken
<1> HIDE DEF k, p
<1>6. n \in Nat
  BY <1>3, <1>4
<1> HIDE DEF n, m
<1>7. /\ Shape(m) /\ m.elmts = s.elmts /\ m.info = s.info
      /\ m.pmt[12] = s.pmt[12] /\ m.pmt[13] = s.pmt[13]
      /\ n \in Bits12 => Value12(m.pmt[3], m.pmt[4]) = n
  <2> DEFINE w == LengthWord(n)
  <2>1. w = LengthWord(n) /\ m = set_section_length(s, w)
    BY <1>5 DEF LengthWord
  <2> HIDE DEF w
  <2>2. Shape(s) /\ n \in Nat
    BY <1>1, <1>6
  <2>3. Restated(m, s, n)
    BY <2>1, <2>2, LengthWritten, Zenon
  <2> QED BY <2>3 DEF Restated
<1>8. Shape(u) /\ u.pmt = m.pmt /\ u.info = m.info /\ u.elmts = m.elmts /\ u.crc = Covered(u)
  BY <1>7, Checked
<1> HIDE DEF u
<1>9. /\ u.info = t.info /\ u.elmts = es
      /\ u.pmt[12] = t.pmt[12] /\ u.pmt[13] = t.pmt[13]
      /\ n \in Bits12 => Value12(u.pmt[3], u.pmt[4]) = n
  BY <1>1, <1>7, <1>8
<1>10. programInfoLength(u) = p /\ Info(u) = Info(s) /\ Info(s) = Info(t)
  <2>1. u.info = s.info /\ u.elmts = s.elmts /\ u.pmt[12] = s.pmt[12] /\ u.pmt[13] = s.pmt[13]
    BY <1>7, <1>8
  <2>2. programInfoLength(u) = programInfoLength(s) /\ Info(u) = Info(s)
    BY <1>1, <1>8, <2>1, SameParts
  <2>3. Info(s) = Info(t)
    BY <1>1, <1>2 DEF Info, p
  <2> QED BY <1>2, <2>2, <2>3
<1>11. Len(serialize(u)) = 17 + Len(Info(t)) + k
  BY <1>8, <1>9, <1>10, SizeOf DEF k
<1>12. ASSUME Len(serialize(u)) <= MaxSize, ~LostInfo(u) PROVE StatesItsLength(u)
  <2>1. Len(Info(t)) = p
    BY <1>8, <1>10, <1>12, InfoFacts
  <2>2. Len(serialize(u)) = (17 + p) + k
    BY <1>11, <2>1
  <2>3. n \in Bits12
    BY <1>3, <1>4, <1>12, <2>2 DEF Bits12, MaxSize, n
  <2>4. Short(u.pmt, u.pmt[1] + 2, 4096, 0) = Value12(u.pmt[3], u.pmt[4])
    BY <1>8, HeaderBytes DEF Shape
  <2>5. Len(serialize(u)) - 4 = n
    BY <1>3, <1>4, <2>2 DEF n
  <2> QED BY <1>9, <2>3, <2>4, <2>5 DEF StatesItsLength
<1> QED
  BY <1>8, <1>9, <1>10, <1>11, <1>12 DEF u, m, s, p, k

-----------------------------------------------------------------------------
\* One more element takes so many more bytes.
LEMMA TakenAppend ==
    ASSUME NEW es \in Seq(Element), NEW e \in Element
    PROVE  /\ Append(es, e) \in Seq(Element)
           /\ Total(Taken(Append(es, e))) = Total(Taken(es)) + (5 + ES_info_length(e))
<1> DEFINE n == Len(es)
           x == 5 + ES_info_length(e)
           a == Append(es, e)
           b == Append(Taken(es), x)
<1>1. a \in Seq(Element) /\ Len(a) = n + 1 /\ a[n + 1] = e /\ \A k \in 1..n : a[k] = es[k]
  BY AppendProperties
<1>2. n \in Nat /\ DOMAIN es = 1..n /\ DOMAIN a = 1..(n + 1)
  BY <1>1, LenProperties
<1>3. x \in Nat
  <2>1. \A m \in Nat : 5 + m \in Nat
    OBVIOUS
  <2> QED BY <2>1, InfoLength
<1>4. Taken(es) \in Seq(Nat) /\ Len(Taken(es)) = n
  BY TakenType
<1>5. /\ b \in Seq(Nat) /\ Len(b) = n + 1 /\ b[n + 1] = x
      /\ \A k \in 1..n : b[k] = Taken(es)[k]
  BY <1>3, <1>4, AppendProperties
<1>6. Taken(a) \in Seq(Nat) /\ Len(Taken(a)) = n + 1
  BY <1>1, TakenType
<1>7. \A k \in 1..(n + 1) : Taken(a)[k] = b[k]
  <2>1. \A k \in 1..(n + 1) : Taken(a)[k] = 5 + ES_info_length(a[k])
    BY <1>2 DEF Taken
  <2>2. \A k \in 1..n : Taken(es)[k] = 5 + ES_info_length(es[k])
    BY <1>2 DEF Taken
  <2> HIDE DEF a, b, n
  <2>3. \A k \in 1..(n + 1) : k \in 1..n \/ k = n + 1
    BY <1>2
  <2> QED BY <1>1, <1>5, <2>1, <2>2, <2>3
<1>8. n + 1 \in Nat /\ DOMAIN Taken(a) = 1..(n + 1) /\ DOMAIN b = 1..(n + 1)
  BY <1>2, <1>5, <1>6, LenProperties
<1>9. Taken(a) = b
  BY <1>5, <1>6, <1>7, <1>8, SameSeq
<1>10. Total(b) = Total(Taken(es)) + x
  BY <1>3, <1>4, TotalAppend
<1> QED
  BY <1>1, <1>9, <1>10

\* A sequence of numbers without one of them has no greater sum.
LEMMA TotalWithout ==
    ASSUME NEW s \in Seq(Nat), NEW i \in 1..Len(s)
    PROVE  RemoveAt(s, i) \in Seq(Nat) /\ Total(RemoveAt(s, i)) <= Total(s)
<1> DEFINE n == Len(s)
           a == SubSeq(s, 1, i - 1)
           b == SubSeq(s, i + 1, n)
           c == SubSeq(s, 1, i)
<1>1. n \in Nat /\ i \in Nat /\ i > 0 /\ i <= n /\ \A k \in 1..n : s[k] \in Nat
  BY LenProperties, ElementOfSeq
<1>2. /\ a \in Seq(Nat) /\ Len(a) = i - 1 /\ \A k \in 1..(i - 1) : a[k] = s[k]
  <2>1. 1 \in Int /\ i - 1 \in Int /\ \A k \in 1..(i - 1) : s[k] \in Nat
    BY <1>1
  <2>2. /\ a \in Seq(Nat) /\ Len(a) = IF 1 <= i - 1 THEN (i - 1) - 1 + 1 ELSE 0
        /\ \A k \in 1..((i - 1) - 1 + 1) : a[k] = s[1 + k - 1]
    BY <2>1, SubSeqProperties
  <2>3. \A k \in 1..(i - 1) : k \in 1..((i - 1) - 1 + 1) /\ 1 + k - 1 = k
    BY <1>1
  <2> HIDE DEF a
  <2> QED BY <1>1, <2>2, <2>3
<1>3. b \in Seq(Nat)
  <2>1. i + 1 \in Int /\ n \in Int /\ \A k \in (i + 1)..n : s[k] \in Nat
    BY <1>1
  <2> QED BY <2>1, SubSeqProperties
<1>4. /\ c \in Seq(Nat) /\ Len(c) = i /\ \A k \in 1..i : c[k] = s[k]
  <2>1. 1 \in Int /\ i \in Int /\ \A k \in 1..i : s[k] \in Nat
    BY <1>1
  <2>2. /\ c \in Seq(Nat) /\ Len(c) = IF 1 <= i THEN i - 1 + 1 ELSE 0
        /\ \A k \in 1..(i - 1 + 1) : c[k] = s[1 + k - 1]
    BY <2>1, SubSeqProperties
  <2>3. \A k \in 1..i : k \in 1..(i - 1 + 1) /\ 1 + k - 1 = k
    BY <1>1
  <2> HIDE DEF c
  <2> QED BY <1>1, <2>2, <2>3
<1>5. s = c \o b
  <2>1. 1 \in 1..(n + 1) /\ i \in 0..n /\ n \in i..n
    BY <1>1
  <2>2. SubSeq(s, 1, i) \o SubSeq(s, i + 1, n) = SubSeq(s, 1, n)
    BY <2>1, ConcatAdjacentSubSeq
  <2>3. SubSeq(s, 1, n) = s
    BY SubSeqFull
  <2> QED BY <2>2, <2>3
<1>6. s[i] \in Nat
  BY <1>1
<1> HIDE DEF a, b, c
<1>7. c = Append(a, s[i])
  <2>1. /\ Append(a, s[i]) \in Seq(Nat) /\ Len(Append(a, s[i])) = i
        /\ Append(a, s[i])[i] = s[i] /\ \A k \in 1..(i - 1) : Append(a, s[i])[k] = a[k]
    <3>1. /\ Append(a, s[i]) \in Seq(Nat) /\ Len(Append(a, s[i])) = Len(a) + 1
          /\ Append(a, s[i])[Len(a) + 1] = s[i]
          /\ \A k \in 1..Len(a) : Append(a, s[i])[k] = a[k]
      BY <1>2, <1>6, AppendProperties
    <3> QED BY <1>1, <1>2, <3>1
  <2>2. \A k \in 1..i : k \in 1..(i - 1) \/ k = i
    BY <1>1
  <2>3. \A k \in 1..i : Append(a, s[i])[k] = c[k]
    BY <1>2, <1>4, <2>1, <2>2
  <2>4. DOMAIN c = 1..i /\ DOMAIN Append(a, s[i]) = 1..i
    BY <1>4, <2>1, LenProperties
  <2> QED BY <1>1, <1>4, <2>1, <2>3, <2>4, SameSeq
<1>8. Total(c) = Total(a) + s[i] /\ Total(a) \in Nat /\ Total(b) \in Nat /\ Total(c) \in Nat
  BY <1>2, <1>3, <1>4, <1>6, <1>7, TotalAppend, TotalNat
<1>9. Total(s) = Total(c) + Total(b)
  BY <1>3, <1>4, <1>5, TotalConcat
<1>10. Total(a \o b) = Total(a) + Total(b) /\ a \o b \in Seq(Nat)
  BY <1>2, <1>3, TotalConcat, ConcatProperties
<1>11. RemoveAt(s, i) = a \o b
  BY DEF RemoveAt, a, b, n
<1> QED
  BY <1>6, <1>8, <1>9, <1>10, <1>11

\* What is left of a sequence.
LEMMA Without ==
    ASSUME NEW S, NEW s \in Seq(S), NEW i \in 1..Len(s)
    PROVE  /\ RemoveAt(s, i) \in Seq(S) /\ Len(RemoveAt(s, i)) = Len(s) - 1
           /\ \A k \in 1..(Len(s) - 1) : RemoveAt(s, i)[k] = s[IF k < i THEN k ELSE k + 1]
<1> DEFINE n == Len(s)
           m == i - 1
           a == SubSeq(s, 1, m)
           b == SubSeq(s, i + 1, n)
<1>1. /\ n \in Nat /\ i \in Nat /\ i > 0 /\ i <= n /\ m \in Nat /\ m = i - 1
      /\ \A k \in 1..n : s[k] \in S
  BY LenProperties, ElementOfSeq
<1>2. /\ a \in Seq(S) /\ Len(a) = m /\ \A k \in 1..m : a[k] = s[k]
  <2> HIDE DEF m
  <2>1. 1 \in Int /\ m \in Int /\ \A k \in 1..m : s[k] \in S
    BY <1>1
  <2>2. /\ a \in Seq(S) /\ Len(a) = IF 1 <= m THEN m - 1 + 1 ELSE 0
        /\ \A k \in 1..(m - 1 + 1) : a[k] = s[1 + k - 1]
    BY <2>1, SubSeqProperties
  <2>3. \A k \in 1..m : k \in 1..(m - 1 + 1) /\ 1 + k - 1 = k
    BY <1>1
  <2> HIDE DEF a
  <2> QED BY <1>1, <2>2, <2>3
<1>3. b \in Seq(S) /\ Len(b) = n - i /\ \A k \in 1..(n - i) : b[k] = s[i + k]
  <2>1. i + 1 \in Int /\ n \in Int /\ \A k \in (i + 1)..n : s[k] \in S
    BY <1>1
  <2>2. /\ b \in Seq(S) /\ Len(b) = IF i + 1 <= n THEN n - (i + 1) + 1 ELSE 0
        /\ \A k \in 1..(n - (i + 1) + 1) : b[k] = s[(i + 1) + k - 1]
    BY <2>1, SubSeqProperties
  <2>3. \A k \in 1..(n - i) : k \in 1..(n - (i + 1) + 1) /\ (i + 1) + k - 1 = i + k
    BY <1>1
  <2> HIDE DEF b
  <2>4. Len(b) = n - i
    BY <1>1, <2>2
  <2> QED BY <2>2, <2>3, <2>4
<1> HIDE DEF a, b, m
<1>4. /\ a \o b \in Seq(S) /\ Len(a \o b) = m + (n - i)
      /\ \A k \in 1..(m + (n - i)) : (a \o b)[k] = IF k <= m THEN a[k] ELSE b[k - m]
  <2>1. /\ a \o b \in Seq(S) /\ Len(a \o b) = Len(a) + Len(b)
        /\ \A k \in 1..(Len(a) + Len(b)) : (a \o b)[k] = IF k <= Len(a) THEN a[k] ELSE b[k - Len(a)]
    BY <1>2, <1>3, ConcatProperties
  <2> QED BY <1>2, <1>3, <2>1
<1>5. m + (n - i) = n - 1
  BY <1>1
<1>6. ASSUME NEW k \in 1..(n - 1) PROVE (a \o b)[k] = s[IF k < i THEN k ELSE k + 1]
  <2>1. (a \o b)[k] = IF k <= m THEN a[k] ELSE b[k - m]
    BY <1>4, <1>5
  <2>2. CASE k < i
    <3>1. k <= m /\ k \in 1..m
      BY <1>1, <2>2
    <3> QED BY <1>2, <2>1, <2>2, <3>1
  <2>3. CASE ~(k < i)
    <3>1. ~(k <= m) /\ k - m \in 1..(n - i) /\ i + (k - m) = k + 1
      BY <1>1, <2>3
    <3> QED BY <1>3, <2>1, <2>3, <3>1
  <2> QED BY <2>2, <2>3
<1>7. RemoveAt(s, i) = a \o b
  BY DEF RemoveAt, a, b, m
<1> QED
  BY <1>4, <1>5, <1>6, <1>7

\* One element less takes no more bytes.
LEMMA TakenWithout ==
    ASSUME NEW es \in Seq(Element), NEW i \in 1..Len(es)
    PROVE  /\ RemoveAt(es, i) \in Seq(Element)
           /\ Total(Taken(RemoveAt(es, i))) <= Total(Taken(es))
<1> DEFINE n == Len(es) - 1
           a == RemoveAt(es, i)
           w == Taken(es)
           b == RemoveAt(w, i)
<1>1. Len(es) \in Nat /\ n \in Nat /\ DOMAIN es = 1..Len(es)
  BY LenProperties
<1>2. /\ a \in Seq(Element) /\ Len(a) = n
      /\ \A k \in 1..n : a[k] = es[IF k < i THEN k ELSE k + 1]
  BY Without
<1>3. w \in Seq(Nat) /\ Len(w) = Len(es)
  BY TakenType
<1>4. /\ b \in Seq(Nat) /\ Len(b) = n
      /\ \A k \in 1..n : b[k] = w[IF k < i THEN k ELSE k + 1]
  <2> HIDE DEF w
  <2>1. i \in 1..Len(w)
    BY <1>3
  <2> QED BY <1>3, <2>1, Without
<1>5. Taken(a) \in Seq(Nat) /\ Len(Taken(a)) = n
  BY <1>2, TakenType
<1>6. \A k \in 1..n : Taken(a)[k] = b[k]
  <2>1. \A k \in 1..Len(es) : w[k] = 5 + ES_info_length(es[k])
    BY <1>1 DEF Taken
  <2>2. DOMAIN a = 1..n
    BY <1>2, LenProperties
  <2> HIDE DEF a
  <2>3. \A k \in 1..n : Taken(a)[k] = 5 + ES_info_length(a[k])
    BY <2>2 DEF Taken
  <2>4. \A k \in 1..n : (IF k < i THEN k ELSE k + 1) \in 1..Len(es)
    BY <1>1
  <2> HIDE DEF w, b
  <2> QED BY <1>2, <1>4, <2>1, <2>3, <2>4
<1>7. DOMAIN Taken(a) = 1..n /\ DOMAIN b = 1..n
  BY <1>4, <1>5, LenProperties
<1>8. Taken(a) = b
  BY <1>1, <1>4, <1>5, <1>6, <1>7, SameSeq
<1>9. Total(b) <= Total(w)
  BY <1>3, TotalWithout
<1> QED
  BY <1>2, <1>8, <1>9

\* removeProgramElement leaves out one element, or none.
Rest(es, e) == RemoveFirstMatch(es, LAMBDA x : x.type = e.type /\ x.pid = e.pid)

LEMMA Removed ==
    ASSUME NEW es \in Seq(Element), NEW e
    PROVE  Rest(es, e) = es \/ \E i \in 1..Len(es) : Rest(es, e) = RemoveAt(es, i)
<1> DEFINE I == {i \in 1..Len(es) : es[i].type = e.type /\ es[i].pid = e.pid}
           left == Rest(es, e)
<1>1. left = IF \E i \in 1..Len(es) : es[i].type = e.type /\ es[i].pid = e.pid
             THEN RemoveAt(es, IF I # {} THEN Min(I) ELSE 0) ELSE es
  BY DEF Rest, RemoveFirstMatch, SelectInSeq
<1>2. ASSUME I # {} PROVE Min(I) \in 1..Len(es)
  <2>1. I \subseteq Nat /\ I \subseteq 1..Len(es)
    BY LenProperties
  <2> HIDE DEF I
  <2>2. \E x \in I : \A y \in I : x <= y
    BY <1>2, <2>1, LeastNat
  <2>3. Min(I) \in I
    BY <2>2 DEF Min
  <2> QED BY <2>1, <2>3
<1> HIDE DEF left
<1>3. ASSUME \E i \in 1..Len(es) : es[i].type = e.type /\ es[i].pid = e.pid PROVE I # {}
  BY <1>3
<1> QED
  BY <1>1, <1>2, <1>3 DEF left

-----------------------------------------------------------------------------
(***************************************************************************)
(* The inductive invariant: the table can be written, it is not longer     *)
(* than its length can state, and it is coherent.                          *)
(***************************************************************************)
TableInv == Shape(table) /\ Len(serialize(table)) <= MaxSize /\ Coherent

\* A read gives a byte.
LEMMA AtByte ==
    ASSUME NEW v \in Seq(Byte), NEW j \in Byte, NEW k \in Nat
    PROVE  At(v, k, j) \in Byte
<1>1. CASE k < Len(v)
  <2>1. Len(v) \in Nat
    BY LenProperties
  <2>2. k + 1 \in 1..Len(v)
    BY <1>1, <2>1
  <2>3. v[k + 1] \in Byte
    BY <2>2, ElementOfSeq
  <2> QED BY <1>1, <2>3 DEF At
<1>2. CASE ~(k < Len(v))
  BY <1>2 DEF At
<1> QED
  BY <1>1, <1>2

\* The header that parse() takes from a section without a pointer_field, and what it
\* finds behind it.
HeaderOf(v, j) == [Take(v, 0, 13, j) EXCEPT ![12] = InfoLengthByte(@)]
InfoOf(v, j) == Descriptors(v, 13, 13 + Short(v, 11, 1024, j), j)
ElementsOf(v, j) == ElementsFrom(v, InfoOf(v, j).end, Short(v, 2, 1024, j), j)

Taking(t, v, j) ==
    /\ t.pmt = Cat(<<>>, HeaderOf(v, j))
    /\ t.info = OfEachTag(InfoOf(v, j).list)
    /\ t.elmts = Cat(<<>>, ElementsOf(v, j))
    /\ t.crc = Covered(t)

LEMMA HeaderIs ==
    ASSUME NEW v \in Seq(Byte), NEW j \in Byte
    PROVE  LET h == HeaderOf(v, j)
           IN  /\ h \in Seq(Byte) /\ Len(h) = 13 /\ Cat(<<>>, h) = h
               /\ \A k \in 1..13 : h[k] = IF k = 12 THEN InfoLengthByte(At(v, 11, j)) ELSE At(v, k - 1, j)
               /\ h[12] \in InfoBytes
<1> DEFINE n == 13
           f == [k \in 1..n |-> At(v, 0 + k - 1, j)]
           g == [k \in 1..n |-> IF k = 12 THEN InfoLengthByte(At(v, 11, j)) ELSE At(v, k - 1, j)]
           h == HeaderOf(v, j)
<1>1. \A k \in 1..n : At(v, k - 1, j) \in Byte
  <2>1. \A k \in 1..n : k - 1 \in Nat
    OBVIOUS
  <2> HIDE DEF n
  <2> QED BY <2>1, AtByte
<1>2. \A b \in Byte : InfoLengthByte(b) \in Byte /\ InfoLengthByte(b) \in InfoBytes
  BY DEF InfoLengthByte, Byte, InfoBytes
<1>3. \A k \in 1..n : f[k] = At(v, k - 1, j)
  <2>1. \A k \in 1..n : 0 + k - 1 = k - 1
    OBVIOUS
  <2> QED BY <2>1
<1>4. f \in Seq(Byte) /\ Len(f) = n
  <2>1. n \in Nat /\ DOMAIN f = 1..n /\ f = [k \in DOMAIN f |-> f[k]]
    OBVIOUS
  <2> HIDE DEF f, n
  <2>2. \A k \in 1..n : f[k] \in Byte
    BY <1>1, <1>3
  <2> QED BY <2>1, <2>2, IsSeq
<1>5. Take(v, 0, 13, j) = f
  <2>1. Take(v, 0, 13, j) = f \o <<>>
    BY DEF Take
  <2> HIDE DEF f
  <2> QED BY <1>4, <2>1, ConcatEmptySeq
<1>6. At(v, 11, j) \in Byte /\ f[12] = At(v, 11, j)
  <2>1. 12 \in 1..n /\ 12 - 1 = 11
    OBVIOUS
  <2> QED BY <1>1, <1>3, <2>1
<1>7. h = g
  <2>1. h = [f EXCEPT ![12] = InfoLengthByte(@)]
    BY <1>5 DEF HeaderOf
  <2>2. h = [k \in 1..n |-> IF k = 12 THEN InfoLengthByte(f[12]) ELSE f[k]]
    <3>1. DOMAIN f = 1..n
      OBVIOUS
    <3> HIDE DEF f, n, h
    <3> QED BY <2>1, <3>1
  <2> HIDE DEF f, h, n
  <2> QED BY <1>3, <1>6, <2>2
<1>8. \A k \in 1..n : g[k] = IF k = 12 THEN InfoLengthByte(At(v, 11, j)) ELSE At(v, k - 1, j)
  OBVIOUS
<1>9. g \in Seq(Byte) /\ Len(g) = n
  <2>1. n \in Nat /\ DOMAIN g = 1..n /\ g = [k \in DOMAIN g |-> g[k]]
    OBVIOUS
  <2> HIDE DEF g, n
  <2>2. \A k \in 1..n : g[k] \in Byte
    BY <1>1, <1>2, <1>6, <1>8
  <2> QED BY <2>1, <2>2, IsSeq
<1>10. g[12] \in InfoBytes
  <2>1. 12 \in 1..n
    OBVIOUS
  <2>2. g[12] = InfoLengthByte(At(v, 11, j))
    BY <1>8, <2>1
  <2> HIDE DEF g
  <2> QED BY <1>2, <1>6, <2>2
<1>11. Cat(<<>>, g) = g
  <2> HIDE DEF g
  <2> QED BY <1>9, ConcatEmptySeq DEF Cat
<1> HIDE DEF h, g
<1> QED
  BY <1>7, <1>8, <1>9, <1>10, <1>11 DEF h

\* A table that nothing was read of yet.
Buffered(v) == [NewTable EXCEPT !.buffer = v]

LEMMA BufferedFacts ==
    ASSUME NEW v
    PROVE  /\ Buffered(v) = [buffer |-> v, pmt |-> <<>>, info |-> <<>>, elmts |-> <<>>, crc |-> <<>>]
           /\ Buffered(v).buffer = v /\ Buffered(v).pmt = <<>>
BY DEF Buffered, NewTable

LEMMA AddedTo ==
    ASSUME NEW v, NEW d
    PROVE  Add(Buffered(v), d) = Buffered(Cat(v, d))
<1> DEFINE a == v \o d
<1>1. Add(Buffered(v), d) = [Buffered(v) EXCEPT !.buffer = a]
  BY BufferedFacts DEF Add
<1>2. Cat(v, d) = a
  BY DEF Cat
<1> HIDE DEF a
<1> QED
  BY <1>1, <1>2 DEF Buffered, NewTable

LEMMA AddedFirst ==
    ASSUME NEW v \in Seq(Byte)
    PROVE  Add(NewTable, v) = Buffered(v)
<1>1. NewTable = Buffered(<<>>)
  BY DEF Buffered, NewTable
<1>2. Cat(<<>>, v) = v
  BY ConcatEmptySeq DEF Cat
<1> QED
  BY <1>1, <1>2, AddedTo

\* What parse() makes of a section without a pointer_field.
LEMMA AcceptedParts ==
    ASSUME NEW v \in Seq(Byte), v[1] = 0, NEW j \in Byte
    PROVE  LET t == Accepted(Buffered(v), j)
           IN  /\ t = [buffer |-> v, pmt |-> t.pmt, info |-> t.info, elmts |-> t.elmts, crc |-> t.crc]
               /\ Taking(t, v, j)
<1> DEFINE p == Buffered(v)
           t == Accepted(p, j)
           cur == TableAt(v)
           infoAt == cur + 12
           ds == Descriptors(v, infoAt, infoAt + Short(v, cur + 10, 1024, j), j)
           crcPos == cur + 3 + Short(v, cur + 1, 1024, j) - 4
           header == [Take(v, 0, infoAt, j) EXCEPT ![infoAt - 1] = InfoLengthByte(@)]
           b == Cat(<<>>, header)
           c == FoldLeft(addDescriptor, <<>>, ds.list)
           d == Cat(<<>>, ElementsFrom(v, ds.end, crcPos, j))
           q == [p EXCEPT !.pmt = b, !.info = c, !.elmts = d]
<1>1. /\ p = [buffer |-> v, pmt |-> <<>>, info |-> <<>>, elmts |-> <<>>, crc |-> <<>>]
      /\ p.buffer = v /\ p.pmt = <<>> /\ p.info = <<>> /\ p.elmts = <<>>
  BY BufferedFacts
<1>2. t = calcCRC(q)
  <2> HIDE DEF p
  <2> QED BY <1>1 DEF Accepted, Cat
<1>3. cur = 1 /\ infoAt = 13 /\ infoAt - 1 = 12 /\ cur + 10 = 11 /\ cur + 1 = 2
  BY DEF TableAt
<1>4. header = HeaderOf(v, j)
  BY <1>3 DEF HeaderOf
<1>5. ds = InfoOf(v, j)
  BY <1>3 DEF InfoOf
<1>6. crcPos = Short(v, 2, 1024, j)
  <2> DEFINE n == Short(v, 2, 1024, j)
             m == 1024
             k == 2
  <2>1. k \in Nat /\ m \in Nat \ {0} /\ Byte \subseteq Nat
    BY DEF Byte
  <2>2. v \in Seq(Nat) /\ j \in Nat
    <3>1. j \in Nat
      BY <2>1
    <3>2. v \in Seq(Nat)
      <4>1. Byte \subseteq Nat
        BY <2>1
      <4>2. Seq(Byte) \subseteq Seq(Nat)
        BY <4>1, SeqMonotonic
      <4> QED BY <4>2
    <3> QED BY <3>1, <3>2
  <2> HIDE DEF k, m
  <2>3. Short(v, k, m, j) \in Nat
    BY <2>1, <2>2, ShortNat
  <2>4. n \in Nat
    BY <2>3 DEF k, m
  <2>5. crcPos = cur + 3 + n - 4
    BY <1>3
  <2> HIDE DEF n, cur, crcPos
  <2>6. crcPos = n
    BY <1>3, <2>4, <2>5
  <2> QED BY <2>6 DEF n
<1>7. c = OfEachTag(InfoOf(v, j).list) /\ d = Cat(<<>>, ElementsOf(v, j))
  BY <1>5, <1>6 DEF OfEachTag, ElementsOf
<1>8. b = Cat(<<>>, HeaderOf(v, j))
  BY <1>4
<1> HIDE DEF p, b, c, d, header, ds, crcPos
<1>9. q = [buffer |-> v, pmt |-> b, info |-> c, elmts |-> d, crc |-> <<>>]
  <2> DEFINE x == [p EXCEPT !.pmt = b]
             y == [x EXCEPT !.info = c]
  <2>1. q = [y EXCEPT !.elmts = d]
    OBVIOUS
  <2>2. x = [buffer |-> v, pmt |-> b, info |-> <<>>, elmts |-> <<>>, crc |-> <<>>]
    BY <1>1
  <2> HIDE DEF x, q
  <2>3. y = [buffer |-> v, pmt |-> b, info |-> c, elmts |-> <<>>, crc |-> <<>>]
    BY <2>2
  <2> HIDE DEF y
  <2> QED BY <2>1, <2>3
<1> HIDE DEF q, t
<1>10. t = [buffer |-> v, pmt |-> b, info |-> c, elmts |-> d, crc |-> Covered(q)]
  <2> DEFINE f == Covered(q)
  <2>1. t = [q EXCEPT !.crc = f]
    BY <1>2 DEF calcCRC
  <2> HIDE DEF f
  <2>2. t = [buffer |-> v, pmt |-> b, info |-> c, elmts |-> d, crc |-> f]
    BY <1>9, <2>1
  <2> QED BY <2>2 DEF f
<1>11. /\ t.buffer = v /\ t.pmt = b /\ t.info = c /\ t.elmts = d /\ t.crc = Covered(q)
       /\ q.pmt = b /\ q.info = c /\ q.elmts = d
  BY <1>9, <1>10
<1>12. Covered(q) = Covered(t)
  BY <1>11 DEF Covered, programInfoLength
<1>13. Taking(t, v, j)
  BY <1>7, <1>8, <1>11, <1>12 DEF Taking
<1>14. t = [buffer |-> v, pmt |-> t.pmt, info |-> t.info, elmts |-> t.elmts, crc |-> t.crc]
  BY <1>10, <1>11
<1> QED
  BY <1>13, <1>14 DEF t, p

\* What parse() accepts has its CRC.
LEMMA SeedAccepted ==
    ASSUME NEW s \in Seeds
    PROVE  LET t == Parsed(s)
           IN  /\ Shape(t) /\ t.crc = Covered(t)
               /\ Len(serialize(t)) <= MaxSize /\ (LostInfo(t) \/ StatesItsLength(t))
<1> DEFINE t == Parsed(s)
           p == Buffered(s)
<1>1. s \in Seq(Byte) /\ s[1] = 0
  BY SeedsAssumption DEF Byte
<1>2. t = parse(p, 0).table
  BY <1>1, AddedFirst DEF Parsed
<1>3. /\ parse(p, 0).ok
      /\ t.pmt \in Seq(Byte) /\ Len(t.pmt) = 13 /\ t.pmt[1] = 0
      /\ t.info \in Seq(Descriptor) /\ DistinctTags(t.info) /\ t.elmts \in Seq(Element)
      /\ Len(serialize(t)) <= MaxSize /\ (LostInfo(t) \/ StatesItsLength(t))
  <2>1. Parsed(s) = parse(Add(NewTable, s), 0).table /\ Add(NewTable, s) = p
    BY <1>1, AddedFirst DEF Parsed
  <2> QED BY <2>1, SeedsAssumption DEF Byte
<1> HIDE DEF t
<1>4. t = Accepted(p, 0) /\ At(s, 1, 0) = 2
  <2>1. p.buffer = s /\ TableAt(s) = 1
    BY <1>1, BufferedFacts DEF TableAt
  <2> HIDE DEF p
  <2>2. ASSUME parse(p, 0).ok PROVE parse(p, 0).table = Accepted(p, 0) /\ At(s, 1, 0) = 2
    BY <2>1, <2>2 DEF parse
  <2> QED BY <1>2, <1>3, <2>2
<1>5. /\ t = [buffer |-> s, pmt |-> t.pmt, info |-> t.info, elmts |-> t.elmts, crc |-> t.crc]
      /\ Taking(t, s, 0)
  <2>1. 0 \in Byte
    BY DEF Byte
  <2> QED BY <1>1, <1>4, <2>1, AcceptedParts
<1>6. t.buffer = s
  BY <1>5
<1>7. t.pmt[2] = 2 /\ t.pmt[12] \in InfoBytes
  <2> DEFINE h == HeaderOf(s, 0)
  <2>1. 0 \in Byte /\ 2 \in 1..13 /\ 2 - 1 = 1 /\ 2 # 12
    BY DEF Byte
  <2>2. /\ Cat(<<>>, h) = h /\ h[12] \in InfoBytes
        /\ \A k \in 1..13 : h[k] = IF k = 12 THEN InfoLengthByte(At(s, 11, 0)) ELSE At(s, k - 1, 0)
    BY <1>1, <2>1, HeaderIs
  <2>3. t.pmt = Cat(<<>>, h)
    BY <1>5 DEF Taking
  <2> HIDE DEF h
  <2>4. h[2] = 2
    BY <1>4, <2>1, <2>2
  <2> QED BY <2>2, <2>3, <2>4
<1>8. Shape(t)
  BY <1>3, <1>5, <1>6, <1>7 DEF Shape
<1>9. t.crc = Covered(t)
  BY <1>5 DEF Taking
<1> QED
  BY <1>3, <1>8, <1>9 DEF t

\* addDescriptor adds none of a tag that there is.
LEMMA TagsStay ==
    ASSUME NEW S, NEW ds \in Seq(S), DistinctTags(ds), NEW d \in S
    PROVE  DistinctTags(addDescriptor(ds, d))
<1>1. CASE \E k \in 1..Len(ds) : ds[k].tag = d.tag
  BY <1>1 DEF addDescriptor
<1>2. CASE ~\E k \in 1..Len(ds) : ds[k].tag = d.tag
  <2> DEFINE w == Append(ds, d)
             n == Len(ds)
  <2>1. n \in Nat /\ Len(w) = n + 1 /\ w[n + 1] = d /\ \A i \in 1..n : w[i] = ds[i]
    BY LenProperties, AppendProperties
  <2>2. \A i, j \in 1..n : ds[i].tag = ds[j].tag => i = j
    BY DEF DistinctTags
  <2>3. addDescriptor(ds, d) = w
    BY <1>2 DEF addDescriptor
  <2> HIDE DEF w
  <2>4. ASSUME NEW i \in 1..(n + 1), NEW j \in 1..(n + 1), w[i].tag = w[j].tag PROVE i = j
    <3>1. (i = n + 1 \/ i \in 1..n) /\ (j = n + 1 \/ j \in 1..n)
      BY <2>1
    <3> QED BY <1>2, <2>1, <2>2, <2>4, <3>1
  <2> QED BY <2>1, <2>3, <2>4 DEF DistinctTags
<1> QED
  BY <1>1, <1>2

\* An element whose descriptors are added to remains one.
LEMMA Edited ==
    ASSUME NEW t, Shape(t), NEW k \in 1..Len(t.elmts), NEW d \in Descriptor
    PROVE  Shape(editElement(t, k, d))
<1> DEFINE es == t.elmts
           e == es[k]
           ds == addDescriptor(e.descs, d)
           f == [e EXCEPT !.descs = ds]
           g == [es EXCEPT ![k] = f]
<1>1. es \in Seq(Element)
  BY DEF Shape
<1>2. e \in Element
  <2> HIDE DEF es
  <2>1. k \in 1..Len(es)
    BY DEF es
  <2> QED BY <1>1, <2>1, ElementOfSeq
<1> HIDE DEF e
<1>3. ds \in Seq(Descriptor)
  <2>1. e.descs \in Seq(Descriptor)
    BY <1>2 DEF Element
  <2>2. Append(e.descs, d) \in Seq(Descriptor)
    BY <2>1, AppendProperties
  <2> QED BY <2>1, <2>2 DEF addDescriptor
<1>7. DistinctTags(ds)
  BY <1>2, ElementParts, TagsStay
<1> HIDE DEF ds
<1>4. f \in Element
  <2> DEFINE types == 0..255
             pids == 0..8191
             a == e.type
             b == e.pid
  <2>1. \A x \in [type : types, pid : pids, descs : Seq(Descriptor)] :
            DistinctTags(x.descs) => x \in Element
    <3>1. types = 0..255 /\ pids = PID
      BY DEF PID
    <3> HIDE DEF types, pids
    <3> QED BY <3>1, Zenon DEF Element, types
  <2>2. a \in types /\ b \in pids
    <3>1. a \in Byte /\ b \in Bits13
      BY <1>2, ElementParts
    <3> HIDE DEF a, b
    <3> QED BY <3>1 DEF Byte, Bits13
  <2> HIDE DEF types, pids
  <2>3. e = [type |-> a, pid |-> b, descs |-> e.descs]
    BY <1>2, ElementParts
  <2> HIDE DEF a, b
  <2>4. f = [type |-> a, pid |-> b, descs |-> ds]
    BY <2>3
  <2> HIDE DEF f
  <2>5. f \in [type : types, pid : pids, descs : Seq(Descriptor)] /\ f.descs = ds
    BY <1>3, <2>2, <2>4
  <2> QED BY <1>7, <2>1, <2>5
<1> HIDE DEF f
<1>5. g \in Seq(Element)
  <2> DEFINE n == Len(es)
  <2> HIDE DEF e, es
  <2>1. n \in Nat /\ DOMAIN es = 1..n /\ \A j \in 1..n : es[j] \in Element
    BY <1>1, LenProperties, ElementOfSeq
  <2>2. /\ DOMAIN g = 1..n /\ g = [j \in DOMAIN g |-> g[j]]
        /\ \A j \in 1..n : g[j] = IF j = k THEN f ELSE es[j]
    BY <2>1
  <2>3. \A j \in 1..n : g[j] \in Element
    BY <1>4, <2>1, <2>2
  <2> HIDE DEF g, n
  <2> QED BY <2>1, <2>2, <2>3, IsSeq
<1>6. editElement(t, k, d) = [t EXCEPT !.elmts = g]
  BY DEF editElement, Shape, g, f, e, ds, es
<1> HIDE DEF g
<1> QED
  BY <1>5, <1>6, ElementsReplaced

\* An addition.
LEMMA Added ==
    ASSUME NEW t, Shape(t), NEW e \in Element,
           Len(serialize(t)) + 5 + ES_info_length(e) <= MaxSize
    PROVE  LET u == addProgramElement(t, e)
           IN  /\ Shape(u) /\ u.crc = Covered(u) /\ Len(serialize(u)) <= MaxSize
               /\ LostInfo(u) \/ StatesItsLength(u)
<1> DEFINE es == Append(t.elmts, e)
           u == calcCRC(calcLen([t EXCEPT !.elmts = es]))
           i == Len(Info(t))
           k == Total(Taken(t.elmts))
           x == ES_info_length(e)
<1>1. t.elmts \in Seq(Element)
  BY DEF Shape
<1>2. es \in Seq(Element) /\ Total(Taken(es)) = k + (5 + x)
  BY <1>1, TakenAppend
<1>3. addProgramElement(t, e) = u
  BY DEF addProgramElement
<1> HIDE DEF es
<1>4. /\ Shape(u) /\ u.crc = Covered(u) /\ Len(serialize(u)) = 17 + i + Total(Taken(es))
      /\ Len(serialize(u)) <= MaxSize => LostInfo(u) \/ StatesItsLength(u)
  BY <1>2, Remade
<1>5. Len(serialize(t)) = 17 + i + k /\ k \in Nat /\ i \in Nat /\ x \in Nat
  BY SizeOf, InfoFacts, InfoLength
<1> HIDE DEF u, i, k, x
<1>6. Len(serialize(u)) <= MaxSize
  <2>1. MaxSize \in Nat
    BY DEF MaxSize
  <2>2. Len(serialize(t)) + 5 + x <= MaxSize
    BY DEF x
  <2> QED BY <1>2, <1>4, <1>5, <2>1, <2>2
<1> QED
  BY <1>3, <1>4, <1>6 DEF u

\* A removal, of one element or of none.
LEMMA RemovedOne ==
    ASSUME NEW t, Shape(t), NEW e, Len(serialize(t)) <= MaxSize
    PROVE  LET u == removeProgramElement(t, e)
           IN  /\ Shape(u) /\ u.crc = Covered(u) /\ Len(serialize(u)) <= MaxSize
               /\ LostInfo(u) \/ StatesItsLength(u)
<1> DEFINE es == Rest(t.elmts, e)
           u == calcCRC(calcLen([t EXCEPT !.elmts = es]))
           i == Len(Info(t))
           k == Total(Taken(t.elmts))
<1>1. t.elmts \in Seq(Element)
  BY DEF Shape
<1>2. es \in Seq(Element) /\ Total(Taken(es)) <= k /\ Total(Taken(es)) \in Nat /\ k \in Nat
  <2> DEFINE old == t.elmts
  <2>1. es = old \/ \E j \in 1..Len(old) : es = RemoveAt(old, j)
    BY <1>1, Removed
  <2> HIDE DEF es
  <2>2. es \in Seq(Element) /\ Total(Taken(es)) <= Total(Taken(old))
    <3>1. CASE es = old
      <4>1. Total(Taken(old)) \in Nat
        BY <1>1, TakenType, TotalNat
      <4> QED BY <1>1, <3>1, <4>1
    <3>2. ASSUME NEW j \in 1..Len(old), es = RemoveAt(old, j)
          PROVE  es \in Seq(Element) /\ Total(Taken(es)) <= Total(Taken(old))
      BY <1>1, <3>2, TakenWithout
    <3> QED BY <2>1, <3>1, <3>2
  <2> QED BY <1>1, <2>2, TakenType, TotalNat
<1>3. removeProgramElement(t, e) = u
  BY DEF removeProgramElement, Rest
<1> HIDE DEF es
<1>4. /\ Shape(u) /\ u.crc = Covered(u) /\ Len(serialize(u)) = 17 + i + Total(Taken(es))
      /\ Len(serialize(u)) <= MaxSize => LostInfo(u) \/ StatesItsLength(u)
  BY <1>2, Remade
<1>5. Len(serialize(t)) = 17 + i + k /\ i \in Nat
  BY SizeOf, InfoFacts
<1> HIDE DEF u, i, k
<1>6. Len(serialize(u)) <= MaxSize
  <2>1. MaxSize \in Nat
    BY DEF MaxSize
  <2> QED BY <1>2, <1>4, <1>5, <2>1
<1> QED
  BY <1>3, <1>4, <1>6 DEF u

LEMMA InitTableInv == Init => TableInv
<1> SUFFICES ASSUME Init PROVE TableInv
  OBVIOUS
<1>1. PICK s \in Seeds : table = Parsed(s)
  BY DEF Init
<1> DEFINE t == Parsed(s)
<1>2. /\ Shape(t) /\ t.crc = Covered(t)
      /\ Len(serialize(t)) <= MaxSize /\ (LostInfo(t) \/ StatesItsLength(t))
  BY SeedAccepted
<1> HIDE DEF t
<1>3. table = t
  BY <1>1 DEF t
<1> QED
  BY <1>2, <1>3 DEF TableInv, Coherent

LEMMA NextTableInv == TableInv /\ [Next]_vars => TableInv'
<1> SUFFICES ASSUME TableInv, [Next]_vars PROVE TableInv'
  OBVIOUS
<1> USE DEF TableInv
<1>1. ASSUME table' = table, edited' = edited PROVE TableInv'
  BY <1>1 DEF Coherent, StatesItsLength, LostInfo
<1>2. ASSUME NEW e \in Elements, AddProgramElement(e) PROVE TableInv'
  <2>1. e \in Element /\ Len(serialize(table)) + 5 + ES_info_length(e) <= MaxSize
    <3> DEFINE z == Len(serialize(table)) + 5 + ES_info_length(e)
    <3>1. z \in Sizes
      BY <1>2 DEF AddProgramElement
    <3> HIDE DEF z
    <3>2. z \in 0..MaxSize /\ e \in Element
      BY <3>1, BuildAssumption
    <3>3. z <= MaxSize
      BY <3>2
    <3> QED BY <3>2, <3>3 DEF z
  <2> DEFINE u == addProgramElement(table, e)
  <2>2. /\ Shape(u) /\ u.crc = Covered(u) /\ Len(serialize(u)) <= MaxSize
        /\ LostInfo(u) \/ StatesItsLength(u)
    BY <2>1, Added
  <2> HIDE DEF u
  <2>3. table' = u
    BY <1>2 DEF AddProgramElement, u
  <2> QED BY <2>2, <2>3 DEF Coherent
<1>3. ASSUME NEW e \in Elements, RemoveProgramElement(e) PROVE TableInv'
  <2> DEFINE u == removeProgramElement(table, e)
  <2>2. /\ Shape(u) /\ u.crc = Covered(u) /\ Len(serialize(u)) <= MaxSize
        /\ LostInfo(u) \/ StatesItsLength(u)
    BY RemovedOne
  <2> HIDE DEF u
  <2>3. table' = u
    BY <1>3 DEF RemoveProgramElement, u
  <2> QED BY <2>2, <2>3 DEF Coherent
<1>4. ASSUME NEW k \in 1..Len(table.elmts), NEW d \in Extra, EditElement(k, d) PROVE TableInv'
  <2>1. table' = editElement(table, k, d) /\ Len(serialize(table')) <= MaxSize
        /\ edited' = (edited \/ table' # table)
    BY <1>4 DEF EditElement
  <2>2. Shape(table')
    <3>1. d \in Descriptor
      BY BuildAssumption
    <3> QED BY <2>1, <3>1, Edited
  <2>3. ASSUME ~edited' PROVE table' = table /\ ~edited
    BY <2>1, <2>3
  <2>4. Coherent'
    BY <2>3 DEF Coherent
  <2> QED BY <2>1, <2>2, <2>4
<1>5. ASSUME NEW p \in Programs, AddProgram(p) PROVE TableInv'
  BY <1>1, <1>5 DEF AddProgram
<1>6. ASSUME NEW f \in {"one", "many"}, Send(f) PROVE TableInv'
  BY <1>1, <1>6 DEF Send, buildVars
<1>7. CASE Receive
  BY <1>1, <1>7 DEF Receive, buildVars
<1>8. CASE UNCHANGED vars
  BY <1>1, <1>8 DEF vars, buildVars
<1> QED
  BY <1>2, <1>3, <1>4, <1>5, <1>6, <1>7, <1>8 DEF Next

\* After any sequence of additions and removals the section states its length, if
\* parse() dropped no descriptor that the length counts, and its CRC is over what it says now.
THEOREM Stated == Spec => []Coherent
<1>1. Init => TableInv
  BY InitTableInv
<1>2. TableInv /\ [Next]_vars => TableInv'
  BY NextTableInv
<1>3. TableInv => Coherent
  BY DEF TableInv
<1> QED
  BY <1>1, <1>2, <1>3, PTL DEF Spec

-----------------------------------------------------------------------------
(***************************************************************************)
(* The packets of a section.                                               *)
(***************************************************************************)
Packet == {p \in [start : BOOLEAN, cc : Nat, afLen : Byte \cup {NoField}, bytes : Seq(Byte)] :
             Len(p.bytes) = IF p.afLen = NoField THEN PayloadSize ELSE PayloadSize - 1}

LEMMA StuffingFacts ==
    ASSUME NEW n \in Int
    PROVE  /\ Stuffing(n) \in Seq(Byte) /\ Len(Stuffing(n)) = IF n > 0 THEN n ELSE 0
           /\ \A k \in 1..n : Stuffing(n)[k] = 255
<1> DEFINE m == IF n > 0 THEN n ELSE 0
           s == Stuffing(n)
<1>1. m \in Nat /\ 1..n = 1..m
  OBVIOUS
<1>2. /\ DOMAIN s = 1..m /\ s = [k \in DOMAIN s |-> s[k]]
      /\ \A k \in 1..n : s[k] = 255
  BY <1>1 DEF Stuffing
<1>3. 255 \in Byte
  BY DEF Byte
<1> HIDE DEF m, s
<1>4. \A k \in 1..m : s[k] \in Byte
  BY <1>1, <1>2, <1>3
<1>5. s \in Seq(Byte) /\ Len(s) = m
  BY <1>1, <1>2, <1>4, IsSeq
<1> QED
  BY <1>2, <1>5 DEF m, s

\* The beginning of a sequence that is longer.
LEMMA Beginning ==
    ASSUME NEW S, NEW s \in Seq(S), NEW n \in Nat, n <= Len(s)
    PROVE  /\ SubSeq(s, 1, n) \in Seq(S) /\ Len(SubSeq(s, 1, n)) = n
           /\ \A k \in 1..n : SubSeq(s, 1, n)[k] = s[k]
<1>1. Len(s) \in Nat /\ \A k \in 1..Len(s) : s[k] \in S
  BY LenProperties, ElementOfSeq
<1>2. \A k \in 1..n : k \in 1..Len(s) /\ k \in 1..(n - 1 + 1) /\ 1 + k - 1 = k
  BY <1>1
<1> DEFINE a == SubSeq(s, 1, n)
<1>3. /\ a \in Seq(S) /\ Len(a) = IF 1 <= n THEN n - 1 + 1 ELSE 0
      /\ \A k \in 1..(n - 1 + 1) : a[k] = s[1 + k - 1]
  BY <1>1, <1>2, SubSeqProperties
<1> HIDE DEF a
<1>4. Len(a) = n
  BY <1>3
<1> QED
  BY <1>2, <1>3, <1>4 DEF a

\* Its rest, after the first i.
LEMMA Remainder ==
    ASSUME NEW S, NEW s \in Seq(S), NEW i \in Nat, i <= Len(s)
    PROVE  /\ SubSeq(s, i + 1, Len(s)) \in Seq(S) /\ Len(SubSeq(s, i + 1, Len(s))) = Len(s) - i
           /\ \A k \in 1..(Len(s) - i) : SubSeq(s, i + 1, Len(s))[k] = s[i + k]
<1> DEFINE n == Len(s)
           a == SubSeq(s, i + 1, n)
<1>1. n \in Nat /\ \A k \in 1..n : s[k] \in S
  BY LenProperties, ElementOfSeq
<1>2. \A k \in (i + 1)..n : s[k] \in S
  BY <1>1
<1> HIDE DEF n
<1>3. /\ a \in Seq(S) /\ Len(a) = IF i + 1 <= n THEN n - (i + 1) + 1 ELSE 0
      /\ \A k \in 1..(n - (i + 1) + 1) : a[k] = s[(i + 1) + k - 1]
  BY <1>1, <1>2, SubSeqProperties
<1>4. i <= n
  BY DEF n
<1> HIDE DEF a
<1>5. Len(a) = n - i
  BY <1>1, <1>3, <1>4
<1>6. \A k \in 1..(n - i) : k \in 1..(n - (i + 1) + 1) /\ (i + 1) + k - 1 = i + k
  BY <1>1, <1>4
<1> QED
  BY <1>3, <1>5, <1>6 DEF a, n

\* A packet that begins with a section, and has all of it or what it holds.
Carries(p, s) ==
    /\ p.start = TRUE /\ p.afLen = NoField
    /\ \A k \in 1..PayloadSize : p.bytes[k] = IF k <= Len(s) THEN s[k] ELSE 255

LEMMA OnePacketFacts ==
    ASSUME NEW buf \in Seq(Byte), NEW c \in Nat
    PROVE  packetizeOne(buf, c) \in Packet /\ Carries(packetizeOne(buf, c), buf)
<1> DEFINE p == packetizeOne(buf, c)
           P == PayloadSize
           s == Stuffing(P)
           z == buf \o s
           b == SubSeq(z, 1, P)
<1>1. P \in Nat
  BY PayloadSizeAssumption
<1>2. s \in Seq(Byte) /\ Len(s) = P /\ \A k \in 1..P : s[k] = 255
  BY <1>1, StuffingFacts
<1>3. Len(buf) \in Nat
  BY LenProperties
<1> HIDE DEF s, P
<1>4. /\ z \in Seq(Byte) /\ Len(z) = Len(buf) + Len(s)
      /\ \A k \in 1..(Len(buf) + Len(s)) : z[k] = IF k <= Len(buf) THEN buf[k] ELSE s[k - Len(buf)]
  <2>1. s \in Seq(Byte)
    BY <1>2
  <2>2. z \in Seq(Byte)
    BY <2>1, ConcatProperties
  <2>3. Len(z) = Len(buf) + Len(s)
    BY <2>1, ConcatProperties
  <2>4. \A k \in 1..(Len(buf) + Len(s)) : z[k] = IF k <= Len(buf) THEN buf[k] ELSE s[k - Len(buf)]
    BY <2>1, ConcatProperties
  <2> HIDE DEF z
  <2> QED BY <2>2, <2>3, <2>4
<1> HIDE DEF z
<1>5. P <= Len(z)
  BY <1>1, <1>2, <1>3, <1>4
<1>6. b \in Seq(Byte) /\ Len(b) = P /\ \A k \in 1..P : b[k] = z[k]
  BY <1>1, <1>4, <1>5, Beginning
<1>7. \A k \in 1..P : b[k] = IF k <= Len(buf) THEN buf[k] ELSE 255
  <2>1. ASSUME NEW k \in 1..P PROVE z[k] = IF k <= Len(buf) THEN buf[k] ELSE 255
    <3>1. k \in 1..(Len(buf) + Len(s))
      BY <1>1, <1>2, <1>3
    <3>2. ~(k <= Len(buf)) => k - Len(buf) \in 1..P
      BY <1>1, <1>3
    <3> QED BY <1>2, <1>4, <3>1, <3>2
  <2> QED BY <1>6, <2>1
<1>8. p = [start |-> TRUE, cc |-> c % 16, afLen |-> NoField, bytes |-> b]
  BY DEF packetizeOne, b, z, s, P
<1> HIDE DEF b, p
<1>9. c % 16 \in Nat
  OBVIOUS
<1>10. p \in Packet
  BY <1>6, <1>8, <1>9 DEF Packet, P
<1> QED
  BY <1>7, <1>8, <1>10 DEF p, P, Carries

LEMMA FullPacketFacts ==
    ASSUME NEW buf \in Seq(Byte), NEW cur \in Nat, NEW c \in Nat, cur + PayloadSize <= Len(buf)
    PROVE  LET p == FullPacket(buf, cur, c)
           IN  /\ p \in Packet /\ p.start = (cur = 0) /\ p.afLen = NoField
               /\ p.bytes = SubSeq(buf, cur + 1, cur + PayloadSize)
<1> DEFINE p == FullPacket(buf, cur, c)
           P == PayloadSize
           b == SubSeq(buf, cur + 1, cur + P)
<1>1. P \in Nat /\ Len(buf) \in Nat
  BY PayloadSizeAssumption, LenProperties
<1>2. \A k \in (cur + 1)..(cur + P) : buf[k] \in Byte
  <2>1. \A k \in (cur + 1)..(cur + P) : k \in 1..Len(buf)
    BY <1>1
  <2> QED BY <2>1, ElementOfSeq
<1>3. b \in Seq(Byte) /\ Len(b) = IF cur + 1 <= cur + P THEN (cur + P) - (cur + 1) + 1 ELSE 0
  BY <1>1, <1>2, SubSeqProperties
<1>4. p = [start |-> cur = 0, cc |-> c % 16, afLen |-> NoField, bytes |-> b]
  BY DEF FullPacket
<1> HIDE DEF b, p
<1>5. Len(b) = P
  BY <1>1, <1>3, PayloadSizeAssumption
<1>6. c % 16 \in Nat
  OBVIOUS
<1>7. p \in Packet
  BY <1>3, <1>4, <1>5, <1>6 DEF Packet
<1>8. p.start = (cur = 0) /\ p.afLen = NoField /\ p.bytes = b
  BY <1>4, Zenon
<1> QED
  BY <1>7, <1>8 DEF p, b

\* A last packet of several, and what is read from it.
LEMMA LastPacketFacts ==
    ASSUME NEW rest \in Seq(Byte), NEW c \in Nat, Len(rest) <= TS_SIZE
    PROVE  LET p == LastPacket(rest, c)
           IN  /\ p \in Packet /\ p.start = FALSE
               /\ rest # <<>> /\ Len(rest) < PayloadSize - 1 => getData(p) = rest
<1> DEFINE p == LastPacket(rest, c)
           P == PayloadSize
           n == Len(rest)
           len == LastField(n)
           m == IF len > P THEN P ELSE len - 1
           a == <<0>>
           s == Stuffing(m)
           t == a \o s
           z == t \o rest
           b == SubSeq(z, 1, P - 1)
<1>1. P \in 17..256 /\ n \in Nat /\ n <= P + 4
  BY PayloadSizeAssumption, FieldAssumption, LenProperties DEF TS_SIZE
<1>2. /\ len \in Nat /\ (n <= P - 1 => len = P - 1 - n) /\ (~(n <= P - 1) => len > P)
  BY <1>1 DEF LastField
<1>3. p = [start |-> FALSE, cc |-> c % 16, afLen |-> len % 256, bytes |-> b]
  BY DEF LastPacket
<1> HIDE DEF P, n, len
<1>4. m \in Int /\ (m > 0 => len > 0)
  BY <1>1, <1>2
<1> HIDE DEF m
<1>5. s \in Seq(Byte) /\ Len(s) = IF m > 0 THEN m ELSE 0
  BY <1>4, StuffingFacts
<1>6. a \in Seq(Byte) /\ Len(a) = 1
  BY DEF Byte
<1> HIDE DEF a, s
<1>7. t \in Seq(Byte) /\ Len(t) = Len(a) + Len(s)
  BY <1>5, <1>6, ConcatProperties
<1> HIDE DEF t
<1>8. /\ z \in Seq(Byte) /\ Len(z) = Len(t) + n
      /\ \A k \in 1..(Len(t) + n) : z[k] = IF k <= Len(t) THEN t[k] ELSE rest[k - Len(t)]
  BY <1>7, ConcatProperties DEF n
<1>9. /\ P - 1 \in Nat /\ P - 1 <= Len(z)
      /\ n < P - 1 => Len(t) = len /\ Len(z) = P - 1
  <2>1. Len(t) = 1 + (IF m > 0 THEN m ELSE 0) /\ Len(z) = Len(t) + n
    BY <1>5, <1>6, <1>7, <1>8
  <2> HIDE DEF z
  <2>2. m = IF len > P THEN P ELSE len - 1
    BY DEF m
  <2>3. P \in Nat /\ P > 16
    BY <1>1
  <2>4. CASE n <= P - 1
    <3>1. len \in Nat /\ len = P - 1 - n /\ ~(len > P) /\ m = len - 1
      BY <1>1, <1>2, <2>2, <2>3, <2>4
    <3> QED BY <1>1, <2>1, <2>3, <2>4, <3>1
  <2>5. CASE ~(n <= P - 1)
    <3>1. m = P
      BY <1>2, <2>2, <2>5
    <3> QED BY <1>1, <2>1, <2>3, <2>5, <3>1
  <2> QED BY <2>4, <2>5
<1> HIDE DEF z
<1>10. b \in Seq(Byte) /\ Len(b) = P - 1 /\ \A k \in 1..(P - 1) : b[k] = z[k]
  BY <1>8, <1>9, Beginning
<1> HIDE DEF b, p
<1>11. len % 256 \in Byte /\ len % 256 # NoField /\ c % 16 \in Nat
  <2>1. \A k \in Nat : k % 256 \in 0..255 /\ k % 256 # -1 /\ k % 16 \in Nat
    OBVIOUS
  <2> QED BY <1>2, <2>1 DEF Byte, NoField
<1>12. p \in Packet
  BY <1>3, <1>10, <1>11 DEF Packet, P
<1>13. ASSUME n < P - 1, rest # <<>> PROVE getData(p) = rest
  <2>0. n > 0
    BY <1>1, <1>13, EmptySeq DEF n
  <2>1. len \in Nat /\ len = P - 1 - n /\ len % 256 = len /\ len <= P - 2
    <3>1. len \in Nat /\ len = P - 1 - n /\ len <= 255
      BY <1>1, <1>2, <1>13
    <3>2. \A k \in Nat : k <= 255 => k % 256 = k
      OBVIOUS
    <3>3. len % 256 = len
      BY <3>1, <3>2
    <3>4. len <= P - 2
      BY <1>1, <2>0, <3>1
    <3> QED BY <3>1, <3>3, <3>4
  <2>2. getData(p) = SubSeq(b, len + 1, P - 1)
    BY <1>3, <1>11, <2>1 DEF getData, P
  <2> DEFINE d == SubSeq(b, len + 1, Len(b))
  <2>3. /\ d \in Seq(Byte) /\ Len(d) = Len(b) - len
        /\ \A k \in 1..(Len(b) - len) : d[k] = b[len + k]
    <3>1. len <= Len(b) /\ len \in Nat
      BY <1>1, <1>10, <2>1
    <3>2. b \in Seq(Byte)
      BY <1>10
    <3> QED BY <3>1, <3>2, Remainder
  <2> HIDE DEF d
  <2>4. Len(d) = n
    BY <1>1, <1>10, <2>1, <2>3
  <2>5. ASSUME NEW k \in 1..n PROVE d[k] = rest[k]
    <3>1. /\ k \in 1..(Len(b) - len) /\ len + k \in 1..(P - 1) /\ len + k \in 1..(Len(t) + n)
          /\ ~(len + k <= Len(t)) /\ (len + k) - Len(t) = k
      BY <1>1, <1>9, <1>10, <1>13, <2>1
    <3> QED BY <1>8, <1>10, <2>3, <3>1
  <2>6. d = rest
    BY <2>3, <2>4, <2>5, SeqEqual DEF n
  <2> QED BY <1>10, <2>2, <2>6 DEF d
<1> QED
  BY <1>3, <1>12, <1>13 DEF p, n, P

\* packetize as a walk over a section: the packets from each place, and the places.
PacketAt(buf) ==
    [cur \in Nat |->
        IF ~Fits(Len(buf) - cur) THEN FullPacket(buf, cur, 0 + cur \div PayloadSize)
        ELSE IF cur = 0 THEN packetizeOne(buf, 0 + cur \div PayloadSize)
        ELSE LastPacket(SubSeq(buf, cur + 1, Len(buf)), 0 + cur \div PayloadSize)]
NextPacket(buf) ==
    [cur \in Nat |-> cur + (IF Fits(Len(buf) - cur) THEN TS_SIZE ELSE PayloadSize)]

LEMMA PacketizeWalks ==
    ASSUME NEW buf \in Seq(Byte)
    PROVE  /\ packetize(buf, 0) = Walk(PacketAt(buf), NextPacket(buf), 0, Len(buf)).list
           /\ Forward(NextPacket(buf)) /\ Len(buf) \in Nat
           /\ \A cur \in Nat : PacketAt(buf)[cur] \in Packet
<1>1. packetize(buf, 0) = Walk(PacketAt(buf), NextPacket(buf), 0, Len(buf)).list
  BY DEF packetize, PacketAt, NextPacket
<1>2. Len(buf) \in Nat
  BY LenProperties
<1>3. PayloadSize \in Nat /\ PayloadSize > 16 /\ TS_SIZE \in Nat /\ TS_SIZE = PayloadSize + 4
  BY PayloadSizeAssumption DEF TS_SIZE
<1>4. Forward(NextPacket(buf))
  <2> HIDE DEF TS_SIZE
  <2>1. ASSUME NEW c \in Nat PROVE NextPacket(buf)[c] \in Nat /\ NextPacket(buf)[c] > c
    <3>1. NextPacket(buf)[c] = c + TS_SIZE \/ NextPacket(buf)[c] = c + PayloadSize
      BY DEF NextPacket
    <3> QED BY <1>3, <3>1
  <2> QED BY <2>1 DEF Forward
<1>5. ASSUME NEW cur \in Nat PROVE PacketAt(buf)[cur] \in Packet
  <2> DEFINE c == 0 + cur \div PayloadSize
             left == Len(buf) - cur
             rest == SubSeq(buf, cur + 1, Len(buf))
  <2>1. c \in Nat
    BY <1>3
  <2>2. PacketAt(buf)[cur] = IF ~Fits(left) THEN FullPacket(buf, cur, c)
                             ELSE IF cur = 0 THEN packetizeOne(buf, c)
                             ELSE LastPacket(rest, c)
    BY DEF PacketAt
  <2> HIDE DEF c
  <2>3. CASE ~Fits(left)
    <3>1. cur + PayloadSize <= Len(buf)
      BY <1>2, <1>3, <2>3 DEF Fits
    <3>2. FullPacket(buf, cur, c) \in Packet
      BY <2>1, <3>1, FullPacketFacts
    <3> QED BY <2>2, <2>3, <3>2
  <2>4. CASE Fits(left) /\ cur = 0
    <3>1. packetizeOne(buf, c) \in Packet
      BY <2>1, OnePacketFacts
    <3> QED BY <2>2, <2>4, <3>1
  <2>5. CASE Fits(left) /\ cur # 0
    <3>1. rest \in Seq(Byte) /\ Len(rest) <= TS_SIZE
      <4>1. CASE cur <= Len(buf)
        <5>1. rest \in Seq(Byte) /\ Len(rest) = Len(buf) - cur
          BY <4>1, Remainder
        <5> QED BY <2>5, <5>1 DEF Fits
      <4>2. CASE ~(cur <= Len(buf))
        <5>1. rest = <<>>
          BY <1>2, <4>2, SubSeqEmpty
        <5>2. Len(<<>>) = 0 /\ <<>> \in Seq(Byte)
          BY EmptySeq
        <5> HIDE DEF rest, TS_SIZE
        <5> QED BY <1>3, <5>1, <5>2
      <4> QED BY <4>1, <4>2
    <3> HIDE DEF rest
    <3>2. LastPacket(rest, c) \in Packet
      BY <2>1, <3>1, LastPacketFacts
    <3> QED BY <2>2, <2>5, <3>2
  <2> QED BY <2>3, <2>4, <2>5
<1> QED
  BY <1>1, <1>2, <1>4, <1>5

\* There is a packet if there is a section, and no more than one of stuffing if that
\* is enough.
LEMMA PacketizeType ==
    ASSUME NEW buf \in Seq(Byte), buf # <<>>
    PROVE  /\ packetize(buf, 0) \in Seq(Packet) /\ packetize(buf, 0) # <<>>
           /\ Len(buf) <= PayloadSize => packetize(buf, 0) = <<packetizeOne(buf, 0)>>
<1> DEFINE item == PacketAt(buf)
           next == NextPacket(buf)
           to == Len(buf)
<1>1. /\ packetize(buf, 0) = Walk(item, next, 0, to).list
      /\ Forward(next) /\ to \in Nat /\ \A cur \in Nat : item[cur] \in Packet
  BY PacketizeWalks
<1>2. to > 0
  BY <1>1, EmptySeq
<1> HIDE DEF item, next, to
<1>3. Walk(item, next, 0, to).list \in Seq(Packet)
  BY <1>1, WalkType
<1>4. Walk(item, next, 0, to).list = Before(item[0], Walk(item, next, next[0], to).list)
  BY <1>1, <1>2, WalkStep
<1>5. next[0] \in Nat /\ Walk(item, next, next[0], to).list \in Seq(Packet) /\ item[0] \in Packet
  <2>1. next[0] \in Nat
    BY <1>1 DEF Forward
  <2> QED BY <1>1, <2>1, WalkType
<1>6. packetize(buf, 0) # <<>>
  <2> DEFINE x == item[0]
             s == Walk(item, next, next[0], to).list
  <2>1. x \in Packet /\ s \in Seq(Packet)
    BY <1>5
  <2> HIDE DEF x, s
  <2>2. Len(Before(x, s)) = Len(s) + 1 /\ Len(s) \in Nat
    BY <2>1, BeforeFacts
  <2>3. Before(x, s) # <<>>
    BY <2>2, EmptySeq
  <2> QED BY <1>1, <1>4, <2>3 DEF x, s
<1>7. ASSUME to <= PayloadSize PROVE packetize(buf, 0) = <<packetizeOne(buf, 0)>>
  <2>1. Fits(to - 0) /\ 0 \div PayloadSize = 0
    BY <1>1, <1>7, PayloadSizeAssumption DEF Fits, TS_SIZE
  <2>2. next[0] = 0 + TS_SIZE
    BY <2>1 DEF next, NextPacket, to
  <2>3. item[0] = packetizeOne(buf, 0)
    <3>1. item[0] = packetizeOne(buf, 0 + 0 \div PayloadSize)
      BY <2>1 DEF item, PacketAt, to
    <3> QED BY <2>1, <3>1
  <2>4. ~(next[0] < to)
    BY <1>1, <1>7, <2>2, PayloadSizeAssumption DEF TS_SIZE
  <2>5. Walk(item, next, next[0], to).list = <<>>
    BY <1>1, <1>5, <2>4, WalkStep
  <2>6. Before(item[0], <<>>) = <<item[0]>>
    BY DEF Before
  <2> QED BY <1>1, <1>4, <2>3, <2>5, <2>6
<1> QED
  BY <1>1, <1>3, <1>6, <1>7 DEF to

-----------------------------------------------------------------------------
(***************************************************************************)
(* The program association table.                                          *)
(***************************************************************************)
\* The n PIDs of a set are its first, its second, and so on to its n-th.
LEMMA NthFacts ==
    ASSUME NEW D, IsFiniteSet(D), D \subseteq Nat
    PROVE  /\ \A k \in 1..Cardinality(D) : Nth(D, k) \in D
           /\ \A p \in D : \E k \in 1..Cardinality(D) : Nth(D, k) = p
<1> DEFINE n == Cardinality(D)
           upTo(p) == {q \in D : q <= p}
           rank == [p \in D |-> Cardinality(upTo(p))]
<1>1. n \in Nat
  BY FS_CardinalityType
<1>2. ASSUME NEW p \in D
      PROVE  IsFiniteSet(upTo(p)) /\ rank[p] \in 1..n
  <2>1. upTo(p) \in SUBSET D /\ p \in upTo(p)
    OBVIOUS
  <2> HIDE DEF upTo
  <2>2. IsFiniteSet(upTo(p)) /\ Cardinality(upTo(p)) <= n
    BY <2>1, FS_Subset
  <2>3. Cardinality(upTo(p)) \in Nat /\ Cardinality(upTo(p)) # 0
    BY <2>1, <2>2, FS_CardinalityType, FS_EmptySet
  <2>4. rank[p] = Cardinality(upTo(p))
    OBVIOUS
  <2> HIDE DEF rank, n
  <2> QED BY <1>1, <2>2, <2>3, <2>4
<1>3. ASSUME NEW p \in D, NEW r \in D, p < r PROVE rank[p] # rank[r]
  <2>1. upTo(p) \in SUBSET upTo(r)
    <3>1. \A q \in Nat : q <= p => q <= r
      BY <1>3
    <3> QED BY <3>1
  <2>2. r \in upTo(r) /\ r \notin upTo(p)
    BY <1>3
  <2>3. rank[p] = Cardinality(upTo(p)) /\ rank[r] = Cardinality(upTo(r))
    OBVIOUS
  <2>4. IsFiniteSet(upTo(r))
    BY <1>2
  <2> HIDE DEF rank, upTo
  <2>5. Cardinality(upTo(r)) = Cardinality(upTo(p)) => upTo(r) = upTo(p)
    BY <2>1, <2>4, FS_Subset
  <2> QED BY <2>2, <2>3, <2>5
<1>4. \A p, r \in D : rank[p] = rank[r] => p = r
  <2>1. \A p, r \in D : p < r \/ r < p \/ p = r
    OBVIOUS
  <2> HIDE DEF rank
  <2> QED BY <1>3, <2>1
<1>5. \A k \in 1..n : \E p \in D : rank[p] = k
  <2>1. rank \in [D -> 1..n]
    BY <1>2
  <2> HIDE DEF rank
  <2>2. rank \in Injection(D, 1..n)
    BY <1>4, <2>1 DEF Injection, IsInjective
  <2>3. IsFiniteSet(1..n) /\ Cardinality(1..n) = n
    <3> HIDE DEF n
    <3>1. 1 \in Int /\ n \in Int
      BY <1>1
    <3>2. IsFiniteSet(1..n) /\ Cardinality(1..n) = IF 1 > n THEN 0 ELSE n - 1 + 1
      BY <3>1, FS_Interval
    <3> QED BY <1>1, <3>2
  <2>4. rank \in Surjection(D, 1..n)
    BY <2>2, <2>3, FS_Injection
  <2> QED BY <2>4 DEF Surjection
<1>6. \A k : Nth(D, k) = CHOOSE p \in D : rank[p] = k
  BY DEF Nth
<1> HIDE DEF rank
<1>7. \A k \in 1..n : Nth(D, k) \in D /\ rank[Nth(D, k)] = k
  BY <1>5, <1>6
<1>8. ASSUME NEW p \in D PROVE Nth(D, rank[p]) = p
  <2>1. rank[p] \in 1..n
    BY <1>2
  <2> HIDE DEF n
  <2> QED BY <1>4, <1>7, <2>1
<1> QED
  BY <1>2, <1>7, <1>8

LEMMA OffFours ==
    ASSUME NEW S, NEW q \in Seq(Seq(S)), \A k \in 1..Len(q) : Len(q[k]) = 4
    PROVE  \A k \in 0..Len(q) : Off(q, k) = 4 * k
<1> DEFINE n == Len(q)
           off == [k \in 0..n |-> Off(q, k)]
           bad == {k \in 0..n : off[k] # 4 * k}
<1>1. n \in Nat
  BY LenProperties
<1>2. off[0] = 0 /\ \A k \in 1..n : off[k - 1] \in Nat /\ off[k] = off[k - 1] + 4
  <2>1. Off(q, 0) = 0
    BY OffEnds
  <2>2. ASSUME NEW k \in 1..n PROVE Off(q, k - 1) \in Nat /\ Off(q, k) = Off(q, k - 1) + 4
    <3>1. Off(q, k - 1) \in Nat /\ Off(q, k) = Off(q, k - 1) + Len(q[k])
      BY FlattenParts
    <3> QED BY <3>1
  <2> HIDE DEF n
  <2> QED BY <1>1, <2>1, <2>2
<1> HIDE DEF off, n
<1>3. SUFFICES ASSUME bad # {} PROVE FALSE
  BY DEF off, n
<1>4. PICK m \in bad : \A k \in bad : m <= k
  <2>1. bad \subseteq Nat
    OBVIOUS
  <2> HIDE DEF bad
  <2> QED BY <1>3, <2>1, LeastNat
<1>5. m # 0
  BY <1>2
<1>6. m - 1 \in 0..n /\ m \in 1..n /\ ~(m <= m - 1)
  BY <1>1, <1>5
<1>7. off[m - 1] = 4 * (m - 1)
  BY <1>4, <1>6
<1>8. off[m] = 4 * m
  BY <1>2, <1>6, <1>7
<1> QED
  BY <1>8

Bits16 == 0..65535

LEMMA WideNumber ==
    \A y : y \in Bits16 <=> y \in Nat /\ y < 65536
<1>1. Bits16 = Upto(65535)
  BY DEF Bits16, Upto
<1> QED
  BY <1>1, UptoSixteenBits

\* Programs of a program association table.
ProgramMaps(m) ==
    /\ m = [p \in DOMAIN m |-> m[p]]
    /\ IsFiniteSet(DOMAIN m) /\ DOMAIN m \subseteq Bits13
    /\ \A p \in DOMAIN m : m[p] \in Bits16

OneEntry(program, pid) == Bytes2(program) \o Bytes2(pid + 57344)

\* The number that two bytes hold, of which the upper bits may be set.
Value16(a, b) == (256 * a + b) % 65536
Value13(a, b) == (256 * a + b) % 8192

LEMMA OneEntryBytes ==
    ASSUME NEW program \in Bits16, NEW pid \in Bits13
    PROVE  LET s == OneEntry(program, pid)
           IN  /\ s \in Seq(Byte) /\ Len(s) = 4
               /\ Value16(s[1], s[2]) = program /\ Value13(s[3], s[4]) = pid
<1> DEFINE x == pid + 57344
           a == Bytes2(program)
           b == Bytes2(x)
<1>1. program \in Nat /\ program < 65536 /\ x \in Nat /\ x < 65536
  <2>1. program \in Nat /\ program < 65536
    BY WideNumber
  <2>2. pid \in Nat /\ pid <= 8191
    BY SMT DEF Bits13
  <2> QED BY <2>1, <2>2, SMT
<1>2. Value16(a[1], a[2]) = program
  <2>1. a[1] = program \div 256 /\ a[2] = program % 256
    BY DEF Bytes2
  <2>2. \A k \in Nat : k < 65536 => (256 * (k \div 256) + (k % 256)) % 65536 = k
    OBVIOUS
  <2> HIDE DEF a
  <2> QED BY <1>1, <2>1, <2>2 DEF Value16
<1>3. Value13(b[1], b[2]) = pid
  <2>1. b[1] = x \div 256 /\ b[2] = x % 256
    BY DEF Bytes2
  <2>2. \A k \in Nat : k < 8192 => (256 * ((k + 57344) \div 256) + ((k + 57344) % 256)) % 8192 = k
    OBVIOUS
  <2>3. pid \in Nat /\ pid < 8192
    BY DEF Bits13
  <2> HIDE DEF b
  <2> QED BY <2>1, <2>2, <2>3 DEF Value13
<1> HIDE DEF x
<1>4. a \in Seq(Byte) /\ Len(a) = 2 /\ b \in Seq(Byte) /\ Len(b) = 2
  BY <1>1, TwoBytes
<1> HIDE DEF a, b
<1> DEFINE s == a \o b
<1>5. /\ s \in Seq(Byte) /\ Len(s) = Len(a) + Len(b)
      /\ \A i \in 1..(Len(a) + Len(b)) : s[i] = IF i <= Len(a) THEN a[i] ELSE b[i - Len(a)]
  BY <1>4, ConcatProperties
<1> HIDE DEF s
<1>6. Len(s) = 4 /\ s[1] = a[1] /\ s[2] = a[2] /\ s[3] = b[1] /\ s[4] = b[2]
  BY <1>4, <1>5
<1>7. OneEntry(program, pid) = s
  BY DEF OneEntry, s, a, b, x
<1> QED
  BY <1>2, <1>3, <1>5, <1>6, <1>7

\* The entries, one after the other.
LEMMA EntryFacts ==
    ASSUME NEW m, ProgramMaps(m)
    PROVE  LET n == Cardinality(DOMAIN m)
           IN  /\ n \in Nat /\ EntryBytes(m) \in Seq(Byte) /\ Len(EntryBytes(m)) = 4 * n
               /\ \A k \in 1..n, i \in 1..4 :
                     EntryBytes(m)[4 * (k - 1) + i]
                       = OneEntry(m[Nth(DOMAIN m, k)], Nth(DOMAIN m, k))[i]
<1> DEFINE D == DOMAIN m
           n == Cardinality(D)
           q == [k \in 1..n |-> OneEntry(m[Nth(D, k)], Nth(D, k))]
<1>1. n \in Nat
  BY FS_CardinalityType DEF ProgramMaps
<1>2. \A k \in 1..n : Nth(D, k) \in D
  <2>1. Bits13 \subseteq Nat
    BY SMT DEF Bits13
  <2>2. IsFiniteSet(D) /\ D \subseteq Bits13
    BY DEF ProgramMaps
  <2>3. D \subseteq Nat
    BY <2>1, <2>2
  <2> QED BY <2>2, <2>3, NthFacts
<1>3. EntryBytes(m) = FlattenSeq(q)
  BY DEF EntryBytes, OneEntry
<1> HIDE DEF n
<1>4. \A k \in 1..n : q[k] \in Seq(Byte) /\ Len(q[k]) = 4
  <2>1. ASSUME NEW k \in 1..n PROVE q[k] \in Seq(Byte) /\ Len(q[k]) = 4
    <3> DEFINE p == Nth(D, k)
               r == m[p]
    <3>1. p \in Bits13 /\ r \in Bits16
      BY <1>2 DEF ProgramMaps
    <3>2. q[k] = OneEntry(r, p)
      OBVIOUS
    <3> HIDE DEF p, r, q
    <3> QED BY <3>1, <3>2, OneEntryBytes
  <2> QED BY <2>1
<1>5. DOMAIN q = 1..n /\ q = [k \in DOMAIN q |-> q[k]]
      /\ \A k \in 1..n : q[k] = OneEntry(m[Nth(D, k)], Nth(D, k))
  OBVIOUS
<1> HIDE DEF q
<1>6. q \in Seq(Seq(Byte)) /\ Len(q) = n
  BY <1>1, <1>4, <1>5, IsSeq
<1>7. \A k \in 0..n : Off(q, k) = 4 * k
  BY <1>4, <1>6, OffFours
<1>8. FlattenSeq(q) \in Seq(Byte) /\ Len(FlattenSeq(q)) = 4 * n
  <2>1. Off(q, Len(q)) = Len(FlattenSeq(q))
    BY <1>6, OffEnds
  <2>2. n \in 0..n
    BY <1>1
  <2> QED BY <1>6, <1>7, <2>1, <2>2, FlattenType
<1>9. ASSUME NEW k \in 1..n, NEW i \in 1..4
      PROVE  FlattenSeq(q)[4 * (k - 1) + i] = q[k][i]
  <2>1. \A j \in 1..Len(q[k]) : FlattenSeq(q)[Off(q, k - 1) + j] = q[k][j]
    BY <1>6, FlattenParts
  <2>2. k - 1 \in 0..n
    BY <1>1
  <2> QED BY <1>4, <1>7, <2>1, <2>2
<1>10. \A k \in 1..n, i \in 1..4 :
          FlattenSeq(q)[4 * (k - 1) + i] = OneEntry(m[Nth(D, k)], Nth(D, k))[i]
  BY <1>5, <1>9
<1> QED
  BY <1>1, <1>3, <1>8, <1>10 DEF n

LEMMA Joined ==
    ASSUME NEW S, NEW a \in Seq(S), NEW b \in Seq(S)
    PROVE  /\ Cat(a, b) \in Seq(S) /\ Len(Cat(a, b)) = Len(a) + Len(b)
           /\ Len(a) \in Nat /\ Len(b) \in Nat
<1> DEFINE c == a \o b
<1>1. Len(a) \in Nat /\ Len(b) \in Nat
  BY LenProperties
<1>2. /\ c \in Seq(S) /\ Len(c) = Len(a) + Len(b)
      /\ \A i \in 1..(Len(a) + Len(b)) : c[i] = IF i <= Len(a) THEN a[i] ELSE b[i - Len(a)]
  BY ConcatProperties
<1> HIDE DEF c
<1>3. c = Cat(a, b)
  BY DEF c, Cat
<1> QED
  BY <1>1, <1>2, <1>3

LEMMA JoinedLeft ==
    ASSUME NEW S, NEW a \in Seq(S), NEW b \in Seq(S), NEW i \in 1..Len(a)
    PROVE  Cat(a, b)[i] = a[i]
  BY ConcatProperties, LenProperties DEF Cat

\* Where the second of two sequences is in both.
Follows(c, a, b) == \A i \in 1..Len(b) : c[Len(a) + i] = b[i]

LEMMA JoinedRight ==
    ASSUME NEW S, NEW a \in Seq(S), NEW b \in Seq(S)
    PROVE  Follows(Cat(a, b), a, b)
<1> DEFINE c == a \o b
<1>1. Len(a) \in Nat /\ Len(b) \in Nat
  BY LenProperties
<1>2. \A i \in 1..Len(b) : /\ Len(a) + i \in 1..(Len(a) + Len(b))
                           /\ ~(Len(a) + i <= Len(a)) /\ (Len(a) + i) - Len(a) = i
  BY <1>1
<1>3. /\ c \in Seq(S) /\ Len(c) = Len(a) + Len(b)
      /\ \A k \in 1..(Len(a) + Len(b)) : c[k] = IF k <= Len(a) THEN a[k] ELSE b[k - Len(a)]
  BY ConcatProperties
<1> HIDE DEF c
<1>4. \A i \in 1..Len(b) : c[Len(a) + i] = b[i]
  BY <1>2, <1>3
<1>5. c = Cat(a, b)
  BY DEF c, Cat
<1> QED
  BY <1>4, <1>5 DEF Follows

\* A section of parts, and where they are in it.
Section(a, b, c, d, e, f, z) == a \o (b \o c \o d \o e \o f) \o z

Parted(s, a, b, c, f, z) ==
    /\ Len(s) = 9 + Len(f) + Len(z)
    /\ s[1] = a[1] /\ s[2] = b[1] /\ s[3] = c[1] /\ s[4] = c[2]
    /\ \A k \in 1..Len(f) : s[9 + k] = f[k]

LEMMA SectionParts ==
    ASSUME NEW S, NEW a \in Seq(S), NEW b \in Seq(S), NEW c \in Seq(S), NEW d \in Seq(S),
           NEW e \in Seq(S), NEW f \in Seq(S), NEW z \in Seq(S),
           Len(a) = 1, Len(b) = 1, Len(c) = 2, Len(d) = 2, Len(e) = 3
    PROVE  /\ Section(a, b, c, d, e, f, z) \in Seq(S)
           /\ Parted(Section(a, b, c, d, e, f, z), a, b, c, f, z)
<1> DEFINE s == Section(a, b, c, d, e, f, z)
           t == b \o c
           u == t \o d
           v == u \o e
           w == v \o f
           x == a \o w
<1>0. Len(f) \in Nat /\ Len(z) \in Nat
  BY LenProperties
<1>1. /\ t = Cat(b, c) /\ u = Cat(t, d) /\ v = Cat(u, e) /\ w = Cat(v, f)
      /\ x = Cat(a, w) /\ s = Cat(x, z)
  BY DEF Cat, Section, s
<1> HIDE DEF s, t, u, v, w, x
<1>2. t \in Seq(S) /\ Len(t) = 3 /\ t[1] = b[1] /\ t[2] = c[1] /\ t[3] = c[2]
  <2>0. t = Cat(b, c)
    BY <1>1
  <2>1. t \in Seq(S) /\ Len(t) = Len(b) + Len(c)
    BY <2>0, Joined
  <2>2. \A i \in 1..Len(b) : t[i] = b[i]
    BY <2>0, JoinedLeft
  <2>3. Follows(t, b, c)
    BY <2>0, JoinedRight
  <2> QED BY <2>1, <2>2, <2>3 DEF Follows
<1>3. u \in Seq(S) /\ Len(u) = 5 /\ \A i \in 1..3 : u[i] = t[i]
  <2>0. u = Cat(t, d) /\ t \in Seq(S)
    BY <1>1, <1>2
  <2>1. u \in Seq(S) /\ Len(u) = Len(t) + Len(d)
    BY <2>0, Joined
  <2>2. \A i \in 1..Len(t) : u[i] = t[i]
    BY <2>0, JoinedLeft
  <2> QED BY <1>2, <2>1, <2>2
<1>4. v \in Seq(S) /\ Len(v) = 8 /\ \A i \in 1..5 : v[i] = u[i]
  <2>0. v = Cat(u, e) /\ u \in Seq(S)
    BY <1>1, <1>3
  <2>1. v \in Seq(S) /\ Len(v) = Len(u) + Len(e)
    BY <2>0, Joined
  <2>2. \A i \in 1..Len(u) : v[i] = u[i]
    BY <2>0, JoinedLeft
  <2> QED BY <1>3, <2>1, <2>2
<1>5. /\ w \in Seq(S) /\ Len(w) = 8 + Len(f) /\ \A i \in 1..8 : w[i] = v[i]
      /\ \A i \in 1..Len(f) : w[8 + i] = f[i]
  <2>0. w = Cat(v, f) /\ v \in Seq(S)
    BY <1>1, <1>4
  <2>1. w \in Seq(S) /\ Len(w) = Len(v) + Len(f)
    BY <2>0, Joined
  <2>2. \A i \in 1..Len(v) : w[i] = v[i]
    BY <2>0, JoinedLeft
  <2>3. Follows(w, v, f)
    BY <2>0, JoinedRight
  <2> QED BY <1>4, <2>1, <2>2, <2>3 DEF Follows
<1>6. /\ x \in Seq(S) /\ Len(x) = 9 + Len(f) /\ x[1] = a[1]
      /\ \A i \in 1..(8 + Len(f)) : x[1 + i] = w[i]
  <2>0. x = Cat(a, w) /\ w \in Seq(S)
    BY <1>1, <1>5
  <2>1. x \in Seq(S) /\ Len(x) = Len(a) + Len(w)
    BY <2>0, Joined
  <2>2. \A i \in 1..Len(a) : x[i] = a[i]
    BY <2>0, JoinedLeft
  <2>3. Follows(x, a, w)
    BY <2>0, JoinedRight
  <2> QED BY <1>0, <1>5, <2>1, <2>2, <2>3 DEF Follows
<1>7. /\ s \in Seq(S) /\ Len(s) = 9 + Len(f) + Len(z)
      /\ \A i \in 1..(9 + Len(f)) : s[i] = x[i]
  <2>0. s = Cat(x, z) /\ x \in Seq(S)
    BY <1>1, <1>6
  <2>1. s \in Seq(S) /\ Len(s) = Len(x) + Len(z)
    BY <2>0, Joined
  <2>2. \A i \in 1..Len(x) : s[i] = x[i]
    BY <2>0, JoinedLeft
  <2> QED BY <1>0, <1>6, <2>1, <2>2
<1>8. s[1] = x[1] /\ s[2] = x[2] /\ s[3] = x[3] /\ s[4] = x[4]
  <2>1. /\ 1 \in 1..(9 + Len(f)) /\ 2 \in 1..(9 + Len(f))
        /\ 3 \in 1..(9 + Len(f)) /\ 4 \in 1..(9 + Len(f))
    BY <1>0
  <2> QED BY <1>7, <2>1
<1>9. x[2] = w[1] /\ x[3] = w[2] /\ x[4] = w[3]
  <2>1. 1 + 1 = 2 /\ 1 + 2 = 3 /\ 1 + 3 = 4
    OBVIOUS
  <2>2. 1 \in 1..(8 + Len(f)) /\ 2 \in 1..(8 + Len(f)) /\ 3 \in 1..(8 + Len(f))
    BY <1>0
  <2> QED BY <1>6, <2>1, <2>2
<1>10. w[1] = t[1] /\ w[2] = t[2] /\ w[3] = t[3]
  BY <1>3, <1>4, <1>5
<1>11. ASSUME NEW k \in 1..Len(f) PROVE s[9 + k] = f[k]
  <2>1. 9 + k \in 1..(9 + Len(f)) /\ 8 + k \in 1..(8 + Len(f)) /\ 1 + (8 + k) = 9 + k
    BY <1>0
  <2>2. s[9 + k] = x[9 + k]
    BY <1>7, <2>1
  <2>3. x[1 + (8 + k)] = w[8 + k]
    BY <1>6, <2>1
  <2>4. w[8 + k] = f[k]
    BY <1>5
  <2> QED BY <2>1, <2>2, <2>3, <2>4
<1> QED
  BY <1>2, <1>6, <1>7, <1>8, <1>9, <1>10, <1>11 DEF Parted, s

\* A program association table as it is built.
PATShape(a) ==
    /\ a = [programs |-> a.programs, pointer_field |-> a.pointer_field, table_id |-> a.table_id,
            section_length |-> a.section_length, id |-> a.id, version |-> a.version,
            current |-> a.current, section |-> a.section, last |-> a.last, crc |-> a.crc]
    /\ ProgramMaps(a.programs)
    /\ a.pointer_field = 0 /\ a.table_id = 0 /\ a.id = 1 /\ a.section = 0 /\ a.last = 0

\* What it is written as.
LEMMA PATBytes ==
    ASSUME NEW a, PATShape(a)
    PROVE  LET n == Cardinality(DOMAIN a.programs)
               s == PATserialize(a)
           IN  /\ n \in Nat /\ Len(s) = 13 + 4 * n /\ s # <<>>
               /\ 9 + 4 * n \in Bits12 =>
                    /\ s \in Seq(Byte) /\ s[1] = 0 /\ Value12(s[3], s[4]) = 9 + 4 * n
                    /\ \A k \in 1..n, i \in 1..4 :
                          s[9 + (4 * (k - 1) + i)]
                            = OneEntry(a.programs[Nth(DOMAIN a.programs, k)], Nth(DOMAIN a.programs, k))[i]
<1> DEFINE m == a.programs
           D == DOMAIN m
           n == Cardinality(D)
           len == 9 + 4 * n
           f == EntryBytes(m)
           p1 == <<a.pointer_field>>
           p2 == <<a.table_id>>
           p3 == Bytes2(len + 45056)
           p4 == Bytes2(a.id)
           p5 == <<193, a.section, a.last>>
           z == <<CrcByte, CrcByte, CrcByte, CrcByte>>
           s == PATserialize(a)
<1>1. s = Section(p1, p2, p3, p4, p5, f, z)
  BY DEF PATserialize, PATCovered, Section
<1>2. /\ n \in Nat /\ f \in Seq(Byte) /\ Len(f) = 4 * n
      /\ \A k \in 1..n, i \in 1..4 : f[4 * (k - 1) + i] = OneEntry(m[Nth(D, k)], Nth(D, k))[i]
  <2> HIDE DEF m
  <2>1. ProgramMaps(m)
    BY DEF PATShape, m
  <2> QED BY <2>1, EntryFacts
<1>3. Byte \subseteq Nat
  BY DEF Byte
<1>4. /\ p1 \in Seq(Byte) /\ Len(p1) = 1 /\ p1[1] = 0 /\ p2 \in Seq(Byte) /\ Len(p2) = 1
      /\ p5 \in Seq(Byte) /\ Len(p5) = 3 /\ z \in Seq(Byte) /\ Len(z) = 4
  <2>1. a.pointer_field = 0 /\ a.table_id = 0 /\ a.section = 0 /\ a.last = 0
    BY DEF PATShape
  <2>2. 0 \in Byte /\ 193 \in Byte /\ CrcByte \in Byte
    BY DEF Byte, CrcByte
  <2> HIDE DEF m, n, len, f, p3, p4, s
  <2> QED BY <2>1, <2>2
<1>5. p4 \in Seq(Byte) /\ Len(p4) = 2
  <2>1. a.id = 1 /\ 1 \in Nat /\ 1 < 65536
    BY DEF PATShape
  <2> QED BY <2>1, TwoBytes
<1>6. /\ p3 \in Seq(Nat) /\ Len(p3) = 2
      /\ len \in Bits12 => p3 \in Seq(Byte) /\ Value12(p3[1], p3[2]) = len
  <2> DEFINE x == len + 45056
  <2>1. x \in Nat /\ len \in Nat
    BY <1>2
  <2>2. p3[1] = x \div 256 /\ p3[2] = x % 256
    BY DEF Bytes2
  <2>3. \A k \in Nat : k < 4096 => (256 * ((k + 45056) \div 256) + ((k + 45056) % 256)) % 4096 = k
    OBVIOUS
  <2> HIDE DEF len, m, f, s
  <2>4. len \in Bits12 => x < 65536 /\ len < 4096
    BY <2>1 DEF Bits12
  <2>5. p3 \in Seq(Nat) /\ Len(p3) = 2 /\ (x < 65536 => p3 \in Seq(Byte))
    <3> HIDE DEF x
    <3> QED BY <2>1, TwoBytes DEF x
  <2> HIDE DEF p3
  <2>6. len \in Bits12 => Value12(p3[1], p3[2]) = len
    BY <2>1, <2>2, <2>3, <2>4 DEF Value12
  <2> QED BY <2>4, <2>5, <2>6
<1> HIDE DEF p1, p2, p3, p4, p5, z, f, s, len, n, m
<1>7. Len(s) = 9 + Len(f) + Len(z)
  <2>1. /\ p1 \in Seq(Nat) /\ p2 \in Seq(Nat) /\ p4 \in Seq(Nat) /\ p5 \in Seq(Nat)
        /\ z \in Seq(Nat) /\ f \in Seq(Nat)
    BY <1>2, <1>3, <1>4, <1>5, SeqMonotonic
  <2>2. Parted(Section(p1, p2, p3, p4, p5, f, z), p1, p2, p3, f, z)
    BY <1>4, <1>5, <1>6, <2>1, SectionParts
  <2> QED BY <1>1, <2>2 DEF Parted
<1>8. Len(s) = 13 + 4 * n
  BY <1>2, <1>4, <1>7
<1>9. s # <<>>
  BY <1>2, <1>8, EmptySeq
<1>10. ASSUME len \in Bits12
       PROVE  /\ s \in Seq(Byte) /\ s[1] = 0 /\ Value12(s[3], s[4]) = len
              /\ \A k \in 1..n, i \in 1..4 :
                    s[9 + (4 * (k - 1) + i)] = OneEntry(m[Nth(D, k)], Nth(D, k))[i]
  <2>1. p3 \in Seq(Byte) /\ Value12(p3[1], p3[2]) = len
    BY <1>6, <1>10
  <2>2. /\ s \in Seq(Byte) /\ s[1] = p1[1] /\ s[3] = p3[1] /\ s[4] = p3[2]
        /\ \A k \in 1..Len(f) : s[9 + k] = f[k]
    <3>1. /\ Section(p1, p2, p3, p4, p5, f, z) \in Seq(Byte)
          /\ Parted(Section(p1, p2, p3, p4, p5, f, z), p1, p2, p3, f, z)
      BY <1>2, <1>4, <1>5, <1>6, <2>1, SectionParts
    <3> QED BY <1>1, <3>1 DEF Parted
  <2>3. ASSUME NEW k \in 1..n, NEW i \in 1..4
        PROVE  s[9 + (4 * (k - 1) + i)] = OneEntry(m[Nth(D, k)], Nth(D, k))[i]
    <3>1. 4 * (k - 1) + i \in 1..Len(f)
      BY <1>2
    <3> QED BY <1>2, <2>2, <3>1
  <2> QED BY <1>4, <2>1, <2>2, <2>3
<1> QED
  BY <1>2, <1>8, <1>9, <1>10 DEF len, n, m, s

-----------------------------------------------------------------------------
(***************************************************************************)
(* Every value that the multiplexer and the receiver keep is of its type.  *)
(***************************************************************************)
\* A section that is not too long is written in bytes.
LEMMA WrittenBytes ==
    ASSUME NEW t, Shape(t), Len(serialize(t)) <= MaxSize
    PROVE  serialize(t) \in Seq(Byte) /\ serialize(t) # <<>>
<1> DEFINE h == Tail(t.pmt)
           i == Info(t)
           e == ElemBytes(t.elmts)
           z == <<CrcByte, CrcByte, CrcByte, CrcByte>>
           y == <<t.pmt[1]>>
           es == t.elmts
           k == Taken(es)
<1>1. h \in Seq(Byte)
  BY HeaderBytes DEF Shape
<1>2. i \in Seq(Byte) /\ Len(i) \in Nat
  BY InfoFacts
<1>3. e \in Seq(Byte)
  <2>1. es \in Seq(Element) /\ k \in Seq(Nat) /\ Len(k) = Len(es) /\ Total(k) \in Nat
    BY TakenType, TotalNat DEF Shape
  <2>2. Total(k) <= 4082
    <3>1. Len(serialize(t)) = 17 + Len(i) + Total(k)
      BY SizeOf
    <3>2. MaxSize = 4099
      BY DEF MaxSize
    <3> HIDE DEF k, i
    <3> QED BY <1>2, <2>1, <3>1, <3>2
  <2>3. ASSUME NEW j \in 1..Len(es) PROVE ES_info_length(es[j]) < 4096
    <3>1. k[j] <= Total(k) /\ k[j] \in Nat
      <4> HIDE DEF k
      <4> QED BY <2>1, TotalBounds, ElementOfSeq
    <3>2. k[j] = 5 + ES_info_length(es[j])
      <4>1. j \in DOMAIN es
        BY <2>1, LenProperties
      <4> QED BY <4>1 DEF Taken
    <3>3. es[j] \in Element
      BY <2>1, ElementOfSeq
    <3>4. ES_info_length(es[j]) \in Nat
      BY <3>3, InfoLength
    <3> HIDE DEF k
    <3> QED BY <2>1, <2>2, <3>1, <3>2, <3>4
  <2>4. Small(es)
    BY <2>3 DEF Small
  <2> HIDE DEF es, k
  <2>5. ElemBytes(es) \in Seq(Byte)
    BY <2>1, <2>4, ElemBytesFacts
  <2> QED BY <2>5 DEF es
<1>4. z \in Seq(Byte)
  BY DEF CrcByte, Byte
<1>5. y \in Seq(Byte)
  BY DEF Shape, Byte
<1>6. Covered(t) = h \o i \o e /\ serialize(t) = y \o Covered(t) \o z
  BY DEF Covered, serialize, Info
<1>7. Len(serialize(t)) >= 17
  <2>1. Total(k) \in Nat
    BY SizeOf
  <2>2. Len(serialize(t)) = 17 + Len(i) + Total(k)
    BY SizeOf
  <2> HIDE DEF k, i
  <2> QED BY <1>2, <2>1, <2>2
<1> HIDE DEF h, i, e, z, y
<1>8. h \o i \in Seq(Byte)
  BY <1>1, <1>2, ConcatProperties
<1>9. Covered(t) \in Seq(Byte)
  BY <1>3, <1>6, <1>8, ConcatProperties
<1>10. y \o Covered(t) \in Seq(Byte)
  BY <1>5, <1>9, ConcatProperties
<1>11. serialize(t) \in Seq(Byte)
  BY <1>4, <1>6, <1>10, ConcatProperties
<1>12. serialize(t) # <<>>
  <2> DEFINE s == serialize(t)
  <2>1. Len(s) >= 17
    BY <1>7
  <2> HIDE DEF s
  <2>2. s # <<>>
    BY <2>1
  <2> QED BY <2>2 DEF s
<1> QED
  BY <1>11, <1>12

\* What is read from a packet: bytes, at least one.
LEMMA DataOf ==
    ASSUME NEW p \in Packet
    PROVE  getData(p) \in Seq(Byte) /\ getData(p) # <<>>
<1> DEFINE P == PayloadSize
           b == p.bytes
           af == IF p.afLen <= P - 2 THEN p.afLen ELSE 1
           d == SubSeq(b, af + 1, Len(b))
<1>1. P \in Nat /\ P > 16
  BY PayloadSizeAssumption
<1>2. b \in Seq(Byte) /\ (p.afLen = NoField => Len(b) = P) /\ (p.afLen # NoField => Len(b) = P - 1)
  BY DEF Packet
<1>3. CASE p.afLen = NoField
  <2>1. getData(p) = b
    BY <1>3 DEF getData
  <2> HIDE DEF P, b
  <2>2. Len(b) > 0
    BY <1>1, <1>2, <1>3
  <2> QED BY <1>2, <2>1, <2>2
<1>4. CASE p.afLen # NoField
  <2>1. p.afLen \in Nat
    <3>1. p.afLen \in Byte \cup {NoField}
      BY DEF Packet
    <3> QED BY <1>4, <3>1 DEF Byte
  <2>2. af \in Nat /\ af <= P - 2
    BY <1>1, <2>1
  <2>3. getData(p) = SubSeq(b, af + 1, P - 1)
    BY <1>4 DEF getData
  <2> HIDE DEF P, b, af
  <2>4. Len(b) = P - 1 /\ af <= Len(b)
    BY <1>1, <1>2, <1>4, <2>2
  <2>5. d \in Seq(Byte) /\ Len(d) = Len(b) - af
    BY <1>2, <2>2, <2>4, Remainder
  <2> HIDE DEF d
  <2>6. Len(d) > 0
    BY <1>1, <2>2, <2>4, <2>5
  <2>7. d # <<>>
    BY <2>5, <2>6
  <2> QED BY <2>3, <2>4, <2>5, <2>7 DEF d
<1> QED
  BY <1>3, <1>4

\* A number read from bytes.
LEMMA ShortOf ==
    ASSUME NEW v \in Seq(Byte), NEW j \in Byte, NEW k \in Nat
    PROVE  /\ At(v, k, j) \in Byte
           /\ Short(v, k, 4096, j) = Value12(At(v, k, j), At(v, k + 1, j))
           /\ Short(v, k, 65536, j) = Value16(At(v, k, j), At(v, k + 1, j))
           /\ Short(v, k, 8192, j) = Value13(At(v, k, j), At(v, k + 1, j))
BY AtByte DEF Short, Value12, Value13, Value16

\* What a remainder is.
LEMMA Below ==
    \A n \in Nat, k \in Nat \ {0} : n % k \in Nat /\ n % k < k
OBVIOUS

LEMMA ValueTypes ==
    ASSUME NEW a \in Byte, NEW b \in Byte
    PROVE  Value12(a, b) \in Bits12 /\ Value13(a, b) \in Bits13 /\ Value16(a, b) \in Bits16
<1>1. a \in Nat /\ b \in Nat
  BY DEF Byte
<1> DEFINE z == 256 * a + b
<1>2. z \in Nat
  BY <1>1
<1>3. Value12(a, b) = z % 4096 /\ Value13(a, b) = z % 8192 /\ Value16(a, b) = z % 65536
  BY DEF Value12, Value13, Value16
<1> HIDE DEF z
<1>4. z % 4096 \in Bits12
  BY <1>2 DEF Bits12
<1>5. z % 8192 \in Bits13
  BY <1>2 DEF Bits13
<1>6. z % 65536 \in Bits16
  <2>1. z % 65536 \in Nat /\ z % 65536 < 65536
    BY <1>2, Below
  <2> DEFINE y == z % 65536
  <2> HIDE DEF y
  <2>2. y \in Nat /\ y < 65536
    BY <2>1 DEF y
  <2>3. y \in Bits16
    BY <2>2, WideNumber
  <2> QED BY <2>3 DEF y
<1> QED
  BY <1>3, <1>4, <1>5, <1>6

\* Entries of a program association table, as they are read.
Entry == [program : Bits16, pid : Bits13]

\* What a map learns from entries: their PIDs, and of each the program of some entry,
\* if it had none.
Learns(u, m, es) ==
    /\ u = [q \in DOMAIN u |-> u[q]]
    /\ DOMAIN u = DOMAIN m \cup {es[k].pid : k \in 1..Len(es)}
    /\ \A q \in DOMAIN m : u[q] = m[q]
    /\ \A q \in DOMAIN u : q \notin DOMAIN m =>
          \E k \in 1..Len(es) : es[k].pid = q /\ u[q] = es[k].program

LEMMA Learnt ==
    ASSUME NEW m, NEW es \in Seq(Entry)
    PROVE  Learns(Learn(m, es), m, es)
<1> DEFINE u == Learn(m, es)
           E == {es[k].pid : k \in 1..Len(es)}
           is(q, k) == /\ es[k].pid = q
                       /\ \A j \in 1..(k - 1) : es[j].pid # q
           first(q) == CHOOSE k \in 1..Len(es) :
                        /\ es[k].pid = q
                        /\ \A j \in 1..(k - 1) : es[j].pid # q
<1>1. u = [q \in DOMAIN m \cup E |-> IF q \in DOMAIN m THEN m[q] ELSE es[first(q)].program]
  BY DEF Learn
<1>2. ASSUME NEW q \in E PROVE first(q) \in 1..Len(es) /\ es[first(q)].pid = q
  <2> DEFINE T == {k \in 1..Len(es) : es[k].pid = q}
  <2>1. T \subseteq Nat /\ T # {}
    OBVIOUS
  <2>2. PICK x \in T : \A y \in T : x <= y
    <3> HIDE DEF T
    <3> QED BY <2>1, LeastNat
  <2>3. Len(es) \in Nat
    BY LenProperties
  <2>4. \A j \in 1..(x - 1) : es[j].pid # q
    BY <2>2, <2>3
  <2> QED BY <2>2, <2>4
<1> HIDE DEF u, first
<1>3. ASSUME NEW q \in DOMAIN u, q \notin DOMAIN m
      PROVE  \E k \in 1..Len(es) : es[k].pid = q /\ u[q] = es[k].program
  <2>1. q \in E /\ u[q] = es[first(q)].program
    BY <1>1, <1>3
  <2> HIDE DEF E
  <2>2. first(q) \in 1..Len(es) /\ es[first(q)].pid = q
    BY <1>2, <2>1
  <2> QED BY <2>1, <2>2
<1>4. u = [q \in DOMAIN u |-> u[q]] /\ DOMAIN u = DOMAIN m \cup E
      /\ \A q \in DOMAIN m : u[q] = m[q]
  BY <1>1
<1> QED
  BY <1>3, <1>4 DEF u, Learns

\* The entries that PATparse reads from a place on, up to another.
EntryAt(v, j) == [c \in Nat |-> [program |-> Short(v, c, 65536, j), pid |-> Short(v, c + 2, 8192, j)]]
Fours == [c \in Nat |-> c + 4]
EntriesTo(v, j) == last(TableAt(v) + 8, Short(v, TableAt(v) + 1, 4096, j))
EntriesOf(v, j) == Walk(EntryAt(v, j), Fours, TableAt(v) + 8, EntriesTo(v, j)).list

LEMMA EntryTypes ==
    ASSUME NEW v \in Seq(Byte), v # <<>>, NEW j \in Byte
    PROVE  /\ TableAt(v) \in Nat /\ EntriesTo(v, j) \in Int
           /\ \A c \in Nat : EntryAt(v, j)[c] \in Entry
           /\ Forward(Fours) /\ EntriesOf(v, j) \in Seq(Entry)
<1>1. TableAt(v) \in Nat
  <2>1. Len(v) \in Nat /\ Len(v) # 0
    BY LenProperties, EmptySeq
  <2>2. 1 \in 1..Len(v)
    BY <2>1
  <2>3. v[1] \in Byte
    BY <2>2, ElementOfSeq
  <2>4. Byte \subseteq Nat
    BY DEF Byte
  <2>5. v[1] \in Nat
    BY <2>3, <2>4
  <2> QED BY <2>5 DEF TableAt
<1>2. \A c \in Nat : c + 1 \in Nat /\ c + 2 \in Nat /\ (c + 2) + 1 \in Nat
  OBVIOUS
<1>3. EntriesTo(v, j) \in Int
  <2> DEFINE c == TableAt(v)
             len == Short(v, c + 1, 4096, j)
  <2>1. c \in Nat
    BY <1>1
  <2> HIDE DEF c
  <2>2. c + 1 \in Nat /\ (c + 1) + 1 \in Nat
    BY <2>1
  <2>3. len = Value12(At(v, c + 1, j), At(v, (c + 1) + 1, j))
    BY <2>2, ShortOf
  <2>4. len \in Bits12
    BY <2>2, <2>3, ShortOf, ValueTypes
  <2> HIDE DEF len
  <2>5. len \in Nat
    BY <2>4 DEF Bits12
  <2>6. last(c + 8, len) \in Int
    BY <2>1, <2>5 DEF last
  <2> QED BY <2>6 DEF EntriesTo, len, c
<1>4. ASSUME NEW c \in Nat PROVE EntryAt(v, j)[c] \in Entry
  <2>1. Short(v, c, 65536, j) \in Bits16
    BY <1>2, ShortOf, ValueTypes
  <2>2. Short(v, c + 2, 8192, j) \in Bits13
    BY <1>2, ShortOf, ValueTypes
  <2> QED BY <2>1, <2>2 DEF EntryAt, Entry
<1>5. Forward(Fours)
  BY DEF Forward, Fours
<1>6. EntriesOf(v, j) \in Seq(Entry)
  <2> DEFINE item == EntryAt(v, j)
             c == TableAt(v) + 8
             to == EntriesTo(v, j)
  <2>1. c \in Nat /\ to \in Int /\ \A k \in Nat : item[k] \in Entry
    BY <1>1, <1>3, <1>4
  <2> HIDE DEF item, c, to
  <2>2. Walk(item, Fours, c, to).list \in Seq(Entry)
    BY <1>5, <2>1, WalkType
  <2> QED BY <2>2 DEF EntriesOf, item, c, to
<1> QED
  BY <1>1, <1>3, <1>4, <1>5, <1>6

LEMMA ParsedPrograms ==
    ASSUME NEW a, NEW v, NEW j
    PROVE  PATparse(a, v, j).programs = Learn(a.programs, EntriesOf(v, j))
BY DEF PATparse, EntriesOf, EntriesTo, EntryAt, Fours

-----------------------------------------------------------------------------
\* A program that is added.
LEMMA ProgramAdded ==
    ASSUME NEW a, PATShape(a), NEW program \in Bits16, NEW pid \in Bits13
    PROVE  LET u == addProgram(a, program, pid)
           IN  /\ PATShape(u)
               /\ u = a \/ u.crc = PATCovered(u)
               /\ DOMAIN a.programs \subseteq DOMAIN u.programs
               /\ \A q \in DOMAIN a.programs : u.programs[q] = a.programs[q]
<1> DEFINE u == addProgram(a, program, pid)
           m == a.programs
           es == <<[program |-> program, pid |-> pid]>>
           w == Learn(m, es)
           new == [a EXCEPT !.programs = w]
           z == [new EXCEPT !.crc = PATCovered(new)]
<1>1. CASE pid \in DOMAIN m
  <2>1. u = a
    BY <1>1 DEF addProgram
  <2> HIDE DEF u
  <2> QED BY <2>1 DEF u
<1>2. CASE pid \notin DOMAIN m
  <2>1. u = z
    BY <1>2 DEF addProgram
  <2>2. es \in Seq(Entry) /\ Len(es) = 1 /\ es[1].pid = pid /\ es[1].program = program
    BY DEF Entry
  <2> HIDE DEF es
  <2>3. /\ w = [q \in DOMAIN w |-> w[q]]
        /\ DOMAIN w = DOMAIN m \cup {es[k].pid : k \in 1..Len(es)}
        /\ \A q \in DOMAIN m : w[q] = m[q]
        /\ \A q \in DOMAIN w : q \notin DOMAIN m =>
              \E k \in 1..Len(es) : es[k].pid = q /\ w[q] = es[k].program
    <3>1. Learns(w, m, es)
      BY <2>2, Learnt
    <3> HIDE DEF m, w
    <3> QED BY <3>1 DEF Learns
  <2>4. ProgramMaps(m)
    BY DEF PATShape
  <2> HIDE DEF w, m
  <2>5. \A k \in 1..Len(es) : k = 1
    BY <2>2
  <2>6. DOMAIN w = DOMAIN m \cup {pid}
    BY <2>2, <2>3, <2>5
  <2>7. IsFiniteSet(DOMAIN w)
    BY <2>4, <2>6, FS_AddElement DEF ProgramMaps
  <2>8. \A q \in DOMAIN w : w[q] \in Bits16
    <3>1. ASSUME NEW q \in DOMAIN w PROVE w[q] \in Bits16
      <4>1. CASE q \in DOMAIN m
        BY <2>3, <2>4, <4>1 DEF ProgramMaps
      <4>2. CASE q \notin DOMAIN m
        <5>1. w[q] = es[1].program
          BY <2>3, <2>5, <4>2
        <5> QED BY <2>2, <5>1
      <4> QED BY <4>1, <4>2
    <3> QED BY <3>1
  <2>9. ProgramMaps(w)
    BY <2>3, <2>4, <2>6, <2>7, <2>8 DEF ProgramMaps
  <2>10. PATShape(new) /\ new.programs = w
    BY <2>9 DEF PATShape
  <2> HIDE DEF new
  <2>11. PATShape(z) /\ z.programs = w /\ z.crc = PATCovered(new) /\ PATCovered(z) = PATCovered(new)
    <3>1. /\ z = [programs |-> z.programs, pointer_field |-> z.pointer_field, table_id |-> z.table_id,
                  section_length |-> z.section_length, id |-> z.id, version |-> z.version,
                  current |-> z.current, section |-> z.section, last |-> z.last, crc |-> z.crc]
          /\ z.programs = w /\ z.crc = PATCovered(new) /\ z.pointer_field = new.pointer_field
          /\ z.table_id = new.table_id /\ z.id = new.id /\ z.section = new.section
          /\ z.last = new.last
      <4> DEFINE c == PATCovered(new)
      <4> HIDE DEF c
      <4> QED BY <2>10 DEF PATShape, c
    <3>2. PATCovered(z) = PATCovered(new)
      <4> HIDE DEF z
      <4> QED BY <2>10, <3>1 DEF PATCovered
    <3> HIDE DEF z
    <3> QED BY <2>9, <2>10, <3>1, <3>2 DEF PATShape
  <2> HIDE DEF u, z
  <2>12. PATShape(u) /\ u.programs = w /\ u.crc = PATCovered(u)
    BY <2>1, <2>11
  <2> QED BY <2>3, <2>6, <2>12 DEF u, m
<1> QED
  BY <1>1, <1>2

\* The inductive invariant.
States == {"build", "wire", "arrived", "endless"}

WireInv ==
    /\ state \in States
    /\ wire \in Seq(Packet) /\ (state = "wire" => wire # <<>>)
    /\ junk \in Byte
    /\ DOMAIN readPrograms.programs \subseteq Bits13
    /\ PATShape(assoc) /\ Len(PATserialize(assoc)) <= MaxSize

LEMMA NewPATShape ==
    /\ PATShape(NewPAT) /\ Len(PATserialize(NewPAT)) <= MaxSize
    /\ NewPAT.programs = <<>> /\ DOMAIN NewPAT.programs = {}
<1>1. NewPAT.programs = <<>> /\ DOMAIN <<>> = {} /\ <<>> = [q \in DOMAIN <<>> |-> <<>>[q]]
  BY DEF NewPAT
<1>2. IsFiniteSet({}) /\ Cardinality({}) = 0
  BY FS_EmptySet
<1>3. PATShape(NewPAT)
  <2>1. ProgramMaps(<<>>)
    BY <1>1, <1>2 DEF ProgramMaps
  <2> QED BY <2>1 DEF PATShape, NewPAT
<1>4. Len(PATserialize(NewPAT)) = 13 + 4 * Cardinality(DOMAIN NewPAT.programs)
  BY <1>3, PATBytes
<1>5. Len(PATserialize(NewPAT)) = 13 + 4 * 0
  BY <1>1, <1>2, <1>4
<1> QED
  BY <1>1, <1>3, <1>5 DEF MaxSize

\* A program association table that is not too long is written in bytes.
LEMMA WrittenPrograms ==
    ASSUME NEW a, PATShape(a), Len(PATserialize(a)) <= MaxSize
    PROVE  /\ PATserialize(a) \in Seq(Byte) /\ PATserialize(a) # <<>>
           /\ 9 + 4 * Cardinality(DOMAIN a.programs) \in Bits12
<1> DEFINE n == Cardinality(DOMAIN a.programs)
<1>1. n \in Nat /\ Len(PATserialize(a)) = 13 + 4 * n /\ PATserialize(a) # <<>>
  BY PATBytes
<1> HIDE DEF n
<1>2. 9 + 4 * n \in Bits12
  BY <1>1 DEF Bits12, MaxSize
<1>3. PATserialize(a) \in Seq(Byte)
  BY <1>2, PATBytes DEF n
<1> QED
  BY <1>1, <1>2, <1>3 DEF n

\* What packetize makes of a section.
LEMMA SentPackets ==
    ASSUME NEW s \in Seq(Byte), s # <<>>
    PROVE  /\ <<packetizeOne(s, 0)>> \in Seq(Packet) /\ <<packetizeOne(s, 0)>> # <<>>
           /\ packetize(s, 0) \in Seq(Packet) /\ packetize(s, 0) # <<>>
<1> DEFINE p == packetizeOne(s, 0)
<1>1. p \in Packet
  BY OnePacketFacts
<1> HIDE DEF p
<1>2. <<p>> \in Seq(Packet) /\ <<p>> # <<>>
  BY <1>1
<1> QED
  BY <1>2, PacketizeType DEF p

\* A section is sent: of bytes, as many as a table has.
LEMMA SentBytes ==
    ASSUME TableInv, WireInv
    PROVE  LET s == IF kind = "PMT" THEN serialize(table) ELSE PATserialize(assoc)
           IN  s \in Seq(Byte) /\ s # <<>>
<1>1. serialize(table) \in Seq(Byte) /\ serialize(table) # <<>>
  BY WrittenBytes DEF TableInv
<1>2. PATserialize(assoc) \in Seq(Byte) /\ PATserialize(assoc) # <<>>
  BY WrittenPrograms DEF WireInv
<1> QED
  BY <1>1, <1>2

\* The packets that are left.
LEMMA WireTail ==
    ASSUME NEW w \in Seq(Packet), w # <<>>
    PROVE  Head(w) \in Packet /\ Tail(w) \in Seq(Packet)
<1>1. w \in Seq(Packet) /\ w # <<>>
  OBVIOUS
<1>2. Head(w) = w[1] /\ Tail(w) \in Seq(Packet)
  BY <1>1, HeadTailProperties
<1>3. 1 \in 1..Len(w)
  <2>1. Len(w) \in Nat /\ Len(w) # 0
    BY <1>1, LenProperties, EmptySeq
  <2> QED BY <2>1
<1>4. w[1] \in Packet
  BY <1>3, ElementOfSeq
<1> QED
  BY <1>2, <1>4

LEMMA InitWireInv == Init => WireInv
<1> SUFFICES ASSUME Init PROVE WireInv
  OBVIOUS
<1>1. state = "build" /\ wire = <<>> /\ assoc = NewPAT /\ readPrograms = NewPAT /\ junk \in Byte
  BY JunkAssumption DEF Init, Byte
<1>2. <<>> \in Seq(Packet)
  BY EmptySeq
<1>3. DOMAIN readPrograms.programs = {} /\ PATShape(assoc) /\ Len(PATserialize(assoc)) <= MaxSize
  BY <1>1, NewPATShape
<1> QED
  BY <1>1, <1>2, <1>3 DEF WireInv, States

LEMMA SendWireInv ==
    ASSUME TableInv, WireInv, NEW f \in {"one", "many"}, Send(f)
    PROVE  WireInv'
<1> DEFINE s == IF kind = "PMT" THEN serialize(table) ELSE PATserialize(assoc)
<1>1. s \in Seq(Byte) /\ s # <<>>
  BY SentBytes
<1>2. /\ IF f = "many" /\ Endless(Len(s))
         THEN state' = "endless" /\ wire' = <<>>
         ELSE /\ state' = "wire"
              /\ wire' = IF f = "one" THEN <<packetizeOne(s, 0)>> ELSE packetize(s, 0)
      /\ UNCHANGED <<assoc, readPrograms, junk>>
  BY DEF Send, buildVars, readVars
<1> HIDE DEF s
<1>3. /\ <<packetizeOne(s, 0)>> \in Seq(Packet) /\ <<packetizeOne(s, 0)>> # <<>>
      /\ packetize(s, 0) \in Seq(Packet) /\ packetize(s, 0) # <<>>
  BY <1>1, SentPackets
<1>4. <<>> \in Seq(Packet)
  BY EmptySeq
<1>5. state' \in States /\ wire' \in Seq(Packet) /\ (state' = "wire" => wire' # <<>>)
  <2>1. CASE f = "many" /\ Endless(Len(s))
    BY <1>2, <1>4, <2>1 DEF States
  <2>2. CASE ~(f = "many" /\ Endless(Len(s)))
    <3>1. /\ state' = "wire"
          /\ wire' = <<packetizeOne(s, 0)>> \/ wire' = packetize(s, 0)
      BY <1>2, <2>2
    <3>2. CASE wire' = <<packetizeOne(s, 0)>>
      BY <1>3, <3>1, <3>2, Zenon DEF States
    <3>3. CASE wire' = packetize(s, 0)
      BY <1>3, <3>1, <3>3, Zenon DEF States
    <3> QED BY <3>1, <3>2, <3>3
  <2> QED BY <2>1, <2>2
<1>6. assoc' = assoc /\ readPrograms' = readPrograms /\ junk' = junk
  BY <1>2
<1> QED
  BY <1>5, <1>6 DEF WireInv

LEMMA ReceiveWireInv ==
    ASSUME WireInv, Receive
    PROVE  WireInv'
<1>1. wire \in Seq(Packet) /\ wire # <<>> /\ junk \in Byte
  BY DEF WireInv, Receive
<1>2. wire' = Tail(wire) /\ state' = (IF wire' = <<>> THEN "arrived" ELSE "wire")
  BY DEF Receive
<1>3. Head(wire) \in Packet /\ wire' \in Seq(Packet)
  BY <1>1, <1>2, WireTail
<1> DEFINE p == Head(wire)
           v == getData(p)
<1>4. v \in Seq(Byte) /\ v # <<>>
  BY <1>3, DataOf
<1>5. \/ readPrograms' = readPrograms
      \/ readPrograms' = PATparse(readPrograms, v, junk)
  BY DEF Receive
<1> HIDE DEF p, v
<1>6. DOMAIN readPrograms'.programs \subseteq Bits13
  <2>1. DOMAIN readPrograms.programs \subseteq Bits13
    BY DEF WireInv
  <2>2. CASE readPrograms' = readPrograms
    BY <2>1, <2>2
  <2>3. CASE readPrograms' = PATparse(readPrograms, v, junk)
    <3> DEFINE es == EntriesOf(v, junk)
               m == readPrograms.programs
               w == Learn(m, es)
    <3>1. es \in Seq(Entry)
      BY <1>1, <1>4, EntryTypes
    <3>2. readPrograms'.programs = w
      BY <2>3, ParsedPrograms
    <3>3. DOMAIN m \subseteq Bits13
      BY <2>1
    <3> HIDE DEF es, m
    <3>4. Learns(w, m, es)
      BY <3>1, Learnt
    <3> HIDE DEF w
    <3>5. ASSUME NEW k \in 1..Len(es) PROVE es[k].pid \in Bits13
      <4>1. es[k] \in Entry
        BY <3>1, ElementOfSeq
      <4> QED BY <4>1 DEF Entry
    <3>6. DOMAIN w \subseteq Bits13
      BY <3>3, <3>4, <3>5 DEF Learns
    <3> QED BY <3>2, <3>6
  <2> QED BY <1>5, <2>2, <2>3
<1>7. assoc' = assoc /\ junk' = junk
  BY DEF Receive, buildVars
<1>8. state' \in States /\ (state' = "wire" => wire' # <<>>)
  BY <1>2 DEF States
<1> QED
  BY <1>3, <1>6, <1>7, <1>8 DEF WireInv

LEMMA AddWireInv ==
    ASSUME WireInv, NEW p \in Programs, AddProgram(p)
    PROVE  WireInv'
<1>1. p.program \in Bits16 /\ p.pid \in Bits13
  <2>1. Program = [program : Bits16, pid : Bits13]
    BY DEF Program, Bits16, Bits13, PID
  <2>2. p \in Program
    BY ProgramsAssumption
  <2> QED BY <2>1, <2>2
<1>2. assoc' = addProgram(assoc, p.program, p.pid) /\ Len(PATserialize(assoc')) <= MaxSize
  BY DEF AddProgram
<1>3. PATShape(assoc')
  <2> DEFINE u == addProgram(assoc, p.program, p.pid)
  <2>1. PATShape(u)
    BY <1>1, ProgramAdded DEF WireInv
  <2> HIDE DEF u
  <2>2. assoc' = u
    BY <1>2 DEF u
  <2> QED BY <2>1, <2>2
<1>4. state' = "build" /\ wire' = wire /\ readPrograms' = readPrograms /\ junk' = junk
  BY DEF AddProgram, readVars
<1> QED
  BY <1>2, <1>3, <1>4 DEF WireInv, States

LEMMA NextWireInv == TableInv /\ WireInv /\ [Next]_vars => WireInv'
<1> SUFFICES ASSUME TableInv, WireInv, [Next]_vars PROVE WireInv'
  OBVIOUS
<1>1. ASSUME UNCHANGED <<assoc, sendVars, readVars>> PROVE WireInv'
  <2>1. /\ assoc' = assoc /\ state' = state /\ wire' = wire /\ junk' = junk
        /\ readPrograms' = readPrograms
    BY <1>1 DEF sendVars, readVars
  <2> QED BY <2>1 DEF WireInv
<1>2. ASSUME NEW e \in Elements, AddProgramElement(e) \/ RemoveProgramElement(e) PROVE WireInv'
  BY <1>1, <1>2 DEF AddProgramElement, RemoveProgramElement
<1>3. ASSUME NEW k \in 1..Len(table.elmts), NEW d \in Extra, EditElement(k, d) PROVE WireInv'
  BY <1>1, <1>3 DEF EditElement
<1>4. ASSUME NEW p \in Programs, AddProgram(p) PROVE WireInv'
  BY <1>4, AddWireInv
<1>5. ASSUME NEW f \in {"one", "many"}, Send(f) PROVE WireInv'
  BY <1>5, SendWireInv
<1>6. CASE Receive
  BY <1>6, ReceiveWireInv
<1>7. CASE UNCHANGED vars
  BY <1>1, <1>7 DEF vars, buildVars
<1> QED
  BY <1>2, <1>3, <1>4, <1>5, <1>6, <1>7 DEF Next

\* Whatever is built, sent and read, every byte that is written is a byte, the field of
\* a packet has a length that a byte can hold, and a PID that is learned has 13 bits.
THEOREM BytesOnly == Spec => []TypeOK
<1>1. Init => TableInv /\ WireInv
  BY InitTableInv, InitWireInv
<1>2. TableInv /\ WireInv /\ [Next]_vars => (TableInv /\ WireInv)'
  BY NextTableInv, NextWireInv
<1>3. TableInv /\ WireInv => TypeOK
  <2> SUFFICES ASSUME TableInv, WireInv PROVE TypeOK
    OBVIOUS
  <2> DEFINE s == serialize(table)
  <2>1. s \in Seq(Byte)
    BY WrittenBytes DEF TableInv
  <2> HIDE DEF s
  <2>2. \A b \in Range(s) : b \in 0..255
    <3>1. \A k \in DOMAIN s : s[k] \in Byte
      BY <2>1
    <3> QED BY <3>1 DEF Range, Byte
  <2>3. ASSUME NEW p \in Packet PROVE p.afLen \in -1..255 /\ Range(p.bytes) \subseteq 0..255
    <3>1. p.afLen \in Byte \cup {NoField} /\ p.bytes \in Seq(Byte)
      BY DEF Packet
    <3>2. p.afLen \in -1..255
      BY <3>1 DEF Byte, NoField
    <3>3. \A k \in DOMAIN p.bytes : p.bytes[k] \in Byte
      BY <3>1
    <3> QED BY <3>2, <3>3 DEF Range, Byte
  <2>4. \A p \in Range(wire) : p \in Packet
    <3>1. wire \in Seq(Packet)
      BY DEF WireInv
    <3>2. \A k \in DOMAIN wire : wire[k] \in Packet
      BY <3>1
    <3> QED BY <3>2 DEF Range
  <2>5. state \in States /\ DOMAIN readPrograms.programs \subseteq Bits13
    BY DEF WireInv
  <2>6. state \in {"build", "wire", "arrived", "endless"}
    BY <2>5 DEF States
  <2>7. DOMAIN readPrograms.programs \subseteq PID
    BY <2>5 DEF Bits13, PID
  <2>8. \A p \in Range(wire) : p.afLen \in -1..255 /\ Range(p.bytes) \subseteq 0..255
    BY <2>3, <2>4
  <2>9. \A b \in Range(serialize(table)) : b \in 0..255
    BY <2>2 DEF s
  <2> QED BY <2>6, <2>7, <2>8, <2>9, Zenon DEF TypeOK
<1> QED
  BY <1>1, <1>2, <1>3, PTL DEF Spec

-----------------------------------------------------------------------------
(***************************************************************************)
(* A program association table that fits into a packet arrives.            *)
(***************************************************************************)
\* Programs that were learned from a table to which more may have been added.
Agree(m, n) == /\ m = [q \in DOMAIN m |-> m[q]]
               /\ DOMAIN m \subseteq DOMAIN n
               /\ \A q \in DOMAIN m : m[q] = n[q]

\* The first packet of a table that fits holds the entries.
LEMMA FirstPacket ==
    ASSUME NEW a, PATShape(a), Len(PATserialize(a)) <= MaxSize,
           Cardinality(DOMAIN a.programs) <= InFirstPacket, NEW p, p = packetizeOne(PATserialize(a), 0)
    PROVE  LET n == Cardinality(DOMAIN a.programs)
               s == PATserialize(a)
               v == getData(p)
           IN  /\ n \in Nat /\ v \in Seq(Byte) /\ Len(v) \in Nat /\ 9 + 4 * n <= Len(v)
               /\ 13 + 4 * n <= PayloadSize + 4 /\ Len(s) = 13 + 4 * n
               /\ \A k \in 1..(9 + 4 * n) : v[k] = s[k]
<1> DEFINE n == Cardinality(DOMAIN a.programs)
           s == PATserialize(a)
           v == getData(p)
           P == PayloadSize
<1>1. n \in Nat /\ Len(s) = 13 + 4 * n
  BY PATBytes
<1>2. s \in Seq(Byte)
  BY WrittenPrograms
<1>3. /\ p \in Packet /\ p.afLen = NoField
      /\ \A k \in 1..PayloadSize : p.bytes[k] = IF k <= Len(s) THEN s[k] ELSE 255
  <2> HIDE DEF s
  <2> DEFINE q == packetizeOne(s, 0)
  <2>1. q \in Packet /\ Carries(q, s)
    BY <1>2, OnePacketFacts
  <2> HIDE DEF q
  <2>2. p = q
    BY DEF q, s
  <2> QED BY <2>1, <2>2 DEF Carries
<1>4. v = p.bytes
  BY <1>3 DEF getData
<1>5. p.bytes \in Seq(Byte) /\ Len(p.bytes) = P
  BY <1>3 DEF Packet
<1>6. n <= (P - 9) \div 4 /\ P \in Nat /\ P > 16
  BY PayloadSizeAssumption DEF InFirstPacket
<1> HIDE DEF n, s, v, P
<1>7. 9 + 4 * n <= P
  BY <1>1, <1>6
<1>8. \A k \in 1..(9 + 4 * n) : k \in 1..P /\ k <= Len(s)
  BY <1>1, <1>6, <1>7
<1>9. \A k \in 1..(9 + 4 * n) : v[k] = s[k]
  BY <1>3, <1>4, <1>8 DEF P
<1>10. v \in Seq(Byte) /\ Len(v) = P
  BY <1>4, <1>5
<1>11. 13 + 4 * n <= P + 4
  BY <1>1, <1>6, <1>7
<1> QED
  BY <1>1, <1>6, <1>7, <1>9, <1>10, <1>11 DEF n, s, v, P

\* The entries that are read from it are those of the table, in order.
LEMMA EntriesRead ==
    ASSUME NEW a, PATShape(a), Len(PATserialize(a)) <= MaxSize,
           Cardinality(DOMAIN a.programs) <= InFirstPacket, NEW p, p = packetizeOne(PATserialize(a), 0),
           NEW j \in Byte
    PROVE  LET es == EntriesOf(getData(p), j)
               m == a.programs
           IN  /\ es \in Seq(Entry) /\ Len(es) = Cardinality(DOMAIN m)
               /\ \A k \in 1..Len(es) : /\ es[k].pid = Nth(DOMAIN m, k)
                                        /\ es[k].program = m[Nth(DOMAIN m, k)]
<1> DEFINE m == a.programs
           D == DOMAIN m
           n == Cardinality(D)
           s == PATserialize(a)
           v == getData(p)
           item == EntryAt(v, j)
           to == 9 + 4 * n
           at == [i \in 0..n |-> 9 + 4 * i]
           w == Walk(item, Fours, at[0], to)
<1>1. /\ n \in Nat /\ v \in Seq(Byte) /\ Len(v) \in Nat /\ to <= Len(v)
      /\ \A k \in 1..to : v[k] = s[k]
  BY FirstPacket
<1>2. /\ s[1] = 0 /\ Value12(s[3], s[4]) = to
      /\ \A k \in 1..n, i \in 1..4 :
            s[9 + (4 * (k - 1) + i)] = OneEntry(m[Nth(D, k)], Nth(D, k))[i]
  <2>1. to \in Bits12
    BY WrittenPrograms
  <2> QED BY <2>1, PATBytes
<1>3. ProgramMaps(m)
  BY DEF PATShape
<1> HIDE DEF m, n, s, v
<1>4. v # <<>> /\ 1 \in 1..to /\ 3 \in 1..to /\ 4 \in 1..to /\ 2 < Len(v) /\ 3 < Len(v)
  <2>1. v # <<>>
    BY <1>1
  <2> QED BY <1>1, <2>1
<1>5. TableAt(v) = 1 /\ EntriesTo(v, j) = to
  <2>1. TableAt(v) = 1
    BY <1>1, <1>2, <1>4 DEF TableAt
  <2>2. At(v, 2, j) = v[2 + 1] /\ At(v, 3, j) = v[3 + 1]
    BY <1>4 DEF At
  <2>3. Short(v, 2, 4096, j) = Value12(At(v, 2, j), At(v, 2 + 1, j))
    BY <1>1, ShortOf
  <2>4. Short(v, 2, 4096, j) = to
    BY <1>1, <1>2, <1>4, <2>2, <2>3
  <2>5. EntriesTo(v, j) = last(1 + 8, to)
    BY <2>1, <2>4 DEF EntriesTo
  <2> QED BY <1>1, <2>1, <2>5 DEF last
<1>6. EntriesOf(v, j) = w.list
  BY <1>1, <1>5 DEF EntriesOf
<1>7. /\ w.list \in Seq(Entry) /\ Len(w.list) = n
      /\ \A i \in 1..n : w.list[i] = item[at[i - 1]]
  <2>1. \A c \in Nat : item[c] \in Entry
    BY <1>1, <1>4, EntryTypes
  <2>2. Forward(Fours)
    BY <1>1, <1>4, EntryTypes
  <2>3. to \in Int /\ (\A i \in 0..n : at[i] \in Nat) /\ ~(at[n] < to)
    BY <1>1
  <2>4. ASSUME NEW i \in 1..n PROVE at[i - 1] < to /\ Fours[at[i - 1]] = at[i]
    <3>1. i - 1 \in 0..n /\ i \in 0..n /\ 9 + 4 * (i - 1) \in Nat
      BY <1>1
    <3>2. at[i - 1] = 9 + 4 * (i - 1) /\ at[i] = 9 + 4 * i
      BY <3>1
    <3>3. Fours[9 + 4 * (i - 1)] = 9 + 4 * (i - 1) + 4
      BY <3>1 DEF Fours
    <3> QED BY <1>1, <3>1, <3>2, <3>3
  <2> HIDE DEF item, at, to
  <2>5. Stops(Fours, to, n, at)
    BY <2>3, <2>4 DEF Stops
  <2>6. w.list \in Seq(Entry) /\ Gathers(w, item, n, at)
    BY <1>1, <2>1, <2>2, <2>3, <2>5, WalkAlong
  <2> HIDE DEF w
  <2> QED BY <2>6 DEF Gathers
<1> HIDE DEF w
<1>8. ASSUME NEW k \in 1..n
      PROVE  w.list[k].pid = Nth(D, k) /\ w.list[k].program = m[Nth(D, k)]
  <2> DEFINE c == 9 + 4 * (k - 1)
             q == Nth(D, k)
             e == OneEntry(m[q], q)
  <2>1. c \in Nat /\ c = at[k - 1] /\ c + 4 <= to
    BY <1>1
  <2>2. item[c] = [program |-> Short(v, c, 65536, j), pid |-> Short(v, c + 2, 8192, j)]
    BY <2>1 DEF EntryAt
  <2>3. w.list[k] = item[c]
    BY <1>7, <2>1
  <2> HIDE DEF item
  <2>4. q \in D
    <3>0. Bits13 \subseteq Nat
      BY DEF Bits13
    <3>1. IsFiniteSet(D) /\ D \subseteq Bits13 /\ Bits13 \subseteq Nat
      BY <1>3, <3>0 DEF ProgramMaps
    <3>2. IsFiniteSet(D) /\ D \subseteq Nat /\ k \in 1..Cardinality(D)
      BY <3>1 DEF n
    <3> HIDE DEF c, e
    <3> QED BY <3>2, NthFacts
  <2>5. m[q] \in Bits16 /\ q \in Bits13
    BY <1>3, <2>4 DEF ProgramMaps
  <2> HIDE DEF q
  <2>6. Value16(e[1], e[2]) = m[q] /\ Value13(e[3], e[4]) = q
    BY <2>5, OneEntryBytes
  <2>7. ASSUME NEW i \in 1..4 PROVE v[c + i] = e[i]
    <3>1. c + i \in 1..to /\ c + i = 9 + (4 * (k - 1) + i)
      BY <1>1, <2>1
    <3>2. s[9 + (4 * (k - 1) + i)] = e[i]
      BY <1>2 DEF q
    <3> HIDE DEF c, e
    <3> QED BY <1>1, <3>1, <3>2
  <2> HIDE DEF e
  <2>8. /\ c < Len(v) /\ c + 1 < Len(v) /\ c + 2 < Len(v) /\ (c + 2) + 1 < Len(v)
        /\ (c + 1) + 1 = c + 2 /\ (c + 2) + 1 = c + 3 /\ ((c + 2) + 1) + 1 = c + 4
        /\ c + 2 \in Nat
    BY <1>1, <2>1
  <2> HIDE DEF c
  <2>9. /\ At(v, c, j) = e[1] /\ At(v, c + 1, j) = e[2]
        /\ At(v, c + 2, j) = e[3] /\ At(v, (c + 2) + 1, j) = e[4]
    <3>1. v[c + 1] = e[1] /\ v[c + 2] = e[2] /\ v[c + 3] = e[3] /\ v[c + 4] = e[4]
      BY <2>7
    <3> QED BY <2>8, <3>1 DEF At
  <2>10. Short(v, c, 65536, j) = Value16(e[1], e[2])
    BY <1>1, <2>1, <2>9, ShortOf
  <2>11. Short(v, c + 2, 8192, j) = Value13(e[3], e[4])
    BY <1>1, <2>8, <2>9, ShortOf
  <2>12. Short(v, c, 65536, j) = m[q] /\ Short(v, c + 2, 8192, j) = q
    BY <2>6, <2>10, <2>11
  <2>13. w.list[k] = [program |-> m[q], pid |-> q]
    BY <2>2, <2>3, <2>12
  <2> QED BY <2>13 DEF q
<1> QED
  BY <1>6, <1>7, <1>8 DEF m, n, v

\* The programs that are read from it, with what was learned before, are those of the table.
LEMMA ProgramsRead ==
    ASSUME NEW a, PATShape(a), Len(PATserialize(a)) <= MaxSize,
           Cardinality(DOMAIN a.programs) <= InFirstPacket, NEW p, p = packetizeOne(PATserialize(a), 0),
           NEW j \in Byte, NEW r, Agree(r.programs, a.programs)
    PROVE  PATparse(r, getData(p), j).programs = a.programs
<1> DEFINE m == a.programs
           D == DOMAIN m
           n == Cardinality(D)
           l == r.programs
           es == EntriesOf(getData(p), j)
           w == Learn(l, es)
<1>1. /\ es \in Seq(Entry) /\ Len(es) = n
      /\ \A k \in 1..Len(es) : es[k].pid = Nth(D, k) /\ es[k].program = m[Nth(D, k)]
  BY EntriesRead
<1>2. PATparse(r, getData(p), j).programs = w
  BY ParsedPrograms
<1>3. m = [q \in D |-> m[q]] /\ IsFiniteSet(D) /\ D \subseteq Nat
  <2>1. ProgramMaps(m)
    BY DEF PATShape
  <2>2. Bits13 \subseteq Nat
    BY DEF Bits13
  <2> HIDE DEF m
  <2> QED BY <2>1, <2>2 DEF ProgramMaps
<1>4. DOMAIN l \subseteq D /\ \A q \in DOMAIN l : l[q] = m[q]
  BY DEF Agree
<1> HIDE DEF m, es, l
<1>5. Learns(w, l, es)
  BY <1>1, Learnt
<1> HIDE DEF w
<1>6. /\ \A k \in 1..n : Nth(D, k) \in D
      /\ \A q \in D : \E k \in 1..n : Nth(D, k) = q
  BY <1>3, NthFacts
<1>7. DOMAIN w = D
  <2>1. {es[k].pid : k \in 1..Len(es)} = {Nth(D, k) : k \in 1..n}
    BY <1>1
  <2>2. {Nth(D, k) : k \in 1..n} = D
    BY <1>6
  <2> QED BY <1>4, <1>5, <2>1, <2>2 DEF Learns
<1>8. ASSUME NEW q \in D PROVE w[q] = m[q]
  <2>1. CASE q \in DOMAIN l
    BY <1>4, <1>5, <2>1 DEF Learns
  <2>2. CASE q \notin DOMAIN l
    <3>1. PICK k \in 1..Len(es) : es[k].pid = q /\ w[q] = es[k].program
      BY <1>5, <1>7, <2>2 DEF Learns
    <3> QED BY <1>1, <3>1
  <2> QED BY <2>1, <2>2
<1>9. w = [q \in DOMAIN w |-> w[q]]
  BY <1>5 DEF Learns
<1>10. w = m
  BY <1>3, <1>7, <1>8, <1>9
<1> QED
  BY <1>2, <1>10 DEF m

\* The table is on its way in one packet, from which its entries are read.
Arriving ==
    Cardinality(DOMAIN assoc.programs) <= InFirstPacket =>
        /\ Agree(readPrograms.programs, assoc.programs)
        /\ state = "wire" => wire = <<packetizeOne(PATserialize(assoc), 0)>>
        /\ state = "arrived" => readPrograms.programs = assoc.programs

ArriveInv ==
    /\ kind = "PAT" => Arriving
    /\ assoc.programs # <<>> => assoc.crc = PATCovered(assoc)

LEMMA InitArriveInv == Init => ArriveInv
<1> SUFFICES ASSUME Init PROVE ArriveInv
  OBVIOUS
<1>1. state = "build" /\ assoc = NewPAT /\ readPrograms = NewPAT
  BY DEF Init
<1>2. assoc.programs = <<>> /\ readPrograms.programs = <<>>
  BY <1>1, NewPATShape
<1>3. Agree(<<>>, <<>>)
  BY DEF Agree
<1>4. Arriving
  BY <1>1, <1>2, <1>3 DEF Arriving
<1> QED
  BY <1>2, <1>4 DEF ArriveInv

LEMMA SendArriving ==
    ASSUME WireInv, Arriving, kind = "PAT", NEW f \in {"one", "many"}, Send(f)
    PROVE  Arriving'
<1> DEFINE s == PATserialize(assoc)
           n == Cardinality(DOMAIN assoc.programs)
           p == packetizeOne(s, 0)
<1>1. /\ IF f = "many" /\ Endless(Len(s))
         THEN state' = "endless" /\ wire' = <<>>
         ELSE /\ state' = "wire"
              /\ wire' = IF f = "one" THEN <<p>> ELSE packetize(s, 0)
      /\ UNCHANGED <<assoc, readPrograms>>
  BY DEF Send, buildVars, readVars
<1>2. ASSUME n <= InFirstPacket, state' = "wire" PROVE wire' = <<p>>
  <2>1. CASE f = "one"
    BY <1>1, <2>1
  <2>2. CASE f # "one"
    <3>1. s \in Seq(Byte) /\ s # <<>> /\ PATShape(assoc) /\ Len(s) <= MaxSize
      BY WrittenPrograms DEF WireInv
    <3>2. n \in Nat /\ 13 + 4 * n <= PayloadSize + 4 /\ Len(s) = 13 + 4 * n
      <4>1. PATShape(assoc) /\ Len(PATserialize(assoc)) <= MaxSize
        BY <3>1
      <4> QED BY <1>2, <4>1, FirstPacket
    <3>3. f = "many" /\ ~Endless(Len(s)) /\ wire' = packetize(s, 0)
      BY <1>1, <1>2, <2>2
    <3> HIDE DEF s, n
    <3>4. Len(s) <= PayloadSize
      BY <3>2, <3>3, PayloadSizeAssumption DEF Endless, Fits, TS_SIZE
    <3>5. packetize(s, 0) = <<packetizeOne(s, 0)>>
      BY <3>1, <3>4, PacketizeType
    <3> QED BY <3>3, <3>5 DEF p
  <2> QED BY <2>1, <2>2
<1>3. state' # "arrived" /\ assoc' = assoc /\ readPrograms' = readPrograms
  BY <1>1
<1> QED
  BY <1>2, <1>3 DEF Arriving

LEMMA ReceiveArriving ==
    ASSUME WireInv, Arriving, kind = "PAT", Receive
    PROVE  Arriving'
<1>1. assoc' = assoc /\ state = "wire"
  BY DEF Receive, buildVars
<1>2. SUFFICES ASSUME Cardinality(DOMAIN assoc.programs) <= InFirstPacket PROVE Arriving'
  BY <1>1 DEF Arriving
<1> DEFINE s == PATserialize(assoc)
           p == packetizeOne(s, 0)
           v == getData(p)
<1>3. wire = <<p>> /\ Agree(readPrograms.programs, assoc.programs)
  BY <1>1, <1>2 DEF Arriving
<1>4. PATShape(assoc) /\ Len(s) <= MaxSize /\ junk \in Byte
  BY DEF WireInv
<1>5. p.start = TRUE
  <2>1. s \in Seq(Byte)
    BY <1>4, WrittenPrograms
  <2> HIDE DEF s
  <2>2. Carries(p, s)
    BY <2>1, OnePacketFacts
  <2> HIDE DEF p
  <2> QED BY <2>2 DEF Carries
<1>6. PATparse(readPrograms, v, junk).programs = assoc.programs
  BY <1>2, <1>3, <1>4, ProgramsRead
<1> HIDE DEF p
<1>7. Head(wire) = p
  BY <1>3
<1>8. readPrograms' = IF p.start THEN PATparse(readPrograms, v, junk) ELSE readPrograms
  BY <1>7 DEF Receive
<1>9. readPrograms'.programs = assoc.programs
  BY <1>5, <1>6, <1>8
<1>10. Tail(wire) = <<>>
  BY <1>3
<1>11. state' = "arrived"
  BY <1>10 DEF Receive
<1>12. Agree(assoc.programs, assoc.programs)
  BY <1>4 DEF PATShape, ProgramMaps, Agree
<1> QED
  BY <1>1, <1>9, <1>11, <1>12 DEF Arriving

LEMMA AddArriveInv ==
    ASSUME WireInv, ArriveInv, NEW p \in Programs, AddProgram(p)
    PROVE  ArriveInv'
<1> DEFINE u == addProgram(assoc, p.program, p.pid)
           m == assoc.programs
           n == assoc'.programs
           l == readPrograms.programs
<1>1. p.program \in Bits16 /\ p.pid \in Bits13
  <2>1. Program = [program : Bits16, pid : Bits13]
    BY DEF Program, Bits16, Bits13, PID
  <2>2. p \in Program
    BY ProgramsAssumption
  <2> QED BY <2>1, <2>2
<1>2. /\ PATShape(u) /\ (u = assoc \/ u.crc = PATCovered(u))
      /\ DOMAIN assoc.programs \subseteq DOMAIN u.programs
      /\ \A q \in DOMAIN assoc.programs : u.programs[q] = assoc.programs[q]
  BY <1>1, ProgramAdded DEF WireInv
<1> HIDE DEF u
<1>3. assoc' = u /\ state' = "build" /\ readPrograms' = readPrograms /\ kind' = kind /\ kind = "PAT"
  BY DEF AddProgram, readVars, u
<1>4. assoc'.programs # <<>> => assoc'.crc = PATCovered(assoc')
  <2>1. CASE u = assoc
    BY <1>3, <2>1 DEF ArriveInv
  <2>2. CASE u.crc = PATCovered(u)
    BY <1>3, <2>2
  <2> QED BY <1>2, <2>1, <2>2
<1>5. Cardinality(DOMAIN n) <= InFirstPacket => Cardinality(DOMAIN m) <= InFirstPacket
  <2>1. IsFiniteSet(DOMAIN n) /\ DOMAIN m \subseteq DOMAIN n
    BY <1>2, <1>3 DEF PATShape, ProgramMaps
  <2>2. /\ Cardinality(DOMAIN m) <= Cardinality(DOMAIN n)
        /\ Cardinality(DOMAIN m) \in Nat /\ Cardinality(DOMAIN n) \in Nat
    <3> HIDE DEF m, n
    <3> QED BY <2>1, FS_Subset, FS_CardinalityType
  <2>3. InFirstPacket \in Int
    BY PayloadSizeAssumption DEF InFirstPacket
  <2> HIDE DEF m, n
  <2> QED BY <2>2, <2>3
<1>6. ASSUME Cardinality(DOMAIN n) <= InFirstPacket PROVE Agree(l, n)
  <2>1. Agree(l, m)
    BY <1>3, <1>5, <1>6 DEF ArriveInv, Arriving
  <2>2. DOMAIN m \subseteq DOMAIN n /\ \A q \in DOMAIN m : n[q] = m[q]
    BY <1>2, <1>3
  <2> HIDE DEF l, m, n
  <2> QED BY <2>1, <2>2 DEF Agree
<1>7. Arriving'
  BY <1>3, <1>6 DEF Arriving
<1> QED
  BY <1>4, <1>7 DEF ArriveInv

LEMMA NextArriveInv == WireInv /\ ArriveInv /\ [Next]_vars => ArriveInv'
<1> SUFFICES ASSUME WireInv, ArriveInv, [Next]_vars PROVE ArriveInv'
  OBVIOUS
<1>1. ASSUME UNCHANGED <<kind, assoc, state, wire, readPrograms>> PROVE ArriveInv'
  <2>1. /\ kind' = kind /\ assoc' = assoc /\ state' = state /\ wire' = wire
        /\ readPrograms' = readPrograms
    BY <1>1
  <2> QED BY <2>1 DEF ArriveInv, Arriving
<1>2. ASSUME NEW e \in Elements, AddProgramElement(e) \/ RemoveProgramElement(e) PROVE ArriveInv'
  BY <1>1, <1>2 DEF AddProgramElement, RemoveProgramElement, sendVars, readVars
<1>3. ASSUME NEW k \in 1..Len(table.elmts), NEW d \in Extra, EditElement(k, d) PROVE ArriveInv'
  BY <1>1, <1>3 DEF EditElement, sendVars, readVars
<1>4. ASSUME NEW p \in Programs, AddProgram(p) PROVE ArriveInv'
  BY <1>4, AddArriveInv
<1>5. ASSUME NEW f \in {"one", "many"}, Send(f) PROVE ArriveInv'
  <2>1. kind' = kind /\ assoc' = assoc
    BY <1>5 DEF Send, buildVars
  <2>2. kind = "PAT" => Arriving'
    BY <1>5, SendArriving DEF ArriveInv
  <2> QED BY <2>1, <2>2 DEF ArriveInv
<1>6. CASE Receive
  <2>1. kind' = kind /\ assoc' = assoc
    BY <1>6 DEF Receive, buildVars
  <2>2. kind = "PAT" => Arriving'
    BY <1>6, ReceiveArriving DEF ArriveInv
  <2> QED BY <2>1, <2>2 DEF ArriveInv
<1>7. CASE UNCHANGED vars
  BY <1>1, <1>7 DEF vars, buildVars, sendVars, readVars
<1> QED
  BY <1>2, <1>3, <1>4, <1>5, <1>6, <1>7 DEF Next

\* However many program association tables are built and sent, a receiver knows the programs
\* of all of them, as long as the last fits into one packet.
THEOREM ProgramsKnown == Spec => []ProgramsArrive
<1>1. Init => TableInv /\ WireInv /\ ArriveInv
  BY InitTableInv, InitWireInv, InitArriveInv
<1>2. TableInv /\ WireInv /\ ArriveInv /\ [Next]_vars => (TableInv /\ WireInv /\ ArriveInv)'
  BY NextTableInv, NextWireInv, NextArriveInv
<1>3. ArriveInv => ProgramsArrive
  BY DEF ArriveInv, Arriving, ProgramsArrive
<1> QED
  BY <1>1, <1>2, <1>3, PTL DEF Spec

-----------------------------------------------------------------------------
(***************************************************************************)
(* A program map table that is sent is found as it is.                     *)
(***************************************************************************)
\* The four parts of an element, and where they lie.
ElementLies(e, v, c) ==
    /\ Lies(<<e.type>>, v, c)
    /\ Lies(Bytes2(e.pid + 57344), v, c + 1)
    /\ Lies(Bytes2(ES_info_length(e) + 61440), v, c + 3)
    /\ Lies(DescBytes(e.descs), v, c + 5)

LEMMA ElementThere ==
    ASSUME NEW e \in Element, NEW v, Len(v) \in Nat, NEW c \in Nat, Lies(OneElem(e), v, c)
    PROVE  ElementLies(e, v, c)
<1> DEFINE a == <<e.type>>
           b == Bytes2(e.pid + 57344)
           l == Bytes2(ES_info_length(e) + 61440)
           d == DescBytes(e.descs)
           x == Cat(a, b)
           y == Cat(x, l)
<1>1. e.type \in Byte /\ e.pid \in Bits13 /\ ES_info_length(e) \in Nat /\ d \in Seq(Byte)
  BY ElementParts, InfoLength
<1>2. Byte \subseteq Nat /\ Bits13 \subseteq Nat
  BY DEF Byte, Bits13
<1>3. e.type \in Nat /\ d \in Seq(Nat)
  <2>1. d \in Seq(Byte) /\ Byte \subseteq Nat /\ e.type \in Byte
    BY <1>1, <1>2
  <2> HIDE DEF d
  <2> QED BY <2>1, SeqMonotonic
<1>4. e.pid + 57344 \in Nat /\ ES_info_length(e) + 61440 \in Nat
  <2> DEFINE p == e.pid
  <2>1. p \in Nat
    BY <1>1, <1>2
  <2> HIDE DEF p
  <2>2. p + 57344 \in Nat
    BY <2>1
  <2>3. ES_info_length(e) + 61440 \in Nat
    BY <1>1
  <2> QED BY <2>2, <2>3 DEF p
<1>5. a \in Seq(Nat) /\ Len(a) = 1
  BY <1>3
<1>6. b \in Seq(Nat) /\ Len(b) = 2
  <2> DEFINE m == e.pid + 57344
  <2>1. m \in Nat
    BY <1>4
  <2> HIDE DEF m
  <2>2. Bytes2(m) \in Seq(Nat) /\ Len(Bytes2(m)) = 2
    BY <2>1, Bytes2Facts
  <2> QED BY <2>2 DEF m
<1>7. l \in Seq(Nat) /\ Len(l) = 2
  BY <1>4, Bytes2Facts
<1>8. OneElem(e) = Cat(y, d)
  BY DEF OneElem, Cat
<1> HIDE DEF a, b, l, d
<1>9. x \in Seq(Nat) /\ Len(x) = 3
  <2>1. x \in Seq(Nat) /\ Len(x) = Len(a) + Len(b)
    BY <1>5, <1>6, CatType
  <2> QED BY <1>5, <1>6, <2>1
<1>10. y \in Seq(Nat) /\ Len(y) = 5
  <2> HIDE DEF x
  <2>1. y \in Seq(Nat) /\ Len(y) = Len(x) + Len(l)
    BY <1>7, <1>9, CatType
  <2> QED BY <1>7, <1>9, <2>1
<1>11. Lies(y, v, c) /\ Lies(d, v, c + 5)
  <2> HIDE DEF y
  <2>1. Lies(Cat(y, d), v, c)
    BY <1>8
  <2>2. Lies(y, v, c) /\ Lies(d, v, c + Len(y))
    BY <1>3, <1>10, <2>1, LiesBoth
  <2> QED BY <1>10, <2>2
<1>12. Lies(x, v, c) /\ Lies(l, v, c + 3)
  <2> HIDE DEF x
  <2>1. Lies(Cat(x, l), v, c)
    BY <1>11
  <2>2. Lies(x, v, c) /\ Lies(l, v, c + Len(x))
    BY <1>7, <1>9, <2>1, LiesBoth
  <2> QED BY <1>9, <2>2
<1>13. Lies(a, v, c) /\ Lies(b, v, c + 1)
  <2>1. Lies(Cat(a, b), v, c)
    BY <1>12
  <2>2. Lies(a, v, c) /\ Lies(b, v, c + Len(a))
    BY <1>5, <1>6, <2>1, LiesBoth
  <2> QED BY <1>5, <2>2
<1> QED
  BY <1>11, <1>12, <1>13 DEF ElementLies, a, b, l, d

\* An element whose descriptors can be read.
Brief(e) == ES_info_length(e) < 1024 /\ ShortValues(e.descs)

LEMMA WritableDescs ==
    ASSUME NEW ds \in Seq(Descriptor), ShortValues(ds)
    PROVE  Writable(ds)
<1> DEFINE T == [tag : Nat, value : Seq(Nat)]
<1>1. \A d \in Descriptor : d \in T
  <2> TAKE d \in Descriptor
  <2> DEFINE B == 0..255
  <2>1. d = [tag |-> d.tag, value |-> d.value] /\ d.tag \in B /\ d.value \in Seq(B)
    BY DEF Descriptor
  <2>2. B \subseteq Nat
    OBVIOUS
  <2> HIDE DEF B
  <2>3. d.tag \in Nat /\ d.value \in Seq(Nat)
    BY <2>1, <2>2, SeqMonotonic
  <2> QED BY <2>1, <2>3
<1>2. Descriptor \subseteq T
  BY <1>1
<1> HIDE DEF T
<1>3. ds \in Seq(T)
  BY <1>2, SeqMonotonic
<1> QED
  BY <1>3 DEF Writable, Descs, ShortValues, T

\* An element is read as it is: the record, and where its descriptors end.
ElementItem(v, c, j) ==
    [type |-> At(v, c, j), pid |-> Short(v, c + 1, 8192, j),
     descs |-> OfEachTag(ElementInfo(v, c, j).list)]

LEMMA ElementRead ==
    ASSUME NEW e \in Element, Brief(e), NEW v \in Seq(Nat), NEW c \in Nat,
           Lies(OneElem(e), v, c), NEW j \in Nat
    PROVE  /\ ElementItem(v, c, j) = e
           /\ ElementInfo(v, c, j).end = c + Len(OneElem(e))
<1> DEFINE d == DescBytes(e.descs)
           n == Len(d)
<1>1. Len(v) \in Nat
  BY LenProperties
<1>2. ElementLies(e, v, c)
  BY <1>1, ElementThere
<1>3. /\ e.type \in Byte /\ e.pid \in Bits13 /\ DistinctTags(e.descs) /\ e.descs \in Seq(Descriptor)
      /\ e = [type |-> e.type, pid |-> e.pid, descs |-> e.descs]
  BY ElementParts
<1>4. n = ES_info_length(e) /\ n \in Nat /\ n < 1024
  BY InfoLength DEF Brief
<1>5. At(v, c, j) = e.type
  <2> DEFINE a == <<e.type>>
  <2>1. Len(a) = 1 /\ a[1] = e.type
    OBVIOUS
  <2>2. Lies(a, v, c)
    BY <1>2 DEF ElementLies
  <2> HIDE DEF a
  <2>3. c + 1 <= Len(v) /\ v[c + 1] = a[1]
    BY <2>1, <2>2 DEF Lies
  <2>4. c < Len(v)
    BY <1>1, <2>3
  <2> QED BY <2>1, <2>3, <2>4 DEF At
<1>6. Short(v, c + 1, 8192, j) = e.pid
  <2> DEFINE p == e.pid
             m == p + 57344
             k == c + 1
  <2>1. p \in Bits13
    BY <1>3
  <2> HIDE DEF p
  <2>2. m \in Nat /\ m % 8192 = p
    <3>1. p \in Nat /\ p < 8192
      BY <2>1 DEF Bits13
    <3>2. \A a \in Nat : a < 8192 => (a + 57344) % 8192 = a
      OBVIOUS
    <3> QED BY <3>1, <3>2
  <2>3. Lies(Bytes2(m), v, k) /\ k \in Nat
    BY <1>2 DEF ElementLies, p
  <2> HIDE DEF m, k
  <2>4. Short(v, k, 8192, j) = m % 8192
    BY <1>1, <2>2, <2>3, LiesNumber
  <2> QED BY <2>2, <2>4 DEF k, p
<1>7. Short(v, c + 3, 1024, j) = n
  <2> DEFINE m == ES_info_length(e) + 61440
             k == c + 3
  <2>1. m = n + 61440
    BY <1>4
  <2> HIDE DEF n
  <2>2. m \in Nat /\ m % 1024 = n
    BY <1>4, <2>1
  <2>3. Lies(Bytes2(m), v, k) /\ k \in Nat
    BY <1>2 DEF ElementLies
  <2> HIDE DEF m, k
  <2>4. Short(v, k, 1024, j) = m % 1024
    BY <1>1, <2>2, <2>3, LiesNumber
  <2> QED BY <2>2, <2>4 DEF k
<1>8. LET w == ElementInfo(v, c, j)
      IN  w.list = e.descs /\ w.end = (c + 5) + n
  <2> DEFINE k == c + 5
             ds == e.descs
  <2>1. k \in Nat /\ Lies(DescBytes(ds), v, k) /\ Writable(ds)
    BY <1>2, <1>3, WritableDescs DEF ElementLies, Brief
  <2>2. ElementInfo(v, c, j) = Descriptors(v, k, k + Len(DescBytes(ds)), j)
    BY <1>7 DEF ElementInfo
  <2> HIDE DEF k, ds
  <2>3. LET w == Descriptors(v, k, k + Len(DescBytes(ds)), j)
        IN  w.list = ds /\ w.end = k + Len(DescBytes(ds))
    BY <2>1, DescriptorsRead
  <2> QED BY <2>2, <2>3 DEF k, ds
<1>9. OfEachTag(e.descs) = e.descs
  BY <1>3, KeptAll
<1>10. ElementItem(v, c, j) = e
  BY <1>3, <1>5, <1>6, <1>8, <1>9 DEF ElementItem
<1>11. Len(OneElem(e)) = 5 + n
  BY <1>4, OneElemBytes
<1> HIDE DEF n
<1> QED
  BY <1>4, <1>8, <1>10, <1>11

\* Elements that lie somewhere are read as they are.
ElemParts(es) == [k \in 1..Len(es) |-> OneElem(es[k])]

LEMMA ElemPartsFacts ==
    ASSUME NEW es \in Seq(Element)
    PROVE  /\ ElemParts(es) \in Seq(Seq(Nat)) /\ Len(ElemParts(es)) = Len(es) /\ Len(es) \in Nat
           /\ ElemBytes(es) = FlattenSeq(ElemParts(es))
           /\ \A k \in 1..Len(es) : ElemParts(es)[k] = OneElem(es[k]) /\ es[k] \in Element
<1> DEFINE q == ElemParts(es)
           n == Len(es)
<1>1. n \in Nat /\ \A k \in 1..n : es[k] \in Element
  BY LenProperties, ElementOfSeq
<1>2. DOMAIN q = 1..n /\ q = [k \in DOMAIN q |-> q[k]] /\ \A k \in 1..n : q[k] = OneElem(es[k])
  BY DEF ElemParts
<1>3. ElemBytes(es) = FlattenSeq(q)
  BY DEF ElemBytes, ElemParts, OneElem
<1> HIDE DEF q, n
<1>4. \A k \in 1..n : q[k] \in Seq(Nat)
  BY <1>1, <1>2, OneElemBytes
<1>5. q \in Seq(Seq(Nat)) /\ Len(q) = n
  BY <1>1, <1>2, <1>4, IsSeq
<1> QED
  BY <1>1, <1>2, <1>3, <1>5 DEF q, n

LEMMA ElementsRead ==
    ASSUME NEW es \in Seq(Element), \A k \in 1..Len(es) : Brief(es[k]),
           NEW v \in Seq(Nat), NEW c \in Nat, NEW j \in Nat, Lies(ElemBytes(es), v, c)
    PROVE  ElementsFrom(v, c, c + Len(ElemBytes(es)), j) = es
<1> DEFINE q == ElemParts(es)
           n == Len(es)
           item == [d \in Nat |-> ElementItem(v, d, j)]
           next == [d \in Nat |-> ElementInfo(v, d, j).end]
           to == c + Len(ElemBytes(es))
           w == Walk(item, next, c, to)
           T == {item[d] : d \in Nat}
           o(k) == Off(q, k - 1)
<1>1. /\ q \in Seq(Seq(Nat)) /\ Len(q) = n /\ n \in Nat /\ ElemBytes(es) = FlattenSeq(q)
      /\ \A k \in 1..n : q[k] = OneElem(es[k]) /\ es[k] \in Element /\ Brief(es[k])
  BY ElemPartsFacts
<1>2. Len(v) \in Nat
  BY LenProperties
<1>3. Forward(next)
  <2>1. ASSUME NEW d \in Nat PROVE ElementInfo(v, d, j).end \in Nat /\ ElementInfo(v, d, j).end > d
    <3> DEFINE h == d + 3
               m == 1024
               l == Short(v, h, m, j)
               f == d + 5
               g == f + l
    <3>1. h \in Nat /\ f \in Nat /\ m \in Nat \ {0} /\ f > d
      OBVIOUS
    <3>2. ElementInfo(v, d, j).end = Descriptors(v, f, g, j).end
      BY DEF ElementInfo
    <3> HIDE DEF h, m, f
    <3>3. l \in Nat
      BY <3>1, ShortNat
    <3> HIDE DEF l
    <3>4. g \in Nat
      BY <3>1, <3>3
    <3> HIDE DEF g
    <3>5. Descriptors(v, f, g, j).end \in Nat /\ Descriptors(v, f, g, j).end >= f
      BY <3>1, <3>4, DescriptorsType
    <3> QED BY <3>1, <3>2, <3>5
  <2>2. \A d \in Nat : next[d] = ElementInfo(v, d, j).end
    OBVIOUS
  <2> HIDE DEF next
  <2> QED BY <2>1, <2>2 DEF Forward
<1>4. ElementsFrom(v, c, to, j) = w.list
  BY DEF ElementsFrom, ElementItem, OfEachTag
<1>5. \A d \in Nat : item[d] = ElementItem(v, d, j) /\ next[d] = ElementInfo(v, d, j).end
  OBVIOUS
<1> HIDE DEF item, next, q, n
<1>6. ASSUME NEW k \in 1..n
      PROVE  /\ Len(q[k]) > 0 /\ next[c + o(k)] = c + o(k) + Len(q[k])
             /\ item[c + o(k)] = es[k]
  <2> DEFINE e == c + o(k)
             s == es[k]
  <2>1. e \in Nat /\ Lies(q[k], v, e) /\ q[k] = OneElem(s) /\ s \in Element /\ Brief(s)
    BY <1>1, <1>2, LiesPart
  <2> HIDE DEF e, s
  <2>2. ElementItem(v, e, j) = s /\ ElementInfo(v, e, j).end = e + Len(OneElem(s))
    BY <2>1, ElementRead
  <2>3. Len(OneElem(s)) > 0
    <3>1. Len(OneElem(s)) = 5 + ES_info_length(s) /\ ES_info_length(s) \in Nat
      BY <2>1, OneElemBytes
    <3> QED BY <3>1
  <2> QED BY <1>5, <2>1, <2>2, <2>3 DEF e, s
<1>7. w.list \in Seq(T) /\ Len(w.list) = n /\ \A k \in 1..n : w.list[k] = item[c + o(k)]
  <2>1. Strides(next, q, c)
    BY <1>1, <1>6 DEF Strides
  <2>2. Gathered(Walk(item, next, c, c + Len(FlattenSeq(q))), item, q, c)
    BY <1>1, <1>3, <2>1, WalkParts
  <2> QED BY <1>1, <2>2 DEF Gathered
<1>8. \A k \in 1..n : w.list[k] = es[k]
  BY <1>6, <1>7
<1>9. es \in Seq(Element) /\ Len(es) = n
  BY DEF n
<1> HIDE DEF w, to, T
<1>10. w.list = es
  BY <1>1, <1>7, <1>8, <1>9, SeqEqual
<1> QED
  BY <1>4, <1>10 DEF to

\* What is written of a table before the CRC.
Body(t) == Cat(Cat(t.pmt, Info(t)), ElemBytes(t.elmts))

LEMMA BodyParts ==
    ASSUME NEW t, Shape(t)
    PROVE  /\ t.pmt \in Seq(Nat) /\ Info(t) \in Seq(Nat) /\ ElemBytes(t.elmts) \in Seq(Nat)
           /\ Len(t.pmt) = 13 /\ Len(Info(t)) \in Nat /\ Len(ElemBytes(t.elmts)) \in Nat
           /\ Cat(t.pmt, Info(t)) \in Seq(Nat) /\ Len(Cat(t.pmt, Info(t))) = 13 + Len(Info(t))
           /\ Body(t) \in Seq(Nat)
           /\ Len(Body(t)) = (13 + Len(Info(t))) + Len(ElemBytes(t.elmts))
           /\ Len(ElemBytes(t.elmts)) = Total(Taken(t.elmts))
<1> DEFINE h == t.pmt
           i == Info(t)
           e == ElemBytes(t.elmts)
           x == Cat(h, i)
<1>1. Byte \subseteq Nat
  BY DEF Byte
<1>2. h \in Seq(Nat) /\ Len(h) = 13
  <2>1. h \in Seq(Byte) /\ Len(h) = 13
    BY DEF Shape
  <2> HIDE DEF h
  <2> QED BY <1>1, <2>1, SeqMonotonic
<1>3. i \in Seq(Nat) /\ Len(i) \in Nat
  <2>1. i \in Seq(Byte) /\ Len(i) \in Nat
    BY InfoFacts
  <2> HIDE DEF i
  <2> QED BY <1>1, <2>1, SeqMonotonic
<1>4. e \in Seq(Nat) /\ Len(e) = Total(Taken(t.elmts)) /\ Len(e) \in Nat
  <2>1. t.elmts \in Seq(Element)
    BY DEF Shape
  <2> QED BY <2>1, ElemBytesFacts, LenProperties
<1>5. Body(t) = Cat(x, e)
  BY DEF Body
<1> HIDE DEF h, i, e
<1>6. x \in Seq(Nat) /\ Len(x) = 13 + Len(i)
  <2>1. x \in Seq(Nat) /\ Len(x) = Len(h) + Len(i)
    BY <1>2, <1>3, CatType
  <2> QED BY <1>2, <2>1
<1> HIDE DEF x
<1>7. Cat(x, e) \in Seq(Nat) /\ Len(Cat(x, e)) = Len(x) + Len(e)
  BY <1>4, <1>6, CatType
<1> QED
  BY <1>2, <1>3, <1>4, <1>5, <1>6, <1>7 DEF h, i, e, x

\* What is written begins with it, and the CRC is behind it.
LEMMA BodyWritten ==
    ASSUME NEW t, Shape(t)
    PROVE  /\ Len(serialize(t)) = Len(Body(t)) + 4
           /\ \A k \in 1..Len(Body(t)) : serialize(t)[k] = Body(t)[k]
<1> DEFINE y == <<t.pmt[1]>>
           h == Tail(t.pmt)
           i == Info(t)
           e == ElemBytes(t.elmts)
           z == <<CrcByte, CrcByte, CrcByte, CrcByte>>
           b == Body(t)
<1>1. h \in Seq(Nat) /\ t.pmt[1] \in Nat
  <2>1. h \in Seq(Byte) /\ t.pmt[1] = 0
    BY HeaderBytes DEF Shape
  <2>2. Byte \subseteq Nat
    BY DEF Byte
  <2>3. Seq(Byte) \subseteq Seq(Nat)
    BY <2>2, SeqMonotonic
  <2> QED BY <2>1, <2>3
<1>2. y \in Seq(Nat) /\ z \in Seq(Nat) /\ Len(z) = 4
  BY <1>1 DEF CrcByte
<1>3. i \in Seq(Nat) /\ e \in Seq(Nat) /\ b \in Seq(Nat) /\ Len(b) \in Nat
  BY BodyParts, LenProperties
<1>4. t.pmt = Cat(y, h)
  <2> DEFINE v == t.pmt
             w == Cat(y, h)
  <2>1. v \in Seq(Nat) /\ Len(v) = 13 /\ h = Tail(v) /\ y = <<v[1]>> /\ Len(y) = 1
    BY BodyParts
  <2> HIDE DEF v, y, h
  <2>2. /\ Len(h) = 12 /\ \A k \in 1..12 : h[k] = v[k + 1]
    <3>0. v # <<>>
      <4>1. Len(v) = 13 /\ Len(<<>>) = 0
        BY <2>1, EmptySeq
      <4>2. 13 # 0
        OBVIOUS
      <4> QED BY <4>1, <4>2, Zenon
    <3>1. Len(h) = Len(v) - 1 /\ v # <<>>
      BY <2>1, <3>0, HeadTailProperties
    <3>2. \A k \in 1..Len(h) : h[k] = v[k + 1]
      BY <2>1, <3>1, HeadTailProperties
    <3>3. Len(h) = 12
      BY <2>1, <3>1
    <3> QED BY <3>2, <3>3
  <2>3. w \in Seq(Nat) /\ Len(w) = 13
    <3>1. w \in Seq(Nat) /\ Len(w) = Len(y) + Len(h)
      BY <1>1, <1>2, CatType
    <3> QED BY <2>1, <2>2, <3>1
  <2>4. \A k \in 1..13 : w[k] = v[k]
    <3>1. w[1] = y[1]
      <4>1. 1 \in 1..Len(y)
        BY <2>1
      <4> QED BY <1>1, <1>2, <4>1, JoinedLeft
    <3>2. \A k \in 1..Len(h) : w[Len(y) + k] = h[k]
      BY <1>1, <1>2, JoinedRight DEF Follows
    <3>3. \A k \in 2..13 : k - 1 \in 1..12 /\ 1 + (k - 1) = k
      OBVIOUS
    <3>4. \A k \in 2..13 : w[k] = v[k]
      <4> HIDE DEF w
      <4> TAKE k \in 2..13
      <4>1. k - 1 \in 1..12 /\ 1 + (k - 1) = k
        BY <3>3
      <4>2. w[1 + (k - 1)] = h[k - 1]
        BY <2>1, <2>2, <3>2, <4>1
      <4>3. h[k - 1] = v[(k - 1) + 1] /\ (k - 1) + 1 = k
        BY <2>2, <4>1
      <4> QED BY <4>1, <4>2, <4>3
    <3>5. y[1] = v[1]
      BY <2>1
    <3> QED BY <3>1, <3>4, <3>5
  <2> HIDE DEF w
  <2>5. w = v
    BY <2>1, <2>3, <2>4, SeqEqual
  <2> QED BY <2>5 DEF w, v
<1>5. serialize(t) = Cat(Cat(y, Cat(Cat(h, i), e)), z)
  BY DEF serialize, Covered, Info, Cat
<1>6. b = Cat(Cat(Cat(y, h), i), e)
  BY <1>4 DEF Body
<1> HIDE DEF y, h, i, e, z, b
<1>7. Cat(h, i) \in Seq(Nat) /\ Cat(y, h) \in Seq(Nat)
  BY <1>1, <1>2, <1>3, CatType
<1>8. Cat(Cat(y, h), i) = Cat(y, Cat(h, i))
  BY <1>1, <1>2, <1>3, Regrouped
<1>9. Cat(Cat(y, Cat(h, i)), e) = Cat(y, Cat(Cat(h, i), e))
  BY <1>2, <1>3, <1>7, Regrouped
<1>10. serialize(t) = Cat(b, z)
  BY <1>5, <1>6, <1>8, <1>9
<1>11. Len(Cat(b, z)) = Len(b) + Len(z)
  BY <1>2, <1>3, CatType
<1>12. \A k \in 1..Len(b) : Cat(b, z)[k] = b[k]
  BY <1>2, <1>3, JoinedLeft
<1> QED
  BY <1>2, <1>10, <1>11, <1>12 DEF b

\* Whatever begins like that has it.
LEMMA BodyLies ==
    ASSUME NEW t, Shape(t), NEW v, Len(v) \in Nat, Lies(Body(t), v, 0)
    PROVE  /\ Lies(t.pmt, v, 0) /\ Lies(Info(t), v, 13)
           /\ Lies(ElemBytes(t.elmts), v, 13 + Len(Info(t)))
<1> DEFINE h == t.pmt
           i == Info(t)
           e == ElemBytes(t.elmts)
           x == Cat(h, i)
           c == 0
<1>1. /\ h \in Seq(Nat) /\ i \in Seq(Nat) /\ e \in Seq(Nat) /\ x \in Seq(Nat)
      /\ Len(h) = 13 /\ Len(i) \in Nat /\ Len(x) = 13 + Len(i)
  BY BodyParts
<1>2. Lies(Cat(x, e), v, c) /\ c \in Nat
  BY DEF Body
<1>3. c = 0
  OBVIOUS
<1> HIDE DEF c, e, x
<1>4. Lies(x, v, c) /\ Lies(e, v, c + Len(x))
  BY <1>1, <1>2, LiesBoth
<1>5. Lies(Cat(h, i), v, c)
  BY <1>4 DEF x
<1> HIDE DEF h, i
<1>6. Lies(h, v, c) /\ Lies(i, v, c + Len(h))
  BY <1>1, <1>2, <1>5, LiesBoth
<1>7. c + Len(h) = 13 /\ c + Len(x) = 13 + Len(i)
  BY <1>1, <1>3
<1> QED
  BY <1>3, <1>4, <1>6, <1>7 DEF h, i, e

\* The elements of a table that is short enough can be read.
LEMMA ElementsBrief ==
    ASSUME NEW t, Shape(t), Readable(t), Len(serialize(t)) <= 1027
    PROVE  \A k \in 1..Len(t.elmts) : Brief(t.elmts[k])
<1> DEFINE es == t.elmts
           s == Taken(es)
           n == Total(s)
<1>1. es \in Seq(Element) /\ Len(Info(t)) \in Nat
  BY BodyParts DEF Shape
<1>2. s \in Seq(Nat) /\ Len(s) = Len(es) /\ n \in Nat
  BY <1>1, TakenType, TotalNat
<1>3. \A k \in 1..Len(es) : s[k] = 5 + ES_info_length(es[k])
  <2>1. DOMAIN es = 1..Len(es)
    BY <1>1, LenProperties
  <2> QED BY <2>1 DEF Taken
<1>4. 17 + Len(Info(t)) + n <= 1027
  BY SizeOf
<1> HIDE DEF n
<1>5. n < 1024
  BY <1>1, <1>2, <1>4
<1>6. ASSUME NEW k \in 1..Len(es) PROVE Brief(es[k])
  <2>1. es[k] \in Element
    BY <1>1, ElementOfSeq
  <2>2. ES_info_length(es[k]) \in Nat
    BY <2>1, InfoLength
  <2>3. s[k] <= n
    BY <1>2, TotalBounds DEF n
  <2>4. ES_info_length(es[k]) < 1024
    BY <1>2, <1>3, <1>5, <2>2, <2>3
  <2>5. ShortValues(es[k].descs)
    BY DEF Readable
  <2> QED BY <2>4, <2>5 DEF Brief
<1> QED
  BY <1>6

\* What ten bits of two bytes are, for a number that has no more.
LEMMA TenBits ==
    /\ \A a, b \in Nat : Value12(a, b) < 1024 => (256 * a + b) % 1024 = Value12(a, b)
    /\ \A a \in InfoBytes, b \in Byte : Value12(a, b) < 1024 /\ InfoLengthByte(a) = a
<1>1. \A x \in Nat : x % 4096 < 1024 => x % 1024 = x % 4096
  OBVIOUS
<1>2. ASSUME NEW a \in Nat, NEW b \in Nat, Value12(a, b) < 1024
      PROVE  (256 * a + b) % 1024 = Value12(a, b)
  <2> DEFINE x == 256 * a + b
  <2>1. x \in Nat /\ x % 4096 < 1024
    BY <1>2 DEF Value12
  <2> HIDE DEF x
  <2>2. x % 1024 = x % 4096
    BY <1>1, <2>1
  <2> QED BY <2>2 DEF x, Value12
<1>3. ASSUME NEW a \in InfoBytes, NEW b \in Byte
      PROVE  Value12(a, b) < 1024 /\ InfoLengthByte(a) = a
  <2>1. a \in {240, 241, 242, 243} /\ b \in 0..255
    BY DEF InfoBytes, Byte
  <2>2. Value12(a, b) < 1024
    BY <2>1 DEF Value12
  <2>3. InfoLengthByte(a) = a
    BY <2>1 DEF InfoLengthByte
  <2> QED BY <2>2, <2>3
<1> QED
  BY <1>2, <1>3

\* What is read of the header where it lies: both lengths, and the header as it is.
LEMMA HeaderRead ==
    ASSUME NEW t, Shape(t), Readable(t), Len(serialize(t)) <= 1027,
           NEW v \in Seq(Byte), NEW j \in Byte, Lies(t.pmt, v, 0)
    PROVE  /\ v[1] = 0 /\ Len(v) >= 13 /\ At(v, 1, j) = 2
           /\ Short(v, 2, 1024, j) = Len(serialize(t)) - 4
           /\ Short(v, 11, 1024, j) = Len(Info(t)) /\ DescBytes(t.info) = Info(t)
           /\ HeaderOf(v, j) = t.pmt
<1> DEFINE h == t.pmt
           n == Len(serialize(t))
           m == 13
           o == 0
<1>1. /\ h \in Seq(Byte) /\ Len(h) = 13 /\ h[1] = 0 /\ h[2] = 2 /\ h[12] \in InfoBytes
      /\ \A k \in 1..m : h[k] \in Byte
  <2>1. /\ h \in Seq(Byte) /\ Len(h) = 13 /\ h[1] = 0 /\ h[2] = 2 /\ h[12] \in InfoBytes
    BY DEF Shape
  <2> HIDE DEF h
  <2>2. \A k \in 1..Len(h) : h[k] \in Byte
    BY ZenonT(30), <2>1, ElementOfSeq
  <2> QED BY <2>1, <2>2
<1>2. Len(v) \in Nat /\ Len(v) >= 13
  <2>1. Len(v) \in Nat /\ 0 + Len(h) <= Len(v)
    BY LenProperties DEF Lies
  <2> HIDE DEF h
  <2> QED BY <1>1, <2>1
<1>3. \A k \in 1..m : v[k] = h[k]
  <2>1. \A k \in 1..Len(h) : v[0 + k] = h[k]
    BY DEF Lies
  <2>2. Len(h) = m
    BY <1>1
  <2> HIDE DEF h
  <2>3. \A k \in 1..m : 0 + k = k
    OBVIOUS
  <2> QED BY <2>1, <2>2, <2>3
<1>4. \A k \in 1..m : At(v, k - 1, j) = h[k]
  <2> HIDE DEF h
  <2>1. \A k \in 1..m : k - 1 < Len(v) /\ (k - 1) + 1 = k
    BY <1>2
  <2> QED BY <1>3, <2>1 DEF At
<1>5. /\ At(v, 1, j) = h[2] /\ At(v, 2, j) = h[3] /\ At(v, 3, j) = h[4]
      /\ At(v, 11, j) = h[12] /\ At(v, 12, j) = h[13]
  <2> HIDE DEF h
  <2>1. 2 \in 1..m /\ 3 \in 1..m /\ 4 \in 1..m /\ 12 \in 1..m /\ 13 \in 1..m
    OBVIOUS
  <2>2. 2 - 1 = 1 /\ 3 - 1 = 2 /\ 4 - 1 = 3 /\ 12 - 1 = 11 /\ 13 - 1 = 12
    OBVIOUS
  <2> QED BY <1>4, <2>1, <2>2
<1>6. h[3] \in Byte /\ h[4] \in Byte /\ h[13] \in Byte
  <2> HIDE DEF h
  <2> QED BY <1>1
<1>7. Byte \subseteq Nat /\ InfoBytes \subseteq Nat
  BY DEF Byte, InfoBytes
<1>8. Value12(h[3], h[4]) = n - 4 /\ n - 4 < 1024
  <2>1. Short(h, h[1] + 2, 4096, 0) = n - 4
    BY DEF Readable, StatesItsLength
  <2> HIDE DEF h, n
  <2>2. Short(h, h[1] + 2, 4096, 0) = Value12(h[3], h[4])
    BY <1>1, HeaderBytes
  <2>3. n \in Nat /\ n <= 1027
    BY SizeOf, LenProperties DEF n
  <2> QED BY <2>1, <2>2, <2>3
<1>9. Value12(h[12], h[13]) = Len(Info(t)) /\ DescBytes(t.info) = Info(t)
  <2>1. /\ programInfoLength(t) = Value12(h[12], h[13]) /\ ~LostInfo(t)
        /\ Len(Info(t)) = programInfoLength(t)
    BY InfoFacts DEF Readable
  <2>2. Len(DescBytes(t.info)) = programInfoLength(t)
    BY <2>1 DEF LostInfo
  <2>3. CASE programInfoLength(t) > 0
    BY <2>1, <2>3 DEF Info
  <2>4. CASE ~(programInfoLength(t) > 0)
    <3> DEFINE d == DescBytes(t.info)
    <3>1. d \in Seq(Byte) /\ Len(d) \in Nat /\ Len(d) = programInfoLength(t)
      BY ZenonT(30), <2>2, DescBytesFacts, LenProperties DEF Shape
    <3> HIDE DEF d
    <3>2. Len(d) = 0
      BY <2>4, <3>1
    <3>3. d = <<>>
      BY <3>1, <3>2, EmptySeq
    <3>4. Info(t) = <<>>
      BY <2>4 DEF Info
    <3> QED BY <2>1, <3>3, <3>4 DEF d
  <2> QED BY <2>3, <2>4
<1> HIDE DEF h, n
<1>10. Short(v, 2, 1024, j) = n - 4
  <2>1. Short(v, 2, 1024, j) = (256 * h[3] + h[4]) % 1024
    BY <1>5 DEF Short
  <2>2. h[3] \in Nat /\ h[4] \in Nat /\ Value12(h[3], h[4]) < 1024
    BY ZenonT(30), <1>6, <1>7, <1>8
  <2> DEFINE a == h[3]
             b == h[4]
  <2> HIDE DEF a, b
  <2>3. (256 * a + b) % 1024 = Value12(a, b)
    BY <2>2, TenBits DEF a, b
  <2> QED BY <1>8, <2>1, <2>3 DEF a, b
<1>11. Short(v, 11, 1024, j) = Len(Info(t))
  <2>1. Short(v, 11, 1024, j) = (256 * h[12] + h[13]) % 1024
    BY <1>5 DEF Short
  <2>2. h[12] \in Nat /\ h[13] \in Nat /\ Value12(h[12], h[13]) < 1024
    <3>1. h[12] \in InfoBytes /\ h[13] \in Byte
      BY <1>1, <1>6
    <3>2. Value12(h[12], h[13]) < 1024
      BY <3>1, TenBits
    <3> QED BY ZenonT(30), <1>7, <3>1, <3>2
  <2> DEFINE a == h[12]
             b == h[13]
  <2> HIDE DEF a, b
  <2>3. (256 * a + b) % 1024 = Value12(a, b)
    BY <2>2, TenBits DEF a, b
  <2> QED BY <1>9, <2>1, <2>3 DEF a, b
<1>12. HeaderOf(v, j) = h
  <2> DEFINE g == HeaderOf(v, j)
  <2>1. /\ g \in Seq(Byte) /\ Len(g) = 13
        /\ \A k \in 1..m : g[k] = IF k = 12 THEN InfoLengthByte(At(v, 11, j)) ELSE At(v, k - 1, j)
    BY HeaderIs
  <2> HIDE DEF g
  <2>2. InfoLengthByte(h[12]) = h[12]
    BY <1>1, <1>6, TenBits
  <2>3. \A k \in 1..m : g[k] = h[k]
    BY <1>4, <1>5, <2>1, <2>2
  <2>4. g = h
    BY ZenonT(30), <1>1, <2>1, <2>3, SeqEqual
  <2> QED BY <2>4 DEF g
<1>13. v[1] = 0
  <2>1. 1 \in 1..m
    OBVIOUS
  <2> QED BY <1>1, <1>3, <2>1
<1> QED
  BY <1>1, <1>2, <1>5, <1>9, <1>10, <1>11, <1>12, <1>13 DEF h, n

\* A reader that has found the table.
Found(r, t) ==
    /\ r.ok = TRUE
    /\ r.table.pmt = t.pmt /\ r.table.info = t.info /\ r.table.elmts = t.elmts
    /\ r.table.crc = Covered(t)

\* When a parse begins.
LEMMA Begun ==
    ASSUME NEW v \in Seq(Byte), v[1] = 0, Len(v) >= 13, NEW j \in Byte,
           NEW n \in Nat, n >= 17, Short(v, 2, 1024, j) = n - 4
    PROVE  canParse(Buffered(v), j) <=> (n - 4 < PayloadSize \/ Len(v) >= n)
<1> DEFINE p == Buffered(v)
           len == section_length(p, j)
<1>1. p.buffer = v /\ p.pmt = <<>>
  BY BufferedFacts
<1>2. Len(v) \in Nat /\ v # <<>>
  BY LenProperties, EmptySeq
<1> HIDE DEF p
<1>3. len = n - 4
  <2>1. v[1] + 2 = 2 /\ ~(2 + 1 > Len(v))
    BY <1>2
  <2> QED BY <1>1, <1>2, <2>1 DEF section_length
<1> HIDE DEF len
<1>4. canParse(p, j) <=> len # 0 /\ (len < PayloadSize \/ Len(v) \notin 4..(len + 3))
  BY <1>1 DEF canParse, len
<1> QED
  BY <1>2, <1>3, <1>4, PayloadSizeAssumption DEF p

\* Bytes that begin with a table are read as it, if they are taken for all of it.
LEMMA TableRead ==
    ASSUME NEW t, Shape(t), Readable(t), Len(serialize(t)) <= 1027,
           NEW v \in Seq(Byte), NEW j \in Byte, Lies(Body(t), v, 0),
           Len(serialize(t)) - 4 < PayloadSize \/ Len(v) >= Len(serialize(t))
    PROVE  Found(parse(Buffered(v), j), t)
<1> DEFINE n == Len(serialize(t))
           i == Len(Info(t))
           e == Len(ElemBytes(t.elmts))
           p == Buffered(v)
           u == Accepted(p, j)
<1>1. Len(v) \in Nat
  BY LenProperties
<1>2. Lies(t.pmt, v, 0) /\ Lies(Info(t), v, 13) /\ Lies(ElemBytes(t.elmts), v, 13 + i)
  BY <1>1, BodyLies
<1>3. /\ i \in Nat /\ e \in Nat /\ n = Len(Body(t)) + 4 /\ Len(Body(t)) = (13 + i) + e
  BY BodyParts, BodyWritten
<1>4. /\ v[1] = 0 /\ Len(v) >= 13 /\ At(v, 1, j) = 2
      /\ Short(v, 2, 1024, j) = n - 4
      /\ Short(v, 11, 1024, j) = i /\ DescBytes(t.info) = Info(t)
      /\ HeaderOf(v, j) = t.pmt
  BY <1>2, HeaderRead
<1>5. canParse(p, j)
  <2> HIDE DEF n, i, e
  <2>1. n \in Nat /\ n >= 17
    BY <1>3
  <2>2. n - 4 < PayloadSize \/ Len(v) >= n
    BY DEF n
  <2> QED BY ZenonT(30), <1>4, <2>1, <2>2, Begun
<1>6. /\ u = [buffer |-> v, pmt |-> u.pmt, info |-> u.info, elmts |-> u.elmts, crc |-> u.crc]
      /\ Taking(u, v, j)
  BY <1>4, AcceptedParts
<1>7. parse(p, j) = [ok |-> TRUE, table |-> u]
  <2>1. p.buffer = v /\ TableAt(v) = 1
    BY <1>4, BufferedFacts DEF TableAt
  <2>2. At(p.buffer, TableAt(p.buffer), j) = 2
    BY <1>4, <2>1
  <2> HIDE DEF p
  <2> QED BY <1>5, <2>2 DEF parse
<1>8. v \in Seq(Nat) /\ j \in Nat
  <2>1. Byte \subseteq Nat
    BY DEF Byte
  <2>2. Seq(Byte) \subseteq Seq(Nat)
    BY <2>1, SeqMonotonic
  <2> QED BY <2>1, <2>2
<1>9. InfoOf(v, j).list = t.info /\ InfoOf(v, j).end = 13 + i
  <2> DEFINE ds == t.info
             c == 13
  <2>1. Writable(ds) /\ Lies(DescBytes(ds), v, c) /\ Len(DescBytes(ds)) = i /\ c \in Nat
    BY <1>2, <1>4, WritableDescs DEF Shape, Readable
  <2>2. InfoOf(v, j) = Descriptors(v, c, c + Len(DescBytes(ds)), j)
    BY <1>4, <2>1 DEF InfoOf
  <2> HIDE DEF ds, c
  <2>3. LET w == Descriptors(v, c, c + Len(DescBytes(ds)), j)
        IN  w.list = ds /\ w.end = c + Len(DescBytes(ds))
    BY ZenonT(30), <1>8, <2>1, DescriptorsRead
  <2> QED BY <2>1, <2>2, <2>3 DEF ds, c
<1>10. ElementsOf(v, j) = t.elmts
  <2> DEFINE es == t.elmts
             c == 13 + i
  <2>1. es \in Seq(Element) /\ \A k \in 1..Len(es) : Brief(es[k])
    BY ElementsBrief DEF Shape
  <2>2. c \in Nat /\ Lies(ElemBytes(es), v, c)
    BY <1>2, <1>3
  <2>3. n - 4 = c + Len(ElemBytes(es))
    <3> HIDE DEF i, n
    <3>1. e = Len(ElemBytes(es))
      OBVIOUS
    <3> HIDE DEF e, es
    <3> QED BY <1>3, <3>1
  <2>4. ElementsOf(v, j) = ElementsFrom(v, c, c + Len(ElemBytes(es)), j)
    BY <1>4, <1>9, <2>3 DEF ElementsOf
  <2> HIDE DEF es, c
  <2>5. ElementsFrom(v, c, c + Len(ElemBytes(es)), j) = es
    BY <1>8, <2>1, <2>2, ElementsRead
  <2> QED BY <2>4, <2>5 DEF es
<1>11. u.pmt = t.pmt
  <2>1. LET h == HeaderOf(v, j) IN Cat(<<>>, h) = h
    BY HeaderIs
  <2> HIDE DEF u
  <2> QED BY <1>4, <1>6, <2>1 DEF Taking
<1>12. u.info = t.info
  <2>1. OfEachTag(t.info) = t.info
    BY KeptAll DEF Shape
  <2> HIDE DEF u
  <2> QED BY <1>6, <1>9, <2>1 DEF Taking
<1>13. u.elmts = t.elmts
  <2>1. t.elmts \in Seq(Element)
    BY DEF Shape
  <2>2. Cat(<<>>, t.elmts) = t.elmts
    BY <2>1, ConcatEmptySeq DEF Cat
  <2> HIDE DEF u
  <2> QED BY <1>6, <1>10, <2>2 DEF Taking
<1>14. u.crc = Covered(t)
  <2> HIDE DEF u
  <2>1. u.crc = Covered(u)
    BY <1>6 DEF Taking
  <2>2. Covered(u) = Covered(t)
    BY <1>11, <1>12, <1>13 DEF Covered, programInfoLength
  <2> QED BY <2>1, <2>2
<1> HIDE DEF u, p
<1> QED
  BY <1>7, <1>11, <1>12, <1>13, <1>14 DEF Found, p

\* As long as some of it is missing nothing is read, if a packet does not hold it.
LEMMA TableWaits ==
    ASSUME NEW t, Shape(t), Readable(t), Len(serialize(t)) <= 1027,
           NEW v \in Seq(Byte), NEW j \in Byte, Lies(t.pmt, v, 0),
           Len(serialize(t)) - 4 >= PayloadSize, Len(v) < Len(serialize(t))
    PROVE  parse(Buffered(v), j) = [ok |-> FALSE, table |-> Buffered(v)]
<1> DEFINE n == Len(serialize(t))
           p == Buffered(v)
<1>1. v[1] = 0 /\ Len(v) >= 13 /\ Short(v, 2, 1024, j) = n - 4
  BY HeaderRead
<1>2. Len(v) \in Nat /\ n \in Nat
  BY LenProperties, SizeOf
<1>3. ~(n - 4 < PayloadSize \/ Len(v) >= n) /\ n >= 17
  <2>1. n - 4 >= PayloadSize /\ Len(v) < n
    OBVIOUS
  <2> HIDE DEF n
  <2> QED BY <1>2, <2>1, PayloadSizeAssumption
<1> HIDE DEF n
<1>4. ~canParse(p, j)
  BY <1>1, <1>2, <1>3, Begun
<1> HIDE DEF p
<1> QED
  BY <1>4 DEF parse, p

\* A sequence of numbers with a greater one has a greater sum.
LEMMA TotalReplaced ==
    ASSUME NEW s \in Seq(Nat), NEW i \in 1..Len(s), NEW x \in Nat, x > s[i],
           NEW r \in Seq(Nat), Len(r) = Len(s),
           \A k \in 1..Len(s) : r[k] = IF k = i THEN x ELSE s[k]
    PROVE  Total(r) > Total(s)
<1> DEFINE n == Len(s)
           a == SubSeq(s, 1, i - 1)
           b == SubSeq(s, i + 1, n)
           c == SubSeq(r, 1, i - 1)
           d == SubSeq(r, i + 1, n)
<1>1. n \in Nat /\ i \in 1..n /\ i - 1 \in Nat /\ i \in Nat /\ i - 1 <= n /\ i <= n
  BY LenProperties
<1>2. s[i] \in Nat /\ r[i] = x
  BY ElementOfSeq
<1>3. a \in Seq(Nat) /\ Len(a) = i - 1 /\ \A k \in 1..(i - 1) : a[k] = s[k]
  BY <1>1, Beginning
<1>4. c \in Seq(Nat) /\ Len(c) = i - 1 /\ \A k \in 1..(i - 1) : c[k] = r[k]
  <2>1. i - 1 \in Nat /\ i - 1 <= Len(r)
    BY <1>1
  <2> QED BY <2>1, Beginning
<1>5. b \in Seq(Nat) /\ Len(b) = n - i /\ \A k \in 1..(n - i) : b[k] = s[i + k]
  BY <1>1, Remainder
<1>6. d \in Seq(Nat) /\ Len(d) = n - i /\ \A k \in 1..(n - i) : d[k] = r[i + k]
  <2>1. i \in Nat /\ i <= Len(r) /\ n = Len(r)
    BY <1>1
  <2>2. LET z == SubSeq(r, i + 1, Len(r))
        IN  z \in Seq(Nat) /\ Len(z) = Len(r) - i /\ \A k \in 1..(Len(r) - i) : z[k] = r[i + k]
    BY <2>1, Remainder
  <2> QED BY <2>1, <2>2
<1>7. a = c
  <2> HIDE DEF a, c
  <2>1. \A k \in 1..(i - 1) : k \in 1..n /\ k # i
    BY <1>1
  <2>2. \A k \in 1..(i - 1) : a[k] = c[k]
    BY <1>3, <1>4, <2>1
  <2> QED BY <1>3, <1>4, <2>2, SeqEqual
<1>8. b = d
  <2> HIDE DEF b, d
  <2>1. \A k \in 1..(n - i) : i + k \in 1..n /\ i + k # i
    BY <1>1
  <2>2. \A k \in 1..(n - i) : b[k] = d[k]
    BY <1>5, <1>6, <2>1
  <2> QED BY <1>5, <1>6, <2>2, SeqEqual
<1>9. Total(s) = (Total(a) + s[i]) + Total(b)
  <2> DEFINE y == s[i]
             f == Append(a, y)
  <2>1. s = f \o b
    <3>1. SubSeq(s, 1, i) = f /\ s = SubSeq(s, 1, i) \o b
      BY <1>1, PartsOf
    <3> QED BY <3>1
  <2>2. y \in Nat
    BY <1>2
  <2> HIDE DEF a, b, y
  <2>3. f \in Seq(Nat) /\ Total(f) = Total(a) + y
    BY <1>3, <2>2, AppendProperties, TotalAppend
  <2> HIDE DEF f
  <2>4. Total(f \o b) = Total(f) + Total(b)
    BY <1>5, <2>3, TotalConcat
  <2> QED BY <2>1, <2>3, <2>4 DEF y
<1>10. Total(r) = (Total(c) + x) + Total(d)
  <2> DEFINE f == Append(c, x)
             z == SubSeq(r, i + 1, Len(r))
  <2>1. r = f \o d
    <3>1. i \in 1..Len(r)
      BY <1>1
    <3>2. SubSeq(r, 1, i) = Append(c, r[i]) /\ r = SubSeq(r, 1, i) \o z
      BY <3>1, PartsOf
    <3>3. z = d
      OBVIOUS
    <3> QED BY <1>2, <3>2, <3>3
  <2> HIDE DEF c, d
  <2>3. f \in Seq(Nat) /\ Total(f) = Total(c) + x
    BY <1>4, AppendProperties, TotalAppend
  <2> HIDE DEF f
  <2>4. Total(f \o d) = Total(f) + Total(d)
    BY <1>6, <2>3, TotalConcat
  <2> QED BY <2>1, <2>3, <2>4
<1>11. Total(a) \in Nat /\ Total(b) \in Nat
  BY <1>3, <1>5, TotalNat
<1> HIDE DEF a, b, c, d
<1> QED
  BY <1>2, <1>7, <1>8, <1>9, <1>10, <1>11

\* An element changed in place is longer, and the header does not say so.
Lengthened(u, t) ==
    u.pmt = t.pmt /\ u.info = t.info /\ Len(serialize(u)) > Len(serialize(t))

LEMMA InfoGrows ==
    ASSUME NEW e \in Element, NEW d \in Descriptor, NEW f \in Element,
           f.descs = Append(e.descs, d)
    PROVE  ES_info_length(f) > ES_info_length(e)
<1> DEFINE ds == e.descs
           n == Len(ds)
           x == 2 + DescLength(d)
           w == Append(ds, d)
           a == [k \in DOMAIN ds |-> 2 + DescLength(ds[k])]
           b == [k \in DOMAIN w |-> 2 + DescLength(w[k])]
           z == Append(a, x)
<1>1. ds \in Seq(Descriptor) /\ w \in Seq(Descriptor) /\ f.descs = w
  BY ElementParts
<1>2. ES_info_length(e) = Total(a) /\ ES_info_length(f) = Total(b)
  BY <1>1 DEF ES_info_length
<1> HIDE DEF ds
<1>3. n \in Nat /\ Len(w) = n + 1 /\ w[n + 1] = d /\ \A k \in 1..n : w[k] = ds[k]
  BY <1>1, LenProperties, AppendProperties
<1>4. DOMAIN ds = 1..n /\ DOMAIN w = 1..(n + 1)
  BY <1>1, <1>3, LenProperties
<1> HIDE DEF w
<1>5. a \in Seq(Nat) /\ b \in Seq(Nat)
  BY <1>1, DescBytesFacts
<1>6. x \in Nat /\ x > 0
  <2>1. DescLength(d) \in Nat
    <3>1. DescLength(d) \in Byte
      BY OneDescBytes
    <3>2. Byte \subseteq Nat
      BY DEF Byte
    <3> QED BY <3>1, <3>2
  <2> QED BY <2>1
<1>7. Len(a) = n /\ \A k \in 1..n : a[k] = 2 + DescLength(ds[k])
  BY <1>3, <1>4, <1>5
<1>8. Len(b) = n + 1 /\ \A k \in 1..(n + 1) : b[k] = 2 + DescLength(w[k])
  <2>1. n + 1 \in Nat
    BY <1>3
  <2> QED BY <1>4, <1>5, <2>1
<1> HIDE DEF a, b, n, x
<1>9. /\ z \in Seq(Nat) /\ Len(z) = n + 1 /\ z[n + 1] = x /\ \A k \in 1..n : z[k] = a[k]
  BY <1>5, <1>6, <1>7, AppendProperties
<1>10. \A k \in 1..(n + 1) : b[k] = z[k]
  <2>1. \A k \in 1..(n + 1) : k \in 1..n \/ k = n + 1
    BY <1>3
  <2>2. b[n + 1] = x
    <3>1. n + 1 \in 1..(n + 1)
      BY <1>3
    <3> QED BY <1>3, <1>8, <3>1 DEF x
  <2> QED BY <1>3, <1>7, <1>8, <1>9, <2>1, <2>2
<1> HIDE DEF z
<1>11. b = z
  BY <1>5, <1>8, <1>9, <1>10, SeqEqual
<1>12. Total(z) = Total(a) + x /\ Total(a) \in Nat
  BY <1>5, <1>6, TotalAppend, TotalNat DEF z
<1> QED
  BY <1>2, <1>6, <1>11, <1>12

LEMMA EditGrows ==
    ASSUME NEW t, Shape(t), NEW k \in 1..Len(t.elmts), NEW d \in Descriptor
    PROVE  editElement(t, k, d) = t \/ Lengthened(editElement(t, k, d), t)
<1> DEFINE u == editElement(t, k, d)
           es == t.elmts
           e == es[k]
           ds == addDescriptor(e.descs, d)
           f == [e EXCEPT !.descs = ds]
           g == [es EXCEPT ![k] = f]
           n == Len(es)
<1>1. es \in Seq(Element) /\ e \in Element
  <2>1. es \in Seq(Element)
    BY DEF Shape
  <2> HIDE DEF es
  <2> QED BY <2>1, ElementOfSeq DEF es
<1>2. n \in Nat /\ DOMAIN es = 1..n /\ k \in 1..n /\ es = [i \in 1..n |-> es[i]]
  <2> HIDE DEF es
  <2>1. n \in Nat /\ DOMAIN es = 1..n
    BY <1>1, LenProperties
  <2>2. es = [i \in DOMAIN es |-> es[i]]
    BY <1>1
  <2> QED BY <2>1, <2>2 DEF es
<1>3. u = [t EXCEPT !.elmts = g]
  BY DEF editElement, Shape
<1>4. Shape(u) /\ u.elmts = g /\ u.pmt = t.pmt /\ u.info = t.info
  <2>1. Shape(u)
    BY Edited
  <2>2. t = [buffer |-> t.buffer, pmt |-> t.pmt, info |-> t.info, elmts |-> t.elmts, crc |-> t.crc]
    BY DEF Shape
  <2> HIDE DEF g, u
  <2>3. u = [buffer |-> t.buffer, pmt |-> t.pmt, info |-> t.info, elmts |-> g, crc |-> t.crc]
    BY <1>3, <2>2
  <2> QED BY <2>1, <2>3
<1>5. CASE \E i \in 1..Len(e.descs) : e.descs[i].tag = d.tag
  <2>1. ds = e.descs
    BY <1>5 DEF addDescriptor
  <2>2. e = [type |-> e.type, pid |-> e.pid, descs |-> e.descs]
    BY <1>1, ElementParts
  <2> HIDE DEF ds
  <2>3. f = e
    <3> HIDE DEF e
    <3> QED BY <2>1, <2>2
  <2>4. g = es
    <3> HIDE DEF f
    <3>1. e = es[k]
      OBVIOUS
    <3> HIDE DEF e, es
    <3> QED BY <1>2, <2>3, <3>1
  <2>5. t = [buffer |-> t.buffer, pmt |-> t.pmt, info |-> t.info, elmts |-> t.elmts, crc |-> t.crc]
    BY DEF Shape
  <2> HIDE DEF g, u
  <2>6. u = t
    BY <1>3, <2>4, <2>5
  <2> QED BY <2>6 DEF u
<1>6. CASE ~\E i \in 1..Len(e.descs) : e.descs[i].tag = d.tag
  <2> DEFINE s == Taken(es)
             r == Taken(g)
             x == 5 + ES_info_length(f)
  <2>1. ds = Append(e.descs, d)
    BY <1>6 DEF addDescriptor
  <2> HIDE DEF ds, u
  <2>2. DOMAIN g = 1..n /\ g[k] = f /\ \A i \in 1..n : i # k => g[i] = es[i]
    <3> HIDE DEF f, es
    <3> QED BY <1>2
  <2>3. g \in Seq(Element) /\ Len(g) = n
    <3>1. g \in Seq(Element)
      BY <1>4 DEF Shape
    <3> HIDE DEF g, n
    <3>2. DOMAIN g = 1..Len(g) /\ Len(g) \in Nat
      BY <3>1, LenProperties
    <3> QED BY <1>2, <2>2, <3>1, <3>2
  <2>4. f \in Element /\ f.descs = ds
    <3>1. g[k] \in Element
      <4> HIDE DEF g, n
      <4> QED BY <1>2, <2>3, ElementOfSeq
    <3>2. e = [type |-> e.type, pid |-> e.pid, descs |-> e.descs]
      BY <1>1, ElementParts
    <3> HIDE DEF g
    <3>3. f.descs = ds
      <4> HIDE DEF e
      <4> QED BY <3>2
    <3> HIDE DEF f
    <3> QED BY <2>2, <3>1, <3>3
  <2> HIDE DEF f, g
  <2>5. ES_info_length(f) > ES_info_length(e) /\ ES_info_length(f) \in Nat /\ ES_info_length(e) \in Nat
    BY <1>1, <2>1, <2>4, InfoGrows, InfoLength
  <2> HIDE DEF e, es, n
  <2>6. s \in Seq(Nat) /\ Len(s) = n /\ r \in Seq(Nat) /\ Len(r) = n
    <3>1. s \in Seq(Nat) /\ Len(s) = n
      BY <1>1, TakenType DEF n
    <3>2. r \in Seq(Nat) /\ Len(r) = n
      BY <2>3, TakenType
    <3> QED BY <3>1, <3>2
  <2>7. /\ \A i \in 1..n : s[i] = 5 + ES_info_length(es[i])
        /\ \A i \in 1..n : r[i] = 5 + ES_info_length(g[i])
    BY <1>2, <2>2 DEF Taken
  <2> HIDE DEF s, r
  <2>8. e = es[k]
    BY DEF e
  <2>9. x \in Nat /\ x > s[k] /\ k \in 1..Len(s) /\ Len(r) = Len(s)
    BY <1>2, <2>5, <2>6, <2>7, <2>8
  <2>10. \A i \in 1..Len(s) : r[i] = IF i = k THEN x ELSE s[i]
    BY <2>2, <2>6, <2>7
  <2> HIDE DEF x
  <2>11. Total(r) > Total(s)
    BY <2>6, <2>9, <2>10, TotalReplaced
  <2>12. Info(u) = Info(t)
    BY <1>4 DEF Info, programInfoLength
  <2>13. /\ Len(serialize(t)) = 17 + Len(Info(t)) + Total(s) /\ Total(s) \in Nat
         /\ Len(serialize(u)) = 17 + Len(Info(t)) + Total(r) /\ Total(r) \in Nat
         /\ Len(Info(t)) \in Nat
    <3>1. Len(serialize(t)) = 17 + Len(Info(t)) + Total(s) /\ Total(s) \in Nat
      BY SizeOf DEF s, es
    <3>2. Len(serialize(u)) = 17 + Len(Info(u)) + Total(r) /\ Total(r) \in Nat
      BY <1>4, SizeOf DEF r
    <3> QED BY <2>12, <3>1, <3>2, BodyParts
  <2>14. Len(serialize(u)) > Len(serialize(t))
    BY <2>11, <2>13
  <2> QED BY <1>4, <2>14 DEF Lengthened, u
<1> QED
  BY <1>5, <1>6

\* A table that was changed in place and not made good does not state its length.
StatedLength(t) == Short(t.pmt, t.pmt[1] + 2, 4096, 0)

EditInv == edited => LostInfo(table) \/ StatedLength(table) < Len(serialize(table)) - 4

LEMMA NextEditInv == TableInv /\ EditInv /\ [Next]_vars => EditInv'
<1> SUFFICES ASSUME TableInv, EditInv, [Next]_vars PROVE EditInv'
  OBVIOUS
<1>1. ASSUME table' = table, edited' => edited PROVE EditInv'
  BY <1>1 DEF EditInv, LostInfo, StatedLength
<1>2. ASSUME NEW e \in Elements, AddProgramElement(e) PROVE EditInv'
  BY <1>2 DEF AddProgramElement, EditInv
<1>3. ASSUME NEW e \in Elements, RemoveProgramElement(e) PROVE EditInv'
  BY <1>3 DEF RemoveProgramElement, EditInv
<1>4. ASSUME NEW k \in 1..Len(table.elmts), NEW d \in Extra, EditElement(k, d) PROVE EditInv'
  <2> DEFINE u == editElement(table, k, d)
  <2>1. table' = u /\ edited' = (edited \/ table' # table) /\ d \in Descriptor /\ Shape(table)
    BY <1>4, BuildAssumption DEF EditElement, TableInv
  <2>2. u = table \/ Lengthened(u, table)
    BY <2>1, EditGrows
  <2> HIDE DEF u
  <2>3. CASE u = table
    <3>1. table' = table /\ (edited' => edited)
      BY <2>1, <2>3
    <3> QED BY <1>1, <3>1
  <2>4. CASE Lengthened(u, table)
    <3> DEFINE n == Len(serialize(table))
               m == Len(serialize(u))
               l == StatedLength(table)
    <3>1. Shape(u)
      BY <2>1, Edited DEF u
    <3>2. n \in Nat /\ m \in Nat /\ m > n
      BY <2>1, <2>4, <3>1, SizeOf, LenProperties DEF Lengthened
    <3>3. (LostInfo(u) <=> LostInfo(table)) /\ StatedLength(u) = l
      BY <2>4 DEF Lengthened, LostInfo, StatedLength, programInfoLength
    <3>4. LostInfo(table) \/ l = n - 4 \/ l < n - 4
      BY DEF TableInv, Coherent, EditInv, StatesItsLength, StatedLength
    <3>5. l \in Int
      <4>1. table.pmt \in Seq(Byte) /\ Len(table.pmt) = 13 /\ table.pmt[1] = 0
        BY <2>1 DEF Shape
      <4>2. l = Value12(table.pmt[3], table.pmt[4]) /\ table.pmt[3] \in Nat /\ table.pmt[4] \in Nat
        BY <4>1, HeaderBytes DEF StatedLength
      <4> HIDE DEF l
      <4>3. Bits12 \subseteq Int
        BY DEF Bits12
      <4> QED BY <4>2, <4>3, TwelveBits
    <3> HIDE DEF l, n, m
    <3>6. LostInfo(u) \/ l < m - 4
      BY <3>2, <3>3, <3>4, <3>5
    <3> QED BY <2>1, <3>3, <3>6 DEF EditInv, m
  <2> QED BY <2>2, <2>3, <2>4
<1>5. ASSUME NEW p \in Programs, AddProgram(p) PROVE EditInv'
  BY <1>1, <1>5 DEF AddProgram
<1>6. ASSUME NEW f \in {"one", "many"}, Send(f) PROVE EditInv'
  BY <1>1, <1>6 DEF Send, buildVars
<1>7. CASE Receive
  BY <1>1, <1>7 DEF Receive, buildVars
<1>8. CASE UNCHANGED vars
  BY <1>1, <1>8 DEF vars, buildVars
<1> QED
  BY <1>2, <1>3, <1>4, <1>5, <1>6, <1>7, <1>8 DEF Next

\* A table that can be read has its CRC over what it says.
LEMMA ReadableChecked ==
    ASSUME TableInv, EditInv, Readable(table)
    PROVE  table.crc = Covered(table)
<1>1. CASE ~edited
  BY <1>1 DEF TableInv, Coherent
<1>2. CASE edited
  <2> DEFINE n == Len(serialize(table))
             l == StatedLength(table)
  <2>1. l < n - 4 /\ l = n - 4
    BY <1>2 DEF EditInv, Readable, StatesItsLength, StatedLength
  <2>2. n \in Nat
    BY SizeOf, LenProperties DEF TableInv
  <2> HIDE DEF n, l
  <2> QED BY <2>1, <2>2
<1> QED
  BY <1>1, <1>2

\* Taking away a divisor changes no remainder.
LEMMA LessOne ==
    ASSUME NEW p \in Nat \ {0}, NEW x \in Nat, x >= p
    PROVE  (x - p) % p = x % p
<1> DEFINE q == x \div p
           r == x % p
           a == (x - p) \div p
           b == (x - p) % p
<1>1. q \in Int /\ r \in Nat /\ r < p /\ x = p * q + r
  OBVIOUS
<1>2. x - p \in Nat
  OBVIOUS
<1>3. a \in Int /\ b \in Nat /\ b < p /\ x - p = p * a + b
  BY <1>2
<1> HIDE DEF q, r, a, b
<1> DEFINE d == a + 1 - q
<1>4. d \in Int /\ p * d = r - b
  <2>1. p * d = p * a + p - p * q
    BY <1>1, <1>3
  <2>2. p * a \in Int /\ p * q \in Int
    BY <1>1, <1>3
  <2> QED BY <1>1, <1>3, <2>1, <2>2
<1> HIDE DEF d
<1>5. d = 0
  <2>1. CASE d >= 1
    <3>1. p * d >= p
      BY <1>4, <2>1
    <3> QED BY <1>1, <1>3, <1>4, <3>1
  <2>2. CASE d <= -1
    <3>1. p * d <= -p
      BY <1>4, <2>2
    <3> QED BY <1>1, <1>3, <1>4, <3>1
  <2> QED BY <1>4, <2>1, <2>2
<1>6. r = b
  BY <1>1, <1>3, <1>4, <1>5
<1> QED
  BY <1>6 DEF r, b

\* A walk that is at its end.
LEMMA WalkEnds ==
    ASSUME NEW item, NEW next, Forward(next), NEW to \in Int, NEW c \in Nat, ~(c < to)
    PROVE  Walk(item, next, c, to).list = <<>>
<1> DEFINE W(d) == Walk(item, next, d, to)
<1>1. \A d \in Nat : /\ d < to => W(d).list = Before(item[d], W(next[d]).list) /\ W(d).end = W(next[d]).end
                     /\ ~(d < to) => W(d).list = <<>> /\ W(d).end = d
  BY WalkStep
<1> HIDE DEF W
<1>2. W(c).list = <<>>
  BY <1>1
<1> QED
  BY <1>2 DEF W

\* The packets of a section from a place of it, and the first of them.
Sent(s, cur) == Walk(PacketAt(s), NextPacket(s), cur, Len(s)).list

LEMMA FirstSent ==
    ASSUME NEW s \in Seq(Byte), NEW cur \in Nat, cur < Len(s)
    PROVE  /\ Sent(s, cur) = Before(PacketAt(s)[cur], Sent(s, NextPacket(s)[cur]))
           /\ PacketAt(s)[cur] \in Packet
           /\ NextPacket(s)[cur] = cur + (IF Fits(Len(s) - cur) THEN TS_SIZE ELSE PayloadSize)
           /\ NextPacket(s)[cur] \in Nat
<1>1. /\ Forward(NextPacket(s)) /\ Len(s) \in Int
      /\ \A c \in Nat : PacketAt(s)[c] \in Packet
  BY PacketizeWalks
<1>2. NextPacket(s)[cur] = cur + (IF Fits(Len(s) - cur) THEN TS_SIZE ELSE PayloadSize)
  BY DEF NextPacket
<1>3. NextPacket(s)[cur] \in Nat
  BY <1>1 DEF Forward
<1> DEFINE item == PacketAt(s)
           next == NextPacket(s)
           to == Len(s)
<1> HIDE DEF item, next, to
<1>4. Walk(item, next, cur, to).list = Before(item[cur], Walk(item, next, next[cur], to).list)
  <2>1. Forward(next) /\ to \in Int /\ cur < to
    BY <1>1 DEF next, to
  <2> QED BY <2>1, WalkStep
<1> QED
  BY <1>1, <1>2, <1>3, <1>4 DEF item, next, to, Sent

\* One that is full, and not the last.
LEMMA FullSent ==
    ASSUME NEW s \in Seq(Byte), NEW cur \in Nat, Len(s) - cur > PayloadSize + 4
    PROVE  \E p \in Packet :
               /\ Sent(s, cur) = Before(p, Sent(s, cur + PayloadSize))
               /\ p.start = (cur = 0)
               /\ getData(p) = SubSeq(s, cur + 1, cur + PayloadSize)
<1> DEFINE p == PacketAt(s)[cur]
           c == 0 + cur \div PayloadSize
<1>1. Len(s) \in Nat /\ PayloadSize \in Nat /\ PayloadSize > 16
  BY LenProperties, PayloadSizeAssumption
<1>2. ~Fits(Len(s) - cur) /\ cur < Len(s) /\ cur + PayloadSize <= Len(s)
  BY <1>1 DEF Fits, TS_SIZE
<1>3. p = FullPacket(s, cur, c)
  BY <1>2 DEF PacketAt
<1>4. c \in Nat
  BY <1>1
<1>5. Sent(s, cur) = Before(p, Sent(s, cur + PayloadSize)) /\ p \in Packet
  BY <1>2, FirstSent
<1> HIDE DEF p, c
<1>6. /\ p.start = (cur = 0) /\ p.afLen = NoField
      /\ p.bytes = SubSeq(s, cur + 1, cur + PayloadSize)
  BY <1>2, <1>3, <1>4, FullPacketFacts
<1>7. getData(p) = p.bytes
  BY <1>6 DEF getData
<1> QED
  BY <1>5, <1>6, <1>7

\* The last of several.
LEMMA LastSent ==
    ASSUME NEW s \in Seq(Byte), NEW cur \in Nat, cur > 0, cur < Len(s),
           Len(s) - cur < PayloadSize - 1
    PROVE  \E p \in Packet :
               /\ Sent(s, cur) = <<p>>
               /\ p.start = FALSE
               /\ getData(p) = SubSeq(s, cur + 1, Len(s))
<1> DEFINE p == PacketAt(s)[cur]
           c == 0 + cur \div PayloadSize
           rest == SubSeq(s, cur + 1, Len(s))
           to == Len(s)
           next == NextPacket(s)[cur]
<1>1. Len(s) \in Nat /\ PayloadSize \in Nat /\ PayloadSize > 16
  BY LenProperties, PayloadSizeAssumption
<1>2. Fits(Len(s) - cur) /\ cur # 0
  BY <1>1 DEF Fits, TS_SIZE
<1>3. p = LastPacket(rest, c)
  BY <1>2 DEF PacketAt
<1>4. c \in Nat
  BY <1>1
<1>5. Sent(s, cur) = Before(p, Sent(s, next)) /\ p \in Packet /\ next = cur + TS_SIZE /\ next \in Nat
  BY <1>2, FirstSent
<1>6. rest \in Seq(Byte) /\ Len(rest) = Len(s) - cur
  BY <1>1, Remainder
<1> HIDE DEF p, c, rest, next
<1>7. Len(rest) <= TS_SIZE /\ Len(rest) < PayloadSize - 1 /\ rest # <<>>
  <2>1. Len(rest) <= TS_SIZE /\ Len(rest) < PayloadSize - 1 /\ Len(rest) # 0
    BY <1>1, <1>6 DEF TS_SIZE
  <2> QED BY <2>1, EmptySeq
<1>8. p.start = FALSE /\ getData(p) = rest
  BY <1>3, <1>4, <1>6, <1>7, LastPacketFacts
<1>9. Sent(s, next) = <<>>
  <2> DEFINE f == PacketAt(s)
             g == NextPacket(s)
  <2>1. Forward(g) /\ to \in Int
    BY PacketizeWalks
  <2>2. ~(next < to)
    BY <1>1, <1>5 DEF TS_SIZE
  <2> HIDE DEF f, g, to
  <2>3. next \in Nat
    BY <1>5
  <2> DEFINE e == next
  <2> HIDE DEF e
  <2>4. e \in Nat /\ ~(e < to)
    BY <2>2, <2>3 DEF e
  <2>5. Walk(f, g, e, to).list = <<>>
    BY <2>1, <2>4, WalkEnds
  <2> QED BY <2>4, <2>5 DEF e, f, g, to, Sent
<1>10. Before(p, <<>>) = <<p>>
  BY DEF Before
<1> QED
  BY <1>5, <1>8, <1>9, <1>10 DEF rest

\* What the receiver has put together is the beginning of the section.
LEMMA BeginningGrows ==
    ASSUME NEW s \in Seq(Byte), NEW a \in Nat, NEW b \in Nat, a <= b, b <= Len(s)
    PROVE  Cat(SubSeq(s, 1, a), SubSeq(s, a + 1, b)) = SubSeq(s, 1, b)
<1>1. 1 \in 1..(Len(s) + 1) /\ a \in 0..Len(s) /\ b \in a..Len(s)
  BY LenProperties
<1> QED
  BY <1>1, ConcatAdjacentSubSeq DEF Cat

LEMMA LeftOf ==
    ASSUME NEW x \in Nat, x >= 5
    PROVE  /\ x <= PayloadSize + 4 => Left(x) = x
           /\ x > PayloadSize + 4 => Left(x - PayloadSize) = Left(x)
<1>1. PayloadSize \in Nat \ {0}
  BY PayloadSizeAssumption
<1>2. ASSUME x <= PayloadSize + 4 PROVE Left(x) = x
  <2> DEFINE y == x - 5
  <2>1. y \in 0..(PayloadSize - 1)
    BY <1>1, <1>2
  <2>2. \A p \in Nat \ {0} : \A z \in 0..(p - 1) : z % p = z
    OBVIOUS
  <2>3. y % PayloadSize = y
    BY <1>1, <2>1, <2>2
  <2> QED BY <2>3 DEF Left
<1>3. ASSUME x > PayloadSize + 4 PROVE Left(x - PayloadSize) = Left(x)
  <2> DEFINE y == x - 5
  <2>1. y \in Nat /\ y >= PayloadSize /\ (x - PayloadSize) - 5 = y - PayloadSize
    BY <1>1, <1>3
  <2> HIDE DEF y
  <2>2. (y - PayloadSize) % PayloadSize = y % PayloadSize
    BY <1>1, <2>1, LessOne
  <2> QED BY <2>1, <2>2 DEF Left, y
<1> QED
  BY <1>2, <1>3

\* One packet with all of the section, but perhaps bytes of its CRC.
OneOf(w, s) == Len(s) <= PayloadSize + 3 /\ \E p \in Packet : w = <<p>> /\ Carries(p, s)

\* Several packets, of which those from cur on are on their way: the receiver has the
\* bytes before.
Several(w, s, cur, r) ==
    /\ Len(s) > PayloadSize + 4 /\ Len(s) <= 1027
    /\ Len(s) - cur >= 5 /\ Left(Len(s) - cur) < PayloadSize - 1
    /\ w = Sent(s, cur)
    /\ cur > 0 => cur >= PayloadSize /\ r = Buffered(SubSeq(s, 1, cur))

LEMMA OneSent ==
    ASSUME NEW s \in Seq(Byte), Len(s) <= PayloadSize + 3
    PROVE  OneOf(<<packetizeOne(s, 0)>>, s)
<1> DEFINE p == packetizeOne(s, 0)
<1>1. p \in Packet /\ Carries(p, s)
  BY OnePacketFacts
<1> HIDE DEF p
<1>2. OneOf(<<p>>, s)
  BY <1>1 DEF OneOf
<1> QED
  BY <1>2 DEF p

LEMMA ManySent ==
    ASSUME NEW s \in Seq(Byte), s # <<>>, ~Endless(Len(s)), NEW r,
           Len(s) <= PayloadSize \/ (Left(Len(s)) < PayloadSize - 1 /\ Len(s) <= 1027)
    PROVE  OneOf(packetize(s, 0), s) \/ Several(packetize(s, 0), s, 0, r)
<1> DEFINE n == Len(s)
<1>1. n \in Nat /\ PayloadSize \in Nat /\ PayloadSize > 16
  BY LenProperties, PayloadSizeAssumption
<1>2. CASE n <= PayloadSize
  <2>1. packetize(s, 0) = <<packetizeOne(s, 0)>>
    BY <1>2, PacketizeType
  <2>2. n <= PayloadSize + 3
    BY <1>1, <1>2
  <2> QED BY <2>1, <2>2, OneSent
<1>3. CASE ~(n <= PayloadSize)
  <2>1. n > PayloadSize + 4 /\ n <= 1027 /\ Left(n) < PayloadSize - 1
    BY <1>1, <1>3 DEF Endless, Fits, TS_SIZE
  <2>2. packetize(s, 0) = Sent(s, 0)
    BY PacketizeWalks DEF Sent
  <2>3. n - 0 = n /\ n >= 5
    BY <1>1, <2>1
  <2> QED BY <2>1, <2>2, <2>3 DEF Several
<1> QED
  BY <1>2, <1>3

-----------------------------------------------------------------------------
\* A packet that holds the whole section lets the table be read.
LEMMA OneReceived ==
    ASSUME NEW t, Shape(t), Readable(t), NEW s, s = serialize(t), s \in Seq(Byte),
           Len(s) <= PayloadSize + 3, NEW p \in Packet, Carries(p, s), NEW r, NEW j \in Byte
    PROVE  Found(parse(Add(IF p.start THEN NewTable ELSE r, getData(p)), j), t)
<1> DEFINE v == getData(p)
           b == Body(t)
           n == Len(s)
<1>1. p.start = TRUE /\ p.afLen = NoField /\ p.bytes \in Seq(Byte) /\ Len(p.bytes) = PayloadSize
  BY DEF Carries, Packet
<1>2. v = p.bytes
  BY <1>1 DEF getData
<1>3. \A k \in 1..PayloadSize : v[k] = IF k <= n THEN s[k] ELSE 255
  BY <1>2 DEF Carries
<1>4. Len(b) \in Nat /\ n = Len(b) + 4 /\ \A k \in 1..Len(b) : s[k] = b[k]
  BY BodyParts, BodyWritten, LenProperties
<1> HIDE DEF v, b, n
<1>5. PayloadSize \in Nat /\ PayloadSize <= 256 /\ n <= PayloadSize + 3
  BY PayloadSizeAssumption, FieldAssumption DEF n
<1>6. Lies(b, v, 0)
  <2>1. 0 + Len(b) <= Len(v)
    BY <1>1, <1>2, <1>4, <1>5
  <2>2. ASSUME NEW k \in 1..Len(b) PROVE v[0 + k] = b[k]
    <3>1. k \in 1..PayloadSize /\ k <= n /\ 0 + k = k
      BY <1>4, <1>5
    <3> QED BY <1>3, <1>4, <3>1
  <2> QED BY <2>1, <2>2 DEF Lies
<1>7. n <= 1027 /\ n - 4 < PayloadSize
  BY <1>4, <1>5
<1>8. Found(parse(Buffered(v), j), t)
  <2>1. Len(serialize(t)) <= 1027 /\ Len(serialize(t)) - 4 < PayloadSize
    BY <1>7 DEF n
  <2>2. v \in Seq(Byte) /\ Lies(Body(t), v, 0)
    BY <1>1, <1>2, <1>6 DEF b
  <2> QED BY <2>1, <2>2, TableRead
<1>9. Add(IF p.start THEN NewTable ELSE r, v) = Buffered(v)
  BY <1>1, <1>2, AddedFirst
<1> QED
  BY <1>8, <1>9 DEF v

\* What a packet is added to, when the receiver has the bytes up to cur.
Awaiting(x, s, cur) ==
    /\ cur = 0 => x = NewTable
    /\ cur > 0 => x = Buffered(SubSeq(s, 1, cur))

\* A packet with the bytes up to e is added to what the receiver has of the section.
LEMMA Collected ==
    ASSUME NEW s \in Seq(Byte), NEW cur \in Nat, NEW e \in Nat, cur <= e, e <= Len(s),
           NEW x, Awaiting(x, s, cur)
    PROVE  Add(x, SubSeq(s, cur + 1, e)) = Buffered(SubSeq(s, 1, e))
<1>1. CASE cur = 0
  <2> DEFINE d == SubSeq(s, 1, e)
  <2>1. d \in Seq(Byte)
    BY Beginning
  <2>2. cur + 1 = 1
    BY <1>1
  <2>3. SubSeq(s, cur + 1, e) = d
    BY <2>2
  <2> HIDE DEF d
  <2>4. Add(NewTable, d) = Buffered(d)
    BY <2>1, AddedFirst
  <2>5. x = NewTable
    BY <1>1 DEF Awaiting
  <2> QED BY <2>3, <2>4, <2>5 DEF d
<1>2. CASE cur # 0
  <2> DEFINE a == SubSeq(s, 1, cur)
             d == SubSeq(s, cur + 1, e)
  <2>1. x = Buffered(a)
    BY <1>2 DEF Awaiting
  <2>2. Cat(a, d) = SubSeq(s, 1, e)
    BY BeginningGrows
  <2> HIDE DEF a, d
  <2>3. Add(Buffered(a), d) = Buffered(Cat(a, d))
    BY AddedTo
  <2> QED BY <2>1, <2>2, <2>3 DEF d
<1> QED
  BY <1>1, <1>2

\* Before the last of several packets the table is not read.
LEMMA PartReceived ==
    ASSUME NEW t, Shape(t), Readable(t), NEW s, s = serialize(t), s \in Seq(Byte),
           Len(s) <= 1027, NEW cur \in Nat, Len(s) - cur > PayloadSize + 4,
           NEW x, Awaiting(x, s, cur), NEW j \in Byte
    PROVE  parse(Add(x, SubSeq(s, cur + 1, cur + PayloadSize)), j)
             = [ok |-> FALSE, table |-> Buffered(SubSeq(s, 1, cur + PayloadSize))]
<1> DEFINE e == cur + PayloadSize
           v == SubSeq(s, 1, e)
           w == Body(t)
           h == t.pmt
           n == Len(s)
<1>1. /\ n \in Nat /\ PayloadSize \in Nat /\ PayloadSize > 16
      /\ e \in Nat /\ cur <= e /\ e <= n /\ e < n - 4 /\ e > 16 /\ n - 4 >= PayloadSize
  BY LenProperties, PayloadSizeAssumption
<1> HIDE DEF e
<1>2. Add(x, SubSeq(s, cur + 1, e)) = Buffered(v)
  BY <1>1, Collected
<1>3. v \in Seq(Byte) /\ Len(v) = e /\ \A k \in 1..e : v[k] = s[k]
  BY <1>1, Beginning
<1>4. n = Len(w) + 4 /\ Len(w) \in Nat /\ \A k \in 1..Len(w) : s[k] = w[k]
  BY ZenonT(30), BodyParts, BodyWritten, LenProperties
<1>5. Len(h) = 13 /\ \A k \in 1..Len(h) : w[0 + k] = h[k]
  <2>1. Lies(w, w, 0)
    <3> HIDE DEF w
    <3>1. 0 + Len(w) <= Len(w) /\ \A k \in 1..Len(w) : 0 + k = k
      BY <1>4
    <3> QED BY <3>1 DEF Lies
  <2>2. Lies(h, w, 0)
    BY <1>4, <2>1, BodyLies
  <2> QED BY <2>2, BodyParts DEF Lies
<1> HIDE DEF v, w, h, n
<1>6. Lies(h, v, 0)
  <2>1. 0 + Len(h) <= Len(v)
    BY <1>1, <1>3, <1>5
  <2>2. ASSUME NEW k \in 1..Len(h) PROVE v[0 + k] = h[k]
    <3>1. k \in Nat /\ k >= 1 /\ k <= 13 /\ 0 + k = k
      BY <1>5
    <3>2. k \in 1..e /\ k \in 1..Len(w)
      BY <1>1, <1>4, <3>1
    <3> QED BY <1>3, <1>4, <1>5, <3>1, <3>2
  <2> QED BY <2>1, <2>2 DEF Lies
<1>7. parse(Buffered(v), j) = [ok |-> FALSE, table |-> Buffered(v)]
  <2>1. /\ Len(serialize(t)) <= 1027 /\ Len(serialize(t)) - 4 >= PayloadSize
        /\ Len(v) < Len(serialize(t))
    BY <1>1, <1>3 DEF n
  <2>2. Lies(t.pmt, v, 0)
    BY <1>6 DEF h
  <2> QED BY <1>3, <2>1, <2>2, TableWaits
<1> QED
  BY <1>2, <1>7 DEF v, e

\* With the last of several packets the table is read.
LEMMA RestReceived ==
    ASSUME NEW t, Shape(t), Readable(t), NEW s, s = serialize(t), s \in Seq(Byte),
           Len(s) <= 1027, NEW cur \in Nat, cur > 0, cur <= Len(s),
           NEW r, r = Buffered(SubSeq(s, 1, cur)), NEW j \in Byte
    PROVE  Found(parse(Add(r, SubSeq(s, cur + 1, Len(s))), j), t)
<1> DEFINE e == Len(s)
           v == SubSeq(s, 1, e)
           w == Body(t)
<1>1. e \in Nat /\ cur <= e /\ e <= Len(s) /\ Awaiting(r, s, cur)
  BY LenProperties DEF Awaiting
<1> HIDE DEF e
<1>2. Add(r, SubSeq(s, cur + 1, e)) = Buffered(v)
  BY <1>1, Collected
<1>3. v \in Seq(Byte) /\ Len(v) = e /\ \A k \in 1..e : v[k] = s[k]
  BY <1>1, Beginning
<1>4. e = Len(w) + 4 /\ Len(w) \in Nat /\ \A k \in 1..Len(w) : s[k] = w[k]
  BY SMTT(30), BodyParts, BodyWritten, LenProperties DEF e
<1> HIDE DEF v, w
<1>5. Lies(w, v, 0)
  <2>1. 0 + Len(w) <= Len(v)
    BY <1>3, <1>4
  <2>2. ASSUME NEW k \in 1..Len(w) PROVE v[0 + k] = w[k]
    <3>1. k \in 1..e /\ 0 + k = k
      BY <1>4
    <3> QED BY <1>3, <1>4, <3>1
  <2> QED BY <2>1, <2>2 DEF Lies
<1>6. Found(parse(Buffered(v), j), t)
  <2>1. Len(serialize(t)) <= 1027 /\ Len(v) >= Len(serialize(t))
    BY <1>1, <1>3 DEF e
  <2>2. Lies(Body(t), v, 0)
    BY <1>5 DEF w
  <2> QED BY <1>3, <2>1, <2>2, TableRead
<1> QED
  BY <1>2, <1>6 DEF e

-----------------------------------------------------------------------------
\* The inductive invariant: what the receiver has is the beginning of the section, what
\* is on its way is the rest, and no call of parse() has read the table yet.
Wanted == Carried(Len(serialize(table))) /\ Readable(table)

Underway ==
    /\ verdicts \in Seq({FALSE})
    /\ \/ OneOf(wire, serialize(table))
       \/ \E cur \in Nat : Several(wire, serialize(table), cur, readTable)

Whole ==
    /\ \A k \in 1..Len(verdicts) : verdicts[k] <=> k = Len(verdicts)
    /\ readTable.elmts = table.elmts
    /\ readTable.info = table.info
    /\ Header(readTable) = Header(table)
    /\ readTable.crc = table.crc

MapInv ==
    kind = "PMT" =>
        /\ state = "build" => verdicts = <<>>
        /\ state = "wire" /\ Wanted => Underway
        /\ state = "arrived" /\ Wanted => Whole

LEMMA InitMapInv == Init => MapInv
  BY DEF Init, MapInv

LEMMA SendMapInv ==
    ASSUME TableInv, WireInv, MapInv, kind = "PMT", NEW f \in {"one", "many"}, Send(f)
    PROVE  MapInv'
<1> DEFINE s == serialize(table)
           n == Len(s)
<1>1. s \in Seq(Byte) /\ s # <<>>
  BY WrittenBytes DEF TableInv
<1>2. /\ state = "build" /\ form' = f
      /\ IF f = "many" /\ Endless(n)
         THEN state' = "endless" /\ wire' = <<>>
         ELSE /\ state' = "wire"
              /\ wire' = IF f = "one" THEN <<packetizeOne(s, 0)>> ELSE packetize(s, 0)
  BY DEF Send
<1>3. table' = table /\ verdicts' = verdicts /\ readTable' = readTable
  BY DEF Send, buildVars, readVars
<1>4. verdicts = <<>> /\ verdicts \in Seq({FALSE})
  BY <1>2, EmptySeq DEF MapInv
<1>5. state' # "build" /\ state' # "arrived"
  BY <1>2
<1>6. serialize(table)' = s
  BY <1>3
<1> HIDE DEF s
<1>7. ASSUME state' = "wire", Wanted' PROVE Underway'
  <2>1. IF f = "one" THEN n <= PayloadSize + 3
        ELSE n <= PayloadSize \/ (Left(n) < PayloadSize - 1 /\ n <= 1027)
    BY <1>2, <1>6, <1>7 DEF Wanted, Carried
  <2>2. CASE f = "one"
    <3>1. OneOf(<<packetizeOne(s, 0)>>, s)
      BY <1>1, <2>1, <2>2, OneSent
    <3>2. wire' = <<packetizeOne(s, 0)>>
      BY <1>2, <2>2
    <3>3. OneOf(wire', s)
      BY <3>1, <3>2
    <3> QED BY <1>3, <1>4, <1>6, <3>3 DEF Underway
  <2>3. CASE f # "one"
    <3>1. ~Endless(n) /\ wire' = packetize(s, 0)
      BY <1>2, <1>7, <2>3
    <3>2. OneOf(packetize(s, 0), s) \/ Several(packetize(s, 0), s, 0, readTable)
      BY <1>1, <2>1, <2>3, <3>1, ManySent
    <3>3. OneOf(wire', s) \/ Several(wire', s, 0, readTable')
      BY <1>3, <3>1, <3>2
    <3> QED BY <1>3, <1>4, <1>6, <3>3 DEF Underway
  <2> QED BY <2>2, <2>3
<1> QED
  BY <1>5, <1>7 DEF MapInv

\* What the receiver makes of a packet.
ReadOf(p, r, j) == parse(Add(IF p.start THEN NewTable ELSE r, getData(p)), j)

LEMMA MapReceived ==
    ASSUME kind = "PMT", Receive
    PROVE  /\ wire' = Tail(wire)
           /\ state' = IF wire' = <<>> THEN "arrived" ELSE "wire"
           /\ readTable' = ReadOf(Head(wire), readTable, junk).table
           /\ verdicts' = Append(verdicts, ReadOf(Head(wire), readTable, junk).ok)
           /\ kind' = kind /\ table' = table /\ form' = form
  BY DEF Receive, buildVars, ReadOf

\* The header of a table is in its first bytes.
LEMMA SameHeader ==
    ASSUME NEW a, NEW b, a.pmt = b.pmt
    PROVE  Header(a) = Header(b)
<1>1. programInfoLength(a) = programInfoLength(b)
  BY DEF programInfoLength
<1> HIDE DEF programInfoLength
<1> DEFINE x == a.pmt
<1>2. x = b.pmt /\ x = a.pmt
  OBVIOUS
<1> HIDE DEF x
<1> QED
  BY <1>1, <1>2, SMT DEF Header

\* A reader that has found the table has all of it.
LEMMA FoundWhole ==
    ASSUME TableInv, EditInv, Readable(table), verdicts \in Seq({FALSE}),
           NEW read, Found(read, table), table' = table,
           readTable' = read.table, verdicts' = Append(verdicts, read.ok)
    PROVE  Whole'
<1>1. table.crc = Covered(table)
  BY ReadableChecked
<1>2. /\ read.ok = TRUE /\ readTable'.pmt = table.pmt /\ readTable'.info = table.info
      /\ readTable'.elmts = table.elmts /\ readTable'.crc = table.crc
  BY <1>1 DEF Found
<1>3. Header(readTable') = Header(table)
  BY <1>2, SameHeader
<1>4. \A k \in 1..Len(verdicts') : verdicts'[k] <=> k = Len(verdicts')
  <2> DEFINE n == Len(verdicts)
             u == Append(verdicts, TRUE)
  <2>1. n \in Nat /\ \A k \in 1..n : verdicts[k] = FALSE
    <3>1. n \in Nat
      BY LenProperties
    <3>2. \A k \in 1..n : verdicts[k] \in {FALSE}
      BY ElementOfSeq
    <3> QED BY <3>1, <3>2
  <2>2. Len(u) = n + 1 /\ u[n + 1] = TRUE /\ \A k \in 1..n : u[k] = verdicts[k]
    BY AppendProperties
  <2>3. verdicts' = u
    BY <1>2
  <2> HIDE DEF n, u
  <2>4. ASSUME NEW k \in 1..Len(u) PROVE u[k] <=> k = Len(u)
    <3>1. CASE k = n + 1
      BY <2>2, <3>1
    <3>2. CASE k # n + 1
      <4>1. k \in 1..n /\ k # Len(u)
        BY <2>1, <2>2, <3>2
      <4>2. u[k] = FALSE
        BY <2>1, <2>2, <4>1
      <4> QED BY <4>1, <4>2
    <3> QED BY <3>1, <3>2
  <2> QED BY <2>3, <2>4
<1> QED
  BY <1>2, <1>3, <1>4 DEF Whole

\* There are packets as long as there are bytes.
LEMMA SentType ==
    ASSUME NEW s \in Seq(Byte), NEW cur \in Nat, cur < Len(s)
    PROVE  Sent(s, cur) \in Seq(Packet) /\ Sent(s, cur) # <<>>
<1> DEFINE f == PacketAt(s)
           g == NextPacket(s)
           to == Len(s)
           e == NextPacket(s)[cur]
           x == PacketAt(s)[cur]
<1>1. Forward(g) /\ to \in Int /\ \A c \in Nat : f[c] \in Packet
  BY PacketizeWalks
<1>2. Sent(s, cur) = Before(x, Sent(s, e)) /\ x \in Packet /\ e \in Nat
  BY FirstSent
<1> HIDE DEF f, g, to, e, x
<1>3. Walk(f, g, cur, to).list \in Seq(Packet) /\ Walk(f, g, e, to).list \in Seq(Packet)
  BY <1>1, <1>2, WalkType
<1>4. Sent(s, cur) \in Seq(Packet) /\ Sent(s, e) \in Seq(Packet)
  BY <1>3 DEF Sent, f, g, to
<1> DEFINE w == Sent(s, e)
<1> HIDE DEF w
<1>5. w \in Seq(Packet) /\ Sent(s, cur) = Before(x, w)
  BY <1>2, <1>4 DEF w
<1>6. Len(Before(x, w)) = Len(w) + 1 /\ Len(w) \in Nat
  BY <1>2, <1>5, BeforeFacts
<1>7. Len(Sent(s, cur)) > 0
  BY <1>5, <1>6
<1>8. Sent(s, cur) # <<>>
  <2>1. Len(<<>>) = 0
    BY EmptySeq
  <2> QED BY <1>7, <2>1
<1> QED
  BY <1>4, <1>8

\* The packets after the first.
LEMMA AfterFirst ==
    ASSUME NEW p \in Packet, NEW w \in Seq(Packet)
    PROVE  Head(Before(p, w)) = p /\ Tail(Before(p, w)) = w
  BY DEF Before

LEMMA ReceiveMapInv ==
    ASSUME TableInv, WireInv, EditInv, MapInv, kind = "PMT", Receive
    PROVE  MapInv'
<1> DEFINE s == serialize(table)
           n == Len(s)
           P == PayloadSize
           p == Head(wire)
           x == IF p.start THEN NewTable ELSE readTable
           read == ReadOf(p, readTable, junk)
<1>1. /\ wire' = Tail(wire)
      /\ state' = IF wire' = <<>> THEN "arrived" ELSE "wire"
      /\ readTable' = read.table /\ verdicts' = Append(verdicts, read.ok)
      /\ kind' = kind /\ table' = table /\ form' = form
  BY MapReceived
<1>2. state = "wire"
  BY DEF Receive
<1>3. s \in Seq(Byte) /\ Shape(table)
  BY WrittenBytes DEF TableInv
<1>4. n \in Nat /\ P \in Nat /\ P > 16 /\ junk \in Byte
  BY <1>3, LenProperties, PayloadSizeAssumption DEF WireInv
<1>5. (Wanted' <=> Wanted) /\ serialize(table)' = s
  BY <1>1 DEF Wanted, Carried
<1>6. read = parse(Add(x, getData(p)), junk)
  BY DEF ReadOf
<1> HIDE DEF read
<1>7. SUFFICES ASSUME Wanted
      PROVE  (state' = "wire" => Underway') /\ (state' = "arrived" => Whole')
  BY <1>1, <1>5 DEF MapInv
<1>8. Underway /\ verdicts \in Seq({FALSE}) /\ Readable(table)
  BY <1>2, <1>7 DEF MapInv, Underway, Wanted
<1>9. ASSUME Found(read, table), wire' = <<>> PROVE state' = "arrived" /\ Whole'
  BY <1>1, <1>8, <1>9, FoundWhole
<1>10. CASE OneOf(wire, s)
  <2>1. PICK q \in Packet : wire = <<q>> /\ Carries(q, s) /\ n <= P + 3
    BY <1>10 DEF OneOf
  <2>2. p = q /\ Tail(wire) = <<>>
    BY <2>1
  <2>3. Found(parse(Add(IF q.start THEN NewTable ELSE readTable, getData(q)), junk), table)
    BY <1>3, <1>4, <1>8, <2>1, OneReceived
  <2>4. Found(read, table)
    BY <1>6, <2>2, <2>3
  <2> QED BY <1>1, <1>9, <2>2, <2>4
<1>11. ASSUME NEW cur \in Nat, Several(wire, s, cur, readTable)
       PROVE  (state' = "wire" => Underway') /\ (state' = "arrived" => Whole')
  <2>1. /\ n > P + 4 /\ n <= 1027 /\ n - cur >= 5 /\ Left(n - cur) < P - 1
        /\ wire = Sent(s, cur)
        /\ cur > 0 => cur >= P /\ readTable = Buffered(SubSeq(s, 1, cur))
    BY <1>11 DEF Several
  <2>2. n - cur \in Nat
    BY <1>4, <2>1
  <2>3. CASE n - cur > P + 4
    <3> DEFINE w == Sent(s, cur + P)
    <3>1. PICK q \in Packet :
              /\ Sent(s, cur) = Before(q, w)
              /\ q.start = (cur = 0)
              /\ getData(q) = SubSeq(s, cur + 1, cur + P)
      BY <1>3, <2>3, FullSent
    <3>2. w \in Seq(Packet) /\ w # <<>>
      <4> DEFINE c == cur + P
      <4>1. c \in Nat /\ c < n
        BY <1>4, <2>3
      <4> HIDE DEF c
      <4> QED BY <1>3, <4>1, SentType DEF c
    <3> HIDE DEF w
    <3>3. p = q /\ wire' = w
      BY <1>1, <2>1, <3>1, <3>2, AfterFirst
    <3>4. Awaiting(x, s, cur)
      <4>1. q.start <=> cur = 0
        BY <3>1
      <4>2. cur = 0 => x = NewTable
        BY <3>3, <4>1
      <4>3. cur > 0 => x = readTable
        BY <3>3, <4>1
      <4> HIDE DEF x
      <4> QED BY <2>1, <4>2, <4>3 DEF Awaiting
    <3> HIDE DEF x
    <3>5. read = [ok |-> FALSE, table |-> Buffered(SubSeq(s, 1, cur + P))]
      BY <1>3, <1>4, <1>6, <1>8, <2>1, <2>3, <3>1, <3>3, <3>4, PartReceived
    <3>6. state' = "wire"
      BY <1>1, <3>2, <3>3
    <3>7. verdicts' \in Seq({FALSE})
      <4>1. verdicts' = Append(verdicts, FALSE)
        BY <1>1, <3>5
      <4> QED BY <1>8, <4>1, AppendProperties
    <3>8. Several(wire', s, cur + P, readTable')
      <4> DEFINE y == n - cur
                 c == cur + P
      <4>1. y \in Nat /\ y >= 5 /\ y > P + 4 /\ n - c = y - P
        BY <1>4, <2>1, <2>3
      <4>2. n - c >= 5 /\ c > 0 /\ c >= P
        BY <1>4, <2>1, <2>3
      <4>3. Left(y) < P - 1
        BY <2>1
      <4> HIDE DEF y
      <4>4. Left(n - c) < P - 1
        BY <4>1, <4>3, LeftOf
      <4>5. readTable' = Buffered(SubSeq(s, 1, c)) /\ wire' = Sent(s, c)
        BY <1>1, <3>3, <3>5 DEF w
      <4> HIDE DEF c
      <4> QED BY <2>1, <4>2, <4>4, <4>5 DEF Several, c
    <3>9. cur + P \in Nat
      BY <1>4
    <3> QED BY <1>5, <3>6, <3>7, <3>8, <3>9 DEF Underway
  <2>4. CASE ~(n - cur > P + 4)
    <3>1. cur > 0 /\ cur < n /\ cur <= n /\ n - cur <= P + 4
      BY <1>4, <2>1, <2>4
    <3>2. n - cur < P - 1
      <4> DEFINE y == n - cur
      <4>1. y \in Nat /\ y >= 5 /\ y <= P + 4 /\ Left(y) < P - 1
        BY <2>1, <2>2, <3>1
      <4> HIDE DEF y
      <4>2. y < P - 1
        BY <4>1, LeftOf
      <4> QED BY <4>2 DEF y
    <3>3. PICK q \in Packet :
              /\ Sent(s, cur) = <<q>>
              /\ q.start = FALSE
              /\ getData(q) = SubSeq(s, cur + 1, n)
      BY <1>3, <3>1, <3>2, LastSent
    <3>4. p = q /\ Tail(wire) = <<>>
      BY <2>1, <3>3
    <3>5. x = readTable
      BY <3>3, <3>4
    <3>6. Found(parse(Add(readTable, SubSeq(s, cur + 1, n)), junk), table)
      BY <1>3, <1>4, <1>8, <2>1, <3>1, RestReceived
    <3>7. Found(read, table)
      BY <1>6, <3>3, <3>4, <3>5, <3>6
    <3> QED BY <1>1, <1>9, <3>4, <3>7
  <2> QED BY <2>3, <2>4
<1> QED
  BY <1>8, <1>10, <1>11 DEF Underway

LEMMA NextMapInv ==
    TableInv /\ WireInv /\ EditInv /\ MapInv /\ [Next]_vars => MapInv'
<1> SUFFICES ASSUME TableInv, WireInv, EditInv, MapInv, [Next]_vars PROVE MapInv'
  OBVIOUS
<1>1. ASSUME kind = "PMT", state = "build", UNCHANGED <<kind, sendVars, readVars>> PROVE MapInv'
  BY <1>1 DEF MapInv, sendVars, readVars
<1>2. ASSUME NEW e \in Elements, AddProgramElement(e) \/ RemoveProgramElement(e) PROVE MapInv'
  BY <1>1, <1>2 DEF AddProgramElement, RemoveProgramElement, Building
<1>3. ASSUME NEW k \in 1..Len(table.elmts), NEW d \in Extra, EditElement(k, d) PROVE MapInv'
  BY <1>1, <1>3 DEF EditElement, Building
<1>4. ASSUME kind # "PMT", kind' = kind PROVE MapInv'
  BY <1>4 DEF MapInv
<1>5. ASSUME NEW p \in Programs, AddProgram(p) PROVE MapInv'
  BY <1>4, <1>5 DEF AddProgram
<1>6. ASSUME NEW f \in {"one", "many"}, Send(f) PROVE MapInv'
  BY <1>4, <1>6, SendMapInv DEF Send, buildVars
<1>7. CASE Receive
  BY <1>4, <1>7, ReceiveMapInv DEF Receive, buildVars
<1>8. CASE UNCHANGED vars
  BY <1>8 DEF vars, buildVars, sendVars, readVars, MapInv, Wanted, Carried, Underway, Whole
<1> QED
  BY <1>2, <1>3, <1>5, <1>6, <1>7, <1>8 DEF Next

\* For every seed, every sequence of additions, removals and edits, and both forms of
\* packetize: a program map table that packetize and a reader carry, and that states its
\* length and those of its values, is found by the reader as it is, with its last packet
\* and not before.
THEOREM TableFound == Spec => []TableArrives
<1>1. Init => TableInv /\ WireInv /\ EditInv /\ MapInv
  BY InitTableInv, InitWireInv, InitMapInv DEF Init, EditInv
<1>2. TableInv /\ WireInv /\ EditInv /\ MapInv /\ [Next]_vars
        => (TableInv /\ WireInv /\ EditInv /\ MapInv)'
  BY NextTableInv, NextWireInv, NextEditInv, NextMapInv
<1>3. MapInv => TableArrives
  BY DEF MapInv, Wanted, Whole, TableArrives
<1> QED
  BY <1>1, <1>2, <1>3, PTL DEF Spec
=============================================================================
