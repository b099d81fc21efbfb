----------------------------- MODULE DataProofs ------------------------------
(***************************************************************************)
(* Induction on the naturals, and what the recursive operators on          *)
(* sequences give that the modules of the tables are built from: sums,     *)
(* flattened sequences, and the walk of a cursor.                          *)
(***************************************************************************)
EXTENDS ProgramMap, SequenceTheorems, WellFoundedInduction, TLAPS

\* A non-empty set of naturals has a least element: induction, for a property of which
\* the set of counterexamples can be named.
LEMMA LeastNat ==
    ASSUME NEW T, T \subseteq Nat, T # {}
    PROVE  \E x \in T : \A y \in T : x <= y
<1>1. \E x \in T : \A y \in T : ~(<<y, x>> \in OpToRel(<, Nat))
    BY NatLessThanWellFounded, WFMin
<1>2. \A x \in Nat, y \in Nat : y < x => <<y, x>> \in OpToRel(<, Nat)
    BY DEF OpToRel
<1>3. \A x \in T, y \in T : ~(y < x) => x <= y
    OBVIOUS
<1> QED BY <1>1, <1>2, <1>3

\* A function on 1..n is a sequence.
LEMMA IsSeq ==
    ASSUME NEW S, NEW n \in Nat, NEW g, DOMAIN g = 1..n, g = [k \in DOMAIN g |-> g[k]],
           \A k \in 1..n : g[k] \in S
    PROVE  g \in Seq(S) /\ Len(g) = n
<1>1. g \in [1..n -> S]
  OBVIOUS
<1>2. \A m \in Nat : \A h \in [1..m -> S] : h \in Seq(S)
  OBVIOUS
<1>3. g \in Seq(S)
  BY <1>1, <1>2
<1>4. \A m \in Nat : 1..m = 1..n => m = n
  OBVIOUS
<1>5. Len(g) \in Nat /\ DOMAIN g = 1..Len(g)
  BY <1>3, LenProperties
<1> QED
  BY <1>3, <1>4, <1>5

\* Two sequences with the same elements.
LEMMA SameSeq ==
    ASSUME NEW S, NEW a \in Seq(S), NEW b \in Seq(S), NEW n \in Nat,
           DOMAIN a = 1..n, DOMAIN b = 1..n, \A k \in 1..n : a[k] = b[k]
    PROVE  a = b
<1>1. Len(a) = n /\ Len(b) = n
  <2>1. \A m \in Nat : 1..m = 1..n => m = n
    OBVIOUS
  <2>2. DOMAIN a = 1..Len(a) /\ DOMAIN b = 1..Len(b) /\ Len(a) \in Nat /\ Len(b) \in Nat
    BY LenProperties
  <2> QED BY <2>1, <2>2
<1> QED
  BY <1>1, SeqEqual

-----------------------------------------------------------------------------
\* The greatest of some of the first n positions of a sequence.
LEMMA Greatest ==
    ASSUME NEW n \in Nat, NEW t, t \subseteq 1..n, t # {}
    PROVE  Max(t) \in t /\ \A y \in t : Max(t) >= y
<1> DEFINE far == {n - y : y \in t}
<1>1. far \subseteq Nat /\ far # {}
  <2>1. \A y \in 1..n : n - y \in Nat
    OBVIOUS
  <2>2. far \subseteq Nat
    BY <2>1
  <2>3. PICK y : y \in t
    OBVIOUS
  <2>4. n - y \in far
    BY <2>3
  <2> HIDE DEF far
  <2> QED BY <2>2, <2>4
<1>2. PICK d \in far : \A e \in far : d <= e
  BY <1>1, LeastNat
<1>3. PICK x \in t : d = n - x
  OBVIOUS
<1>4. \A y \in t : x >= y
  <2>1. ASSUME NEW y \in t PROVE x >= y
    <3>1. n - y \in far /\ y \in 1..n /\ x \in 1..n
      OBVIOUS
    <3>2. n - x <= n - y
      BY <1>2, <1>3, <3>1
    <3> QED BY <3>1, <3>2
  <2> QED BY <2>1
<1>5. \E x1 \in t : \A y \in t : x1 >= y
  BY <1>4
<1> QED
  BY <1>5 DEF Max

LEMMA LastIsGreatest ==
    ASSUME NEW n \in Nat, NEW t, t \subseteq 1..n, n \in t
    PROVE  Max(t) = n
<1>1. Max(t) \in t /\ Max(t) >= n
  BY Greatest
<1>2. Max(t) \in 1..n
  BY <1>1
<1> HIDE DEF Max
<1> QED
  BY <1>1, <1>2

\* What holds for no position, and for some if it holds without the greatest of them,
\* holds for all.
LEMMA Downwards ==
    ASSUME NEW n \in Nat, NEW G, {} \in G,
           \A t \in SUBSET (1..n) : t # {} /\ t \ {Max(t)} \in G => t \in G
    PROVE  SUBSET (1..n) \subseteq G
<1> DEFINE bad == {m \in 0..n : \E t \in SUBSET (1..m) : t \notin G}
<1>1. SUFFICES ASSUME bad # {} PROVE FALSE
  <2>1. n \in 0..n
    OBVIOUS
  <2> QED BY <2>1
<1>2. PICK m \in bad : \A k \in bad : m <= k
  <2>1. bad \subseteq Nat
    OBVIOUS
  <2> QED BY <1>1, <2>1, LeastNat
<1>3. PICK t \in SUBSET (1..m) : t \notin G
  BY <1>2
<1>4. t # {} /\ t \in SUBSET (1..n)
  BY <1>3
<1>5. m \in t /\ m # 0
  <2>1. m # 0
    <3>1. 1..0 = {}
      OBVIOUS
    <3> QED BY <3>1, <1>3, <1>4, Zenon
  <2>2. CASE m \notin t
    <3>1. t \in SUBSET (1..(m - 1)) /\ m - 1 \in 0..n
      BY <2>1, <2>2
    <3>2. m - 1 \in bad
      BY <1>3, <3>1
    <3> QED BY <1>2, <3>2
  <2> QED BY <2>1, <2>2
<1>6. Max(t) = m
  <2>1. m \in Nat /\ t \subseteq 1..m
    OBVIOUS
  <2> HIDE DEF bad
  <2> QED BY <2>1, <1>5, LastIsGreatest
<1>7. t \ {m} \in SUBSET (1..(m - 1)) /\ m - 1 \in 0..n
  BY <1>5
<1>8. t \ {m} \in G
  <2>1. m - 1 \notin bad
    BY <1>2
  <2> QED BY <1>7, <2>1
<1> QED
  BY <1>3, <1>4, <1>6, <1>8

-----------------------------------------------------------------------------
\* Sums.  The function by which Total adds up, for the first n positions.
Adds(f, s, n) ==
    \A t \in SUBSET (1..n) : f[t] = IF t = {} THEN 0 ELSE f[t \ {Max(t)}] + s[Max(t)]

LEMMA SomeAdds ==
    ASSUME NEW s, NEW n \in Nat
    PROVE  \E f : Adds(f, s, n)
<1> DEFINE bad == {m \in Nat : ~\E f : Adds(f, s, m)}
<1>1. SUFFICES ASSUME bad # {} PROVE FALSE
  OBVIOUS
<1>2. PICK m \in bad : \A k \in bad : m <= k
  <2>1. bad \subseteq Nat
    OBVIOUS
  <2> HIDE DEF bad
  <2> QED BY <1>1, <2>1, LeastNat
<1>3. m \in Nat /\ ~\E f : Adds(f, s, m)
  OBVIOUS
<1>4. m # 0
  <2>1. SUFFICES ASSUME m = 0 PROVE Adds([t \in {{}} |-> 0], s, m)
    BY <1>3
  <2>2. 1..m = {}
    BY <2>1
  <2>3. SUBSET (1..m) = {{}}
    BY <2>2
  <2> QED BY <2>3 DEF Adds
<1>5. PICK f : Adds(f, s, m - 1)
  <2>1. m - 1 \in Nat /\ ~(m <= m - 1)
    BY <1>3, <1>4
  <2> QED BY <1>2, <2>1
<1> HIDE DEF bad
<1> DEFINE g == [t \in SUBSET (1..m) |-> IF m \in t THEN f[t \ {m}] + s[m] ELSE f[t]]
<1>6. ASSUME NEW t \in SUBSET (1..m)
      PROVE  g[t] = IF t = {} THEN 0 ELSE g[t \ {Max(t)}] + s[Max(t)]
  <2>1. CASE m \in t
    <3>1. Max(t) = m /\ t # {}
      BY <2>1, <1>3, LastIsGreatest
    <3>2. g[t] = f[t \ {m}] + s[m]
      BY <2>1
    <3>3. g[t \ {m}] = f[t \ {m}]
      <4>1. t \ {m} \in SUBSET (1..m) /\ m \notin t \ {m}
        OBVIOUS
      <4> QED BY <4>1, Zenon
    <3> HIDE DEF g
    <3> QED BY <3>1, <3>2, <3>3
  <2>2. CASE m \notin t
    <3>1. t \in SUBSET (1..(m - 1))
      BY <2>2, <1>3
    <3>2. t \ {Max(t)} \in SUBSET (1..m) /\ m \notin t \ {Max(t)}
      BY <2>2
    <3>3. g[t] = f[t] /\ g[t \ {Max(t)}] = f[t \ {Max(t)}]
      BY <2>2, <3>2, Zenon
    <3>4. f[t] = IF t = {} THEN 0 ELSE f[t \ {Max(t)}] + s[Max(t)]
      BY <1>5, <3>1 DEF Adds
    <3> QED BY <3>3, <3>4
  <2> QED BY <2>1, <2>2
<1>7. Adds(g, s, m)
  <2> HIDE DEF g
  <2> QED BY <1>6 DEF Adds
<1> QED
  BY <1>3, <1>7, Zenon

LEMMA SameAdds ==
    ASSUME NEW s, NEW n \in Nat, NEW f, NEW g, Adds(f, s, n), Adds(g, s, n)
    PROVE  f[1..n] = g[1..n]
<1> DEFINE G == {t \in SUBSET (1..n) : f[t] = g[t]}
<1>1. {} \in G
  <2>1. {} \in SUBSET (1..n)
    OBVIOUS
  <2> QED BY <2>1 DEF Adds
<1>2. ASSUME NEW t \in SUBSET (1..n), t # {}, t \ {Max(t)} \in G
      PROVE  t \in G
  <2>1. f[t] = f[t \ {Max(t)}] + s[Max(t)] /\ g[t] = g[t \ {Max(t)}] + s[Max(t)]
    BY <1>2, Zenon DEF Adds
  <2> QED BY <1>2, <2>1
<1> HIDE DEF G
<1>3. SUBSET (1..n) \subseteq G
  BY <1>1, <1>2, Downwards
<1>4. 1..n \in G
  BY <1>3
<1> QED
  BY <1>4 DEF G

LEMMA TotalIs ==
    ASSUME NEW s, NEW n \in Nat, DOMAIN s = 1..n, NEW f, Adds(f, s, n)
    PROVE  Total(s) = f[1..n]
<1> DEFINE Is(g) == g = [t \in SUBSET DOMAIN s |->
                           IF t = {} THEN 0 ELSE g[t \ {Max(t)}] + s[Max(t)]]
           g == CHOOSE g : Is(g)
           h == [t \in SUBSET DOMAIN s |-> f[t]]
<1>1. Total(s) = g[DOMAIN s]
  BY DEF Total, FoldLeft, MapThenFoldSet
<1>2. \A t \in SUBSET (1..n) : h[t] = f[t] /\ t \ {Max(t)} \in SUBSET (1..n)
  OBVIOUS
<1>3. Is(h)
  <2>1. ASSUME NEW t \in SUBSET DOMAIN s
        PROVE  h[t] = IF t = {} THEN 0 ELSE h[t \ {Max(t)}] + s[Max(t)]
    <3>1. f[t] = IF t = {} THEN 0 ELSE f[t \ {Max(t)}] + s[Max(t)]
      BY DEF Adds
    <3>2. h[t] = f[t] /\ h[t \ {Max(t)}] = f[t \ {Max(t)}]
      BY <1>2
    <3> HIDE DEF h
    <3> QED BY <3>1, <3>2
  <2>2. h = [t \in SUBSET DOMAIN s |-> h[t]]
    BY Zenon
  <2> HIDE DEF h
  <2> QED BY <2>1, <2>2
<1>4. Is(g)
  BY <1>3, Zenon
<1> HIDE DEF g, h
<1>5. Adds(g, s, n)
  BY <1>4 DEF Adds
<1>6. g[1..n] = f[1..n]
  BY <1>5, SameAdds
<1> QED
  BY <1>1, <1>6

LEMMA TotalNone == Total(<<>>) = 0
<1>1. PICK f : Adds(f, <<>>, 0)
  BY SomeAdds
<1>2. DOMAIN <<>> = 1..0 /\ 1..0 = {}
  OBVIOUS
<1>3. Total(<<>>) = f[1..0]
  BY <1>1, <1>2, TotalIs
<1>4. f[{}] = 0
  <2>1. {} \in SUBSET (1..0)
    OBVIOUS
  <2> QED BY <1>1, <2>1 DEF Adds
<1> QED
  BY <1>2, <1>3, <1>4

LEMMA TotalAppend ==
    ASSUME NEW S, NEW s \in Seq(S), NEW x \in S
    PROVE  Total(Append(s, x)) = Total(s) + x
<1> DEFINE n == Len(s)
           u == Append(s, x)
<1>1. n \in Nat /\ DOMAIN s = 1..n /\ DOMAIN u = 1..(n + 1) /\ u[n + 1] = x
      /\ \A k \in 1..n : u[k] = s[k]
  OBVIOUS
<1> HIDE DEF n, u
<1>2. PICK f : Adds(f, u, n + 1)
  <2>1. n + 1 \in Nat
    BY <1>1
  <2> QED BY <2>1, SomeAdds
<1>3. Adds(f, s, n)
  <2>1. ASSUME NEW t \in SUBSET (1..n)
        PROVE  f[t] = IF t = {} THEN 0 ELSE f[t \ {Max(t)}] + s[Max(t)]
    <3>1. t \in SUBSET (1..(n + 1))
      BY <1>1
    <3>2. f[t] = IF t = {} THEN 0 ELSE f[t \ {Max(t)}] + u[Max(t)]
      BY <1>2, <3>1 DEF Adds
    <3>3. t # {} => u[Max(t)] = s[Max(t)]
      <4>1. t # {} => Max(t) \in t
        BY <1>1, Greatest
      <4> QED BY <1>1, <4>1
    <3> QED BY <3>2, <3>3
  <2> QED BY <2>1 DEF Adds
<1>4. Total(s) = f[1..n]
  BY <1>1, <1>3, TotalIs
<1>5. Total(u) = f[1..(n + 1)]
  <2>1. n + 1 \in Nat
    BY <1>1
  <2> QED BY <1>1, <1>2, <2>1, TotalIs
<1>6. f[1..(n + 1)] = f[1..n] + x
  <2> DEFINE t == 1..(n + 1)
  <2>1. t \in SUBSET (1..(n + 1)) /\ t # {} /\ n + 1 \in t /\ t \ {n + 1} = 1..n /\ n + 1 \in Nat
    <3>1. \A m \in Nat : /\ m + 1 \in Nat
                         /\ \A k : k \in 1..(m + 1) /\ k # m + 1 <=> k \in 1..m
                         /\ m + 1 \in 1..(m + 1)
      OBVIOUS
    <3>2. (1..(n + 1)) \ {n + 1} = 1..n
      BY <1>1, <3>1
    <3> QED BY <1>1, <3>1, <3>2
  <2>2. Max(t) = n + 1
    BY <2>1, LastIsGreatest
  <2>3. f[t] = f[t \ {Max(t)}] + u[Max(t)]
    BY <1>2, <2>1 DEF Adds
  <2> HIDE DEF t
  <2>4. f[t] = f[1..n] + x
    BY <1>1, <2>1, <2>2, <2>3
  <2> QED BY <2>4 DEF t
<1> QED
  BY <1>4, <1>5, <1>6 DEF u

-----------------------------------------------------------------------------
\* What holds for the empty sequence, and for a sequence with one more element if for
\* it, holds for all.
LEMMA OnSequences ==
    ASSUME NEW S, NEW G, <<>> \in G,
           \A s \in Seq(S), x \in S : s \in G => Append(s, x) \in G
    PROVE  Seq(S) \subseteq G
<1> DEFINE bad == {m \in Nat : \E s \in Seq(S) : Len(s) = m /\ s \notin G}
<1>1. SUFFICES ASSUME bad # {} PROVE FALSE
  <2>1. ASSUME NEW s \in Seq(S), s \notin G PROVE Len(s) \in bad
    BY <2>1
  <2> QED BY <2>1
<1>2. PICK m \in bad : \A k \in bad : m <= k
  <2>1. bad \subseteq Nat
    OBVIOUS
  <2> HIDE DEF bad
  <2> QED BY <1>1, <2>1, LeastNat
<1>3. PICK s \in Seq(S) : Len(s) = m /\ s \notin G
  BY <1>2
<1>4. Len(s) # 0
  BY <1>3
<1>5. PICK u \in Seq(S), x \in S : s = Append(u, x)
  BY <1>4, SequenceEmptyOrAppend
<1>6. Len(u) \in Nat /\ ~(m <= Len(u))
  BY <1>3, <1>5
<1>7. u \in G
  BY <1>2, <1>5, <1>6
<1> QED
  BY <1>3, <1>5, <1>7

LEMMA TotalNat ==
    ASSUME NEW s \in Seq(Nat)
    PROVE  Total(s) \in Nat
<1> DEFINE G == {t \in Seq(Nat) : Total(t) \in Nat}
<1>1. <<>> \in G
  <2>1. <<>> \in Seq(Nat)
    OBVIOUS
  <2> QED BY <2>1, TotalNone
<1>2. ASSUME NEW t \in Seq(Nat), NEW x \in Nat, t \in G PROVE Append(t, x) \in G
  <2>1. Append(t, x) \in Seq(Nat)
    OBVIOUS
  <2>2. Total(Append(t, x)) = Total(t) + x
    BY TotalAppend
  <2>3. Total(t) \in Nat
    BY <1>2
  <2>4. Total(t) + x \in Nat
    BY <2>3
  <2> QED BY <2>1, <2>2, <2>4
<1> HIDE DEF G
<1>3. Seq(Nat) \subseteq G
  BY <1>1, <1>2, OnSequences
<1> QED
  BY <1>3 DEF G

LEMMA TotalConcat ==
    ASSUME NEW s \in Seq(Nat), NEW t \in Seq(Nat)
    PROVE  Total(s \o t) = Total(s) + Total(t)
<1> DEFINE G == {u \in Seq(Nat) : Total(s \o u) = Total(s) + Total(u)}
<1>0. Total(s) \in Nat
  BY TotalNat
<1>1. <<>> \in G
  <2>1. <<>> \in Seq(Nat) /\ s \o <<>> = s
    OBVIOUS
  <2> QED BY <1>0, <2>1, TotalNone
<1>2. ASSUME NEW u \in Seq(Nat), NEW x \in Nat, u \in G PROVE Append(u, x) \in G
  <2>1. Append(u, x) \in Seq(Nat) /\ s \o Append(u, x) = Append(s \o u, x) /\ s \o u \in Seq(Nat)
    OBVIOUS
  <2>2. Total(Append(u, x)) = Total(u) + x /\ Total(Append(s \o u, x)) = Total(s \o u) + x
    BY <2>1, TotalAppend
  <2>3. Total(u) \in Nat
    BY TotalNat
  <2>4. Total(s \o u) = Total(s) + Total(u)
    BY <1>2
  <2>5. Total(s \o Append(u, x)) = Total(s) + Total(Append(u, x))
    <3>1. Total(s \o Append(u, x)) = (Total(s) + Total(u)) + x
      BY <2>1, <2>2, <2>4
    <3>2. \A a, b \in Nat : (a + b) + x = a + (b + x)
      OBVIOUS
    <3> QED BY <1>0, <2>2, <2>3, <3>1, <3>2
  <2> QED BY <2>1, <2>5
<1> HIDE DEF G
<1>3. Seq(Nat) \subseteq G
  BY <1>1, <1>2, OnSequences
<1> QED
  BY <1>3 DEF G

\* No number is greater than the sum.
LEMMA TotalBounds ==
    ASSUME NEW s \in Seq(Nat)
    PROVE  \A k \in 1..Len(s) : s[k] <= Total(s)
<1> DEFINE G == {t \in Seq(Nat) : \A k \in 1..Len(t) : t[k] <= Total(t)}
<1>1. <<>> \in G
  <2>1. <<>> \in Seq(Nat) /\ Len(<<>>) = 0 /\ 1..0 = {}
    OBVIOUS
  <2> QED BY <2>1
<1>2. ASSUME NEW t \in Seq(Nat), NEW x \in Nat, t \in G PROVE Append(t, x) \in G
  <2>1. /\ Append(t, x) \in Seq(Nat) /\ Len(Append(t, x)) = Len(t) + 1 /\ Len(t) \in Nat
        /\ Append(t, x)[Len(t) + 1] = x /\ \A k \in 1..Len(t) : Append(t, x)[k] = t[k]
    BY AppendProperties, LenProperties
  <2>2. Total(Append(t, x)) = Total(t) + x /\ Total(t) \in Nat
    BY TotalAppend, TotalNat
  <2>3. \A k \in 1..Len(t) : t[k] <= Total(t) /\ t[k] \in Nat
    BY <1>2, ElementOfSeq
  <2>4. ASSUME NEW k \in 1..(Len(t) + 1) PROVE Append(t, x)[k] <= Total(t) + x
    <3>1. CASE k \in 1..Len(t)
      BY <2>1, <2>2, <2>3, <3>1
    <3>2. CASE k = Len(t) + 1
      BY <2>1, <2>2, <3>2
    <3> QED BY <2>1, <3>1, <3>2
  <2> QED BY <2>1, <2>2, <2>4
<1> HIDE DEF G
<1>3. Seq(Nat) \subseteq G
  BY <1>1, <1>2, OnSequences
<1> QED
  BY <1>3 DEF G

-----------------------------------------------------------------------------
\* Flattened sequences.  The function by which FlattenSeq puts the first n together.
Joins(f, q, n) ==
    \A i \in 1..n : f[i] = IF i = 1 THEN q[i] ELSE f[i - 1] \o q[i]

LEMMA SomeJoins ==
    ASSUME NEW q, NEW n \in Nat
    PROVE  \E f : Joins(f, q, n)
<1> DEFINE bad == {m \in Nat : ~\E f : Joins(f, q, m)}
<1>1. SUFFICES ASSUME bad # {} PROVE FALSE
  OBVIOUS
<1>2. PICK m \in bad : \A k \in bad : m <= k
  <2>1. bad \subseteq Nat
    OBVIOUS
  <2> HIDE DEF bad
  <2> QED BY <1>1, <2>1, LeastNat
<1>3. m \in Nat /\ ~\E f : Joins(f, q, m)
  OBVIOUS
<1>4. m # 0
  <2>1. Joins(<<>>, q, 0)
    BY DEF Joins
  <2> QED BY <1>3, <2>1
<1>5. PICK f : Joins(f, q, m - 1)
  <2>1. m - 1 \in Nat /\ ~(m <= m - 1)
    BY <1>3, <1>4
  <2> QED BY <1>2, <2>1
<1> HIDE DEF bad
<1> DEFINE g == [i \in 1..m |-> IF i < m THEN f[i] ELSE IF m = 1 THEN q[m] ELSE f[m - 1] \o q[m]]
<1>6. ASSUME NEW i \in 1..m
      PROVE  g[i] = IF i = 1 THEN q[i] ELSE g[i - 1] \o q[i]
  <2>1. CASE i < m
    <3>1. i \in 1..(m - 1)
      BY <2>1, <1>3
    <3>2. f[i] = IF i = 1 THEN q[i] ELSE f[i - 1] \o q[i]
      BY <1>5, <3>1 DEF Joins
    <3>3. g[i] = f[i] /\ (i # 1 => g[i - 1] = f[i - 1])
      BY <2>1, <1>3
    <3> HIDE DEF g
    <3> QED BY <3>2, <3>3
  <2>2. CASE i = m
    <3>1. g[i] = IF m = 1 THEN q[m] ELSE f[m - 1] \o q[m]
      BY <2>2, <1>3
    <3>2. m # 1 => g[m - 1] = f[m - 1]
      BY <1>3, <1>4
    <3> HIDE DEF g
    <3> QED BY <2>2, <3>1, <3>2
  <2> QED BY <1>3, <2>1, <2>2
<1>7. Joins(g, q, m)
  <2> HIDE DEF g
  <2> QED BY <1>6 DEF Joins
<1> QED
  BY <1>3, <1>7, Zenon

LEMMA SameJoins ==
    ASSUME NEW q, NEW n \in Nat, NEW f, NEW g, Joins(f, q, n), Joins(g, q, n)
    PROVE  \A i \in 1..n : f[i] = g[i]
<1> DEFINE bad == {m \in 1..n : f[m] # g[m]}
<1>1. SUFFICES ASSUME bad # {} PROVE FALSE
  OBVIOUS
<1>2. PICK m \in bad : \A k \in bad : m <= k
  <2>1. bad \subseteq Nat
    OBVIOUS
  <2> HIDE DEF bad
  <2> QED BY <1>1, <2>1, LeastNat
<1>3. m \in 1..n /\ f[m] # g[m]
  OBVIOUS
<1>4. m # 1 => m - 1 \in 1..n /\ ~(m <= m - 1)
  BY <1>3
<1>5. m # 1 => f[m - 1] = g[m - 1]
  BY <1>2, <1>4
<1> HIDE DEF bad
<1> QED
  BY <1>3, <1>5 DEF Joins

LEMMA FlattenIs ==
    ASSUME NEW q, Len(q) \in Nat, Len(q) # 0, NEW f, Joins(f, q, Len(q))
    PROVE  FlattenSeq(q) = f[Len(q)]
<1> DEFINE n == Len(q)
           Is(g) == g = [i \in 1..Len(q) |-> IF i = 1 THEN q[i] ELSE g[i - 1] \o q[i]]
           g == CHOOSE g : Is(g)
           h == [i \in 1..Len(q) |-> f[i]]
<1>1. FlattenSeq(q) = g[Len(q)]
  BY DEF FlattenSeq
<1>2. Is(h)
  <2>1. ASSUME NEW i \in 1..Len(q)
        PROVE  h[i] = IF i = 1 THEN q[i] ELSE h[i - 1] \o q[i]
    <3>1. f[i] = IF i = 1 THEN q[i] ELSE f[i - 1] \o q[i]
      BY DEF Joins
    <3>2. h[i] = f[i] /\ (i # 1 => h[i - 1] = f[i - 1])
      OBVIOUS
    <3> HIDE DEF h
    <3> QED BY <3>1, <3>2
  <2>2. h = [i \in 1..Len(q) |-> h[i]]
    BY Zenon
  <2> HIDE DEF h
  <2> QED BY <2>1, <2>2
<1>3. Is(g)
  BY <1>2, Zenon
<1> HIDE DEF g, h
<1>4. Joins(g, q, Len(q))
  BY <1>3 DEF Joins
<1>5. \A i \in 1..Len(q) : g[i] = f[i]
  BY <1>4, SameJoins
<1>6. Len(q) \in 1..Len(q)
  OBVIOUS
<1> QED
  BY <1>1, <1>5, <1>6

LEMMA FlattenNone == FlattenSeq(<<>>) = <<>>
BY DEF FlattenSeq

LEMMA FlattenAppend ==
    ASSUME NEW S, NEW q \in Seq(Seq(S)), NEW x \in Seq(S)
    PROVE  FlattenSeq(Append(q, x)) = FlattenSeq(q) \o x
<1> DEFINE n == Len(q)
           u == Append(q, x)
<1>1. n \in Nat /\ Len(u) = n + 1 /\ u[n + 1] = x /\ \A k \in 1..n : u[k] = q[k]
  BY AppendProperties, LenProperties
<1> HIDE DEF u
<1>2. PICK f : Joins(f, u, n + 1)
  <2>1. n + 1 \in Nat
    BY <1>1
  <2> HIDE DEF n
  <2> QED BY <2>1, SomeJoins
<1>3. FlattenSeq(u) = f[n + 1]
  <2>1. Len(u) \in Nat /\ Len(u) # 0
    BY <1>1
  <2> HIDE DEF n
  <2> QED BY <1>1, <1>2, <2>1, FlattenIs
<1>4. CASE n = 0
  <2>1. q = <<>>
    BY <1>4, EmptySeq
  <2>2. f[1] = x
    <3>1. 1 \in 1..(n + 1) /\ n + 1 = 1
      BY <1>4
    <3>2. f[1] = u[1]
      BY <1>2, <3>1 DEF Joins
    <3> HIDE DEF n
    <3> QED BY <1>1, <3>1, <3>2
  <2>3. FlattenSeq(q) \o x = x
    BY <2>1, FlattenNone, ConcatEmptySeq
  <2>4. n + 1 = 1
    BY <1>4
  <2> HIDE DEF n
  <2> QED BY <1>3, <2>2, <2>3, <2>4 DEF u
<1>5. CASE n # 0
  <2>1. Joins(f, q, n)
    <3>1. ASSUME NEW i \in 1..n
          PROVE  f[i] = IF i = 1 THEN q[i] ELSE f[i - 1] \o q[i]
      <4>1. i \in 1..(n + 1)
        BY <1>1
      <4>2. f[i] = IF i = 1 THEN u[i] ELSE f[i - 1] \o u[i]
        BY <1>2, <4>1 DEF Joins
      <4> HIDE DEF n
      <4> QED BY <1>1, <4>2
    <3> HIDE DEF n
    <3> QED BY <3>1 DEF Joins
  <2>2. FlattenSeq(q) = f[n]
    BY <1>1, <1>5, <2>1, FlattenIs
  <2>3. f[n + 1] = f[n] \o x
    <3>1. n + 1 \in 1..(n + 1) /\ n + 1 # 1 /\ (n + 1) - 1 = n
      BY <1>1, <1>5
    <3>2. f[n + 1] = f[(n + 1) - 1] \o u[n + 1]
      BY <1>2, <3>1 DEF Joins
    <3> HIDE DEF n
    <3> QED BY <1>1, <3>1, <3>2
  <2> HIDE DEF n
  <2> QED BY <1>3, <2>2, <2>3 DEF u
<1> QED
  BY <1>4, <1>5

LEMMA FlattenType ==
    ASSUME NEW S, NEW q \in Seq(Seq(S))
    PROVE  FlattenSeq(q) \in Seq(S)
<1> DEFINE G == {r \in Seq(Seq(S)) : FlattenSeq(r) \in Seq(S)}
<1>1. <<>> \in G
  BY FlattenNone, EmptySeq
<1>2. ASSUME NEW r \in Seq(Seq(S)), NEW x \in Seq(S), r \in G PROVE Append(r, x) \in G
  <2>1. Append(r, x) \in Seq(Seq(S))
    BY AppendProperties
  <2>2. FlattenSeq(Append(r, x)) = FlattenSeq(r) \o x
    BY FlattenAppend
  <2>3. FlattenSeq(r) \in Seq(S)
    BY <1>2
  <2> QED BY <2>1, <2>2, <2>3, ConcatProperties
<1> HIDE DEF G
<1>3. Seq(Seq(S)) \subseteq G
  BY <1>1, <1>2, OnSequences
<1> QED
  BY <1>3 DEF G

\* One sequence after another, as an operator of two arguments, and the theorem of
\* the library about three of them.
Cat(a, b) == a \o b

LEMMA Regrouped ==
    ASSUME NEW S, NEW a \in Seq(S), NEW b \in Seq(S), NEW c \in Seq(S)
    PROVE  Cat(Cat(a, b), c) = Cat(a, Cat(b, c))
<1>1. (a \o b) \o c = a \o (b \o c)
  BY ConcatAssociative
<1> QED
  BY <1>1 DEF Cat

LEMMA FlattenConcat ==
    ASSUME NEW S, NEW q \in Seq(Seq(S)), NEW r \in Seq(Seq(S))
    PROVE  FlattenSeq(q \o r) = FlattenSeq(q) \o FlattenSeq(r)
<1> DEFINE G == {u \in Seq(Seq(S)) : FlattenSeq(q \o u) = FlattenSeq(q) \o FlattenSeq(u)}
<1>0. FlattenSeq(q) \in Seq(S)
  BY FlattenType
<1>1. <<>> \in G
  BY <1>0, FlattenNone, EmptySeq, ConcatEmptySeq
<1>2. ASSUME NEW u \in Seq(Seq(S)), NEW x \in Seq(S), u \in G PROVE Append(u, x) \in G
  <2>1. Append(u, x) \in Seq(Seq(S)) /\ q \o u \in Seq(Seq(S)) /\ FlattenSeq(u) \in Seq(S)
    BY AppendProperties, ConcatProperties, FlattenType
  <2>2. q \o Append(u, x) = Append(q \o u, x)
    <3>1. <<x>> \in Seq(Seq(S))
      OBVIOUS
    <3>2. Append(u, x) = u \o <<x>> /\ Append(q \o u, x) = (q \o u) \o <<x>>
      BY <2>1, AppendIsConcat
    <3> QED BY SMTT(30), <3>1, <3>2, ConcatAssociative
  <2>3. /\ FlattenSeq(Append(u, x)) = FlattenSeq(u) \o x
        /\ FlattenSeq(Append(q \o u, x)) = FlattenSeq(q \o u) \o x
    BY <2>1, FlattenAppend
  <2>4. FlattenSeq(q \o u) = FlattenSeq(q) \o FlattenSeq(u)
    BY <1>2
  <2>5. (FlattenSeq(q) \o FlattenSeq(u)) \o x = FlattenSeq(q) \o (FlattenSeq(u) \o x)
    <3> DEFINE a == FlattenSeq(q)
               b == FlattenSeq(u)
    <3>1. a \in Seq(S) /\ b \in Seq(S) /\ x \in Seq(S)
      BY <1>0, <1>2, <2>1
    <3> HIDE DEF a, b
    <3>2. Cat(Cat(a, b), x) = Cat(a, Cat(b, x))
      BY <3>1, Regrouped
    <3> QED BY <3>2 DEF a, b, Cat
  <2> QED BY <2>1, <2>2, <2>3, <2>4, <2>5
<1> HIDE DEF G
<1>3. Seq(Seq(S)) \subseteq G
  BY <1>1, <1>2, OnSequences
<1> QED
  BY <1>3 DEF G

\* The lengths of sequences, one by one.
Lengths(q) == [k \in DOMAIN q |-> Len(q[k])]

LEMMA LengthsType ==
    ASSUME NEW S, NEW q \in Seq(Seq(S))
    PROVE  Lengths(q) \in Seq(Nat)
<1>1. \A n \in Nat : \A g \in [1..n -> Nat] : g \in Seq(Nat)
  OBVIOUS
<1>2. Len(q) \in Nat /\ DOMAIN q = 1..Len(q)
  BY LenProperties
<1>3. \A k \in 1..Len(q) : Len(q[k]) \in Nat
  BY ElementOfSeq, LenProperties
<1>4. Lengths(q) \in [1..Len(q) -> Nat]
  BY <1>2, <1>3 DEF Lengths
<1> QED
  BY <1>1, <1>2, <1>4

LEMMA LengthsAppend ==
    ASSUME NEW S, NEW q \in Seq(Seq(S)), NEW x \in Seq(S)
    PROVE  Lengths(Append(q, x)) = Append(Lengths(q), Len(x))
<1> DEFINE a == Lengths(Append(q, x))
           b == Append(Lengths(q), Len(x))
<1>1. /\ Append(q, x) \in Seq(Seq(S)) /\ Len(Append(q, x)) = Len(q) + 1 /\ Len(q) \in Nat
      /\ \A k \in 1..Len(q) : Append(q, x)[k] = q[k]
      /\ Append(q, x)[Len(q) + 1] = x
  BY AppendProperties, LenProperties
<1>2. DOMAIN q = 1..Len(q) /\ DOMAIN Append(q, x) = 1..(Len(q) + 1)
  BY <1>1, LenProperties
<1>3. a \in Seq(Nat) /\ Lengths(q) \in Seq(Nat) /\ Len(x) \in Nat
  BY <1>1, LengthsType, LenProperties
<1>4. DOMAIN a = 1..(Len(q) + 1) /\ DOMAIN Lengths(q) = 1..Len(q)
  BY <1>2 DEF Lengths
<1>5. Len(a) = Len(q) + 1 /\ Len(Lengths(q)) = Len(q)
  <2>1. \A m, n \in Nat : 1..m = 1..n => m = n
    OBVIOUS
  <2>2. 1..Len(a) = 1..(Len(q) + 1) /\ 1..Len(Lengths(q)) = 1..Len(q)
    BY <1>3, <1>4, LenProperties, Zenon
  <2>3. Len(a) \in Nat /\ Len(Lengths(q)) \in Nat /\ Len(q) + 1 \in Nat
    BY <1>1, <1>3, LenProperties
  <2> HIDE DEF a
  <2> QED BY <1>1, <2>1, <2>2, <2>3
<1>6. /\ b \in Seq(Nat) /\ Len(b) = Len(q) + 1 /\ b[Len(q) + 1] = Len(x)
      /\ \A k \in 1..Len(q) : b[k] = Lengths(q)[k]
  BY <1>3, <1>5, AppendProperties
<1>7. \A k \in 1..(Len(q) + 1) : a[k] = Len(Append(q, x)[k])
  BY <1>2 DEF Lengths
<1>8. \A k \in 1..Len(q) : Lengths(q)[k] = Len(q[k])
  BY <1>2 DEF Lengths
<1> HIDE DEF a, b
<1>9. \A k \in 1..(Len(q) + 1) : a[k] = b[k]
  <2>1. \A k \in 1..(Len(q) + 1) : k \in 1..Len(q) \/ k = Len(q) + 1
    BY <1>1
  <2> QED BY <1>1, <1>6, <1>7, <1>8, <2>1
<1>10. a = b
  BY <1>3, <1>5, <1>6, <1>9, SeqEqual
<1> QED
  BY <1>10 DEF a, b

LEMMA FlattenLength ==
    ASSUME NEW S, NEW q \in Seq(Seq(S))
    PROVE  Len(FlattenSeq(q)) = Total(Lengths(q))
<1> DEFINE G == {r \in Seq(Seq(S)) : Len(FlattenSeq(r)) = Total(Lengths(r))}
<1>1. <<>> \in G
  <2>1. Lengths(<<>>) = <<>>
    BY DEF Lengths
  <2> QED BY <2>1, FlattenNone, TotalNone, EmptySeq
<1>2. ASSUME NEW r \in Seq(Seq(S)), NEW x \in Seq(S), r \in G PROVE Append(r, x) \in G
  <2>1. Append(r, x) \in Seq(Seq(S)) /\ FlattenSeq(r) \in Seq(S) /\ Lengths(r) \in Seq(Nat)
        /\ Len(x) \in Nat
    BY AppendProperties, FlattenType, LengthsType, LenProperties
  <2>2. FlattenSeq(Append(r, x)) = FlattenSeq(r) \o x
    BY FlattenAppend
  <2>3. Len(FlattenSeq(r) \o x) = Len(FlattenSeq(r)) + Len(x)
    BY <2>1, ConcatProperties
  <2>4. Total(Lengths(Append(r, x))) = Total(Lengths(r)) + Len(x)
    BY <2>1, LengthsAppend, TotalAppend
  <2>5. Len(FlattenSeq(r)) = Total(Lengths(r))
    BY <1>2
  <2> QED BY <2>1, <2>2, <2>3, <2>4, <2>5
<1> HIDE DEF G
<1>3. Seq(Seq(S)) \subseteq G
  BY <1>1, <1>2, OnSequences
<1> QED
  BY <1>3 DEF G

-----------------------------------------------------------------------------
\* The walk of a cursor that goes forward.  A function by which Walk goes, for the
\* places from which it takes no more than m to the end.
Lists(f, item, next, to, m) ==
    \A c \in Nat : c + m >= to => f[c] = IF c < to THEN <<item[c]>> \o f[next[c]] ELSE <<>>

EndsAt(f, next, to, m) ==
    \A c \in Nat : c + m >= to => f[c] = IF c < to THEN f[next[c]] ELSE c

Forward(next) == \A c \in Nat : next[c] \in Nat /\ next[c] > c

LEMMA SomeLists ==
    ASSUME NEW item, NEW next, Forward(next), NEW to \in Int, NEW n \in Nat
    PROVE  \E f : f = [c \in Nat |-> f[c]] /\ Lists(f, item, next, to, n)
<1> DEFINE P(f, m) == f = [c \in Nat |-> f[c]] /\ Lists(f, item, next, to, m)
           bad == {m \in Nat : ~\E f : P(f, m)}
<1>1. SUFFICES ASSUME bad # {} PROVE FALSE
  <2>1. bad = {} => \E f : P(f, n)
    <3> HIDE DEF P
    <3> QED OBVIOUS
  <2> QED BY <2>1, Zenon
<1>2. PICK m \in bad : \A k \in bad : m <= k
  <2>1. bad \subseteq Nat
    OBVIOUS
  <2> HIDE DEF bad
  <2> QED BY <1>1, <2>1, LeastNat
<1>3. m \in Nat /\ ~\E f : P(f, m)
  <2> HIDE DEF P
  <2> QED OBVIOUS
<1>4. m # 0
  <2> DEFINE f == [c \in Nat |-> <<>>]
  <2>1. Lists(f, item, next, to, 0)
    BY DEF Lists
  <2>2. f = [c \in Nat |-> f[c]]
    OBVIOUS
  <2> QED BY <1>3, <2>1, <2>2, Zenon
<1>5. PICK f : P(f, m - 1)
  <2>1. m - 1 \in Nat /\ ~(m <= m - 1)
    BY <1>3, <1>4
  <2> HIDE DEF P
  <2> QED BY <1>2, <2>1
<1> HIDE DEF bad
<1> DEFINE g == [c \in Nat |-> IF c + m = to /\ c < to THEN <<item[c]>> \o f[next[c]] ELSE f[c]]
<1>6. ASSUME NEW c \in Nat, c + m >= to
      PROVE  g[c] = IF c < to THEN <<item[c]>> \o g[next[c]] ELSE <<>>
  <2>0. g[c] = IF c + m = to /\ c < to THEN <<item[c]>> \o f[next[c]] ELSE f[c]
    OBVIOUS
  <2>1. next[c] \in Nat /\ next[c] + m > to
    BY <1>3, <1>6 DEF Forward
  <2>2. g[next[c]] = f[next[c]]
    BY <2>1
  <2> HIDE DEF g
  <2>3. CASE c + m = to /\ c < to
    BY <2>0, <2>2, <2>3
  <2>4. CASE c + m = to /\ ~(c < to)
    <3>1. m = 0
      BY <1>3, <2>4
    <3> QED BY <3>1, <1>4
  <2>5. CASE c + m # to
    <3>1. c + (m - 1) >= to
      BY <1>3, <1>6, <2>5
    <3>2. f[c] = IF c < to THEN <<item[c]>> \o f[next[c]] ELSE <<>>
      BY <1>5, <3>1 DEF Lists
    <3> QED BY <2>0, <2>2, <2>5, <3>2
  <2> QED BY <2>3, <2>4, <2>5
<1>7. g = [c \in Nat |-> g[c]]
  OBVIOUS
<1> HIDE DEF g
<1>8. Lists(g, item, next, to, m)
  BY <1>6 DEF Lists
<1> QED
  BY <1>3, <1>7, <1>8, Zenon

LEMMA SomeEnds ==
    ASSUME NEW next, Forward(next), NEW to \in Int, NEW n \in Nat
    PROVE  \E f : f = [c \in Nat |-> f[c]] /\ EndsAt(f, next, to, n)
<1> DEFINE P(f, m) == f = [c \in Nat |-> f[c]] /\ EndsAt(f, next, to, m)
           bad == {m \in Nat : ~\E f : P(f, m)}
<1>1. SUFFICES ASSUME bad # {} PROVE FALSE
  <2>1. bad = {} => \E f : P(f, n)
    <3> HIDE DEF P
    <3> QED OBVIOUS
  <2> QED BY <2>1, Zenon
<1>2. PICK m \in bad : \A k \in bad : m <= k
  <2>1. bad \subseteq Nat
    OBVIOUS
  <2> HIDE DEF bad
  <2> QED BY <1>1, <2>1, LeastNat
<1>3. m \in Nat /\ ~\E f : P(f, m)
  <2> HIDE DEF P
  <2> QED OBVIOUS
<1>4. m # 0
  <2> DEFINE f == [c \in Nat |-> c]
  <2>1. EndsAt(f, next, to, 0)
    BY DEF EndsAt
  <2>2. f = [c \in Nat |-> f[c]]
    OBVIOUS
  <2> QED BY <1>3, <2>1, <2>2, Zenon
<1>5. PICK f : P(f, m - 1)
  <2>1. m - 1 \in Nat /\ ~(m <= m - 1)
    BY <1>3, <1>4
  <2> HIDE DEF P
  <2> QED BY <1>2, <2>1
<1> HIDE DEF bad
<1> DEFINE g == [c \in Nat |-> IF c + m = to /\ c < to THEN f[next[c]] ELSE f[c]]
<1>6. ASSUME NEW c \in Nat, c + m >= to
      PROVE  g[c] = IF c < to THEN g[next[c]] ELSE c
  <2>0. g[c] = IF c + m = to /\ c < to THEN f[next[c]] ELSE f[c]
    OBVIOUS
  <2>1. next[c] \in Nat /\ next[c] + m > to
    BY <1>3, <1>6 DEF Forward
  <2>2. g[next[c]] = f[next[c]]
    BY <2>1
  <2> HIDE DEF g
  <2>3. CASE c + m = to /\ c < to
    BY <2>0, <2>2, <2>3
  <2>4. CASE c + m = to /\ ~(c < to)
    <3>1. m = 0
      BY <1>3, <2>4
    <3> QED BY <3>1, <1>4
  <2>5. CASE c + m # to
    <3>1. c + (m - 1) >= to
      BY <1>3, <1>6, <2>5
    <3>2. f[c] = IF c < to THEN f[next[c]] ELSE c
      BY <1>5, <3>1 DEF EndsAt
    <3> QED BY <2>0, <2>2, <2>5, <3>2
  <2> QED BY <2>3, <2>4, <2>5
<1>7. g = [c \in Nat |-> g[c]]
  OBVIOUS
<1> HIDE DEF g
<1>8. EndsAt(g, next, to, m)
  BY <1>6 DEF EndsAt
<1> QED
  BY <1>3, <1>7, <1>8, Zenon

\* A sequence with one more element before it.
Before(x, s) == <<x>> \o s

LEMMA BeforeFacts ==
    ASSUME NEW S, NEW x \in S, NEW s \in Seq(S)
    PROVE  /\ Before(x, s) \in Seq(S) /\ Len(Before(x, s)) = Len(s) + 1 /\ Len(s) \in Nat
           /\ Before(x, s)[1] = x /\ \A k \in 1..Len(s) : Before(x, s)[k + 1] = s[k]
<1>1. <<x>> \in Seq(S) /\ Len(<<x>>) = 1 /\ <<x>>[1] = x
  OBVIOUS
<1>2. Len(s) \in Nat
  BY LenProperties
<1>3. /\ Before(x, s) \in Seq(S) /\ Len(Before(x, s)) = 1 + Len(s)
      /\ \A i \in 1..(1 + Len(s)) : Before(x, s)[i] = IF i <= 1 THEN <<x>>[i] ELSE s[i - 1]
  BY <1>1, ConcatProperties DEF Before
<1>4. 1 \in 1..(1 + Len(s)) /\ \A k \in 1..Len(s) : k + 1 \in 1..(1 + Len(s)) /\ ~(k + 1 <= 1) /\ (k + 1) - 1 = k
  BY <1>2
<1>5. Before(x, s)[1] = x
  BY <1>1, <1>3, <1>4
<1>6. \A k \in 1..Len(s) : Before(x, s)[k + 1] = s[k]
  BY <1>3, <1>4
<1> QED
  BY <1>2, <1>3, <1>5, <1>6

\* One step of the walk.
LEMMA WalkStep ==
    ASSUME NEW item, NEW next, Forward(next), NEW to \in Int, NEW c \in Nat
    PROVE  /\ c < to => /\ Walk(item, next, c, to).list
                             = Before(item[c], Walk(item, next, next[c], to).list)
                       /\ Walk(item, next, c, to).end = Walk(item, next, next[c], to).end
           /\ ~(c < to) => Walk(item, next, c, to).list = <<>> /\ Walk(item, next, c, to).end = c
<1> DEFINE I(f) == f = [d \in Nat |-> IF d < to THEN <<item[d]>> \o f[next[d]] ELSE <<>>]
           E(f) == f = [d \in Nat |-> IF d < to THEN f[next[d]] ELSE d]
           items == CHOOSE f : I(f)
           end == CHOOSE f : E(f)
           m == IF to \in Nat THEN to ELSE 0
<1>1. m \in Nat /\ \A d \in Nat : d + m >= to
  OBVIOUS
<1> HIDE DEF m
<1>2. PICK f : f = [d \in Nat |-> f[d]] /\ Lists(f, item, next, to, m)
  BY <1>1, SomeLists
<1>3. PICK g : g = [d \in Nat |-> g[d]] /\ EndsAt(g, next, to, m)
  BY <1>1, SomeEnds
<1>4. I(f) /\ E(g)
  <2>1. \A d \in Nat : f[d] = IF d < to THEN <<item[d]>> \o f[next[d]] ELSE <<>>
    BY <1>1, <1>2 DEF Lists
  <2>2. \A d \in Nat : g[d] = IF d < to THEN g[next[d]] ELSE d
    BY <1>1, <1>3 DEF EndsAt
  <2>3. I(f)
    BY <1>2, <2>1
  <2>4. E(g)
    BY <1>3, <2>2
  <2> QED BY <2>3, <2>4
<1>5. I(items) /\ E(end)
  <2> HIDE DEF I, E
  <2>1. I(items)
    BY <1>4, Zenon
  <2>2. E(end)
    BY <1>4, Zenon
  <2> QED BY <2>1, <2>2
<1>6. \A d \in Nat : Walk(item, next, d, to) = [list |-> items[d], end |-> end[d]]
  BY DEF Walk
<1> HIDE DEF items, end
<1>7. \A d \in Nat : /\ items[d] = IF d < to THEN <<item[d]>> \o items[next[d]] ELSE <<>>
                     /\ end[d] = IF d < to THEN end[next[d]] ELSE d
  BY <1>5
<1>8. next[c] \in Nat
  BY DEF Forward
<1>9. Walk(item, next, c, to) = [list |-> items[c], end |-> end[c]]
  BY <1>6
<1>10. Walk(item, next, next[c], to) = [list |-> items[next[c]], end |-> end[next[c]]]
  BY <1>6, <1>8
<1>11. /\ items[c] = IF c < to THEN <<item[c]>> \o items[next[c]] ELSE <<>>
       /\ end[c] = IF c < to THEN end[next[c]] ELSE c
  BY <1>7
<1> HIDE DEF I, E
<1>12. CASE c < to
  BY <1>9, <1>10, <1>11, <1>12 DEF Before
<1>13. CASE ~(c < to)
  BY <1>9, <1>10, <1>11, <1>13
<1> QED
  BY <1>12, <1>13

\* The walk finds a sequence of items, and ends at the end or behind it.
LEMMA WalkType ==
    ASSUME NEW S, NEW item, \A c \in Nat : item[c] \in S,
           NEW next, Forward(next), NEW to \in Int, NEW c \in Nat
    PROVE  LET w == Walk(item, next, c, to)
           IN  w.list \in Seq(S) /\ w.end \in Nat /\ w.end >= c /\ w.end >= to
<1> DEFINE W(d) == Walk(item, next, d, to)
           Good(d) == W(d).list \in Seq(S) /\ W(d).end \in Nat /\ W(d).end >= d /\ W(d).end >= to
           bad == {m \in Nat : \E d \in Nat : d + m >= to /\ ~Good(d)}
<1> HIDE DEF W
<1>1. \A d \in Nat : /\ next[d] \in Nat /\ next[d] > d
                     /\ d < to => W(d).list = Before(item[d], W(next[d]).list) /\ W(d).end = W(next[d]).end
                     /\ ~(d < to) => W(d).list = <<>> /\ W(d).end = d
  <2>1. ASSUME NEW d \in Nat
        PROVE  /\ d < to => W(d).list = Before(item[d], W(next[d]).list) /\ W(d).end = W(next[d]).end
               /\ ~(d < to) => W(d).list = <<>> /\ W(d).end = d
    BY WalkStep DEF W
  <2> QED BY <2>1 DEF Forward
<1>2. SUFFICES ASSUME bad # {} PROVE FALSE
  <2> DEFINE m == IF to \in Nat THEN to ELSE 0
  <2>1. m \in Nat /\ c + m >= to
    OBVIOUS
  <2> HIDE DEF m, Good
  <2>2. bad = {} => Good(c)
    BY <2>1
  <2> QED BY <2>2 DEF Good, W
<1>3. PICK m \in bad : \A k \in bad : m <= k
  <2>1. bad \subseteq Nat
    OBVIOUS
  <2> HIDE DEF bad
  <2> QED BY <1>2, <2>1, LeastNat
<1>4. m \in Nat /\ \E d \in Nat : d + m >= to /\ ~Good(d)
  <2> HIDE DEF Good
  <2> QED OBVIOUS
<1>5. PICK d \in Nat : d + m >= to /\ ~Good(d)
  <2> HIDE DEF Good
  <2> QED BY <1>4
<1>6. CASE ~(d < to)
  <2>1. W(d).list = <<>> /\ W(d).end = d
    BY <1>1, <1>6
  <2>2. Good(d)
    BY <1>6, <2>1, EmptySeq
  <2> QED BY <1>5, <2>2
<1>7. CASE d < to
  <2>1. m - 1 \in Nat /\ ~(m <= m - 1) /\ next[d] \in Nat /\ next[d] + (m - 1) >= to
    <3> HIDE DEF Good, bad
    <3>1. m # 0
      BY <1>4, <1>5, <1>7
    <3>3. next[d] \in Nat /\ next[d] > d
      BY <1>1
    <3>2. \A k, x \in Nat : k # 0 /\ x > d /\ d + k >= to
                           => k - 1 \in Nat /\ ~(k <= k - 1) /\ x + (k - 1) >= to
      OBVIOUS
    <3> QED BY <1>4, <1>5, <3>1, <3>2, <3>3
  <2>2. Good(next[d])
    <3> HIDE DEF Good
    <3>1. m - 1 \notin bad
      BY <1>3, <2>1
    <3> QED BY <2>1, <3>1
  <2>3. W(d).list = Before(item[d], W(next[d]).list) /\ W(d).end = W(next[d]).end /\ next[d] > d
    BY <1>1, <1>7
  <2>5. W(d).list \in Seq(S)
    BY <2>2, <2>3, BeforeFacts
  <2>6. Good(d)
    BY <2>1, <2>2, <2>3, <2>5
  <2> HIDE DEF Good
  <2> QED BY <1>5, <2>6
<1> QED
  BY <1>6, <1>7

-----------------------------------------------------------------------------
\* A flattened sequence holds each of its parts; the k-th ends at Off(q, k).
Off(q, k) == Len(FlattenSeq(SubSeq(q, 1, k)))

LEMMA OffEnds ==
    ASSUME NEW S, NEW q \in Seq(Seq(S))
    PROVE  Off(q, 0) = 0 /\ Off(q, Len(q)) = Len(FlattenSeq(q))
<1>1. Off(q, 0) = 0
  <2>1. SubSeq(q, 1, 0) = <<>>
    BY SubSeqEmpty
  <2> QED BY <2>1, FlattenNone, EmptySeq DEF Off
<1>2. Off(q, Len(q)) = Len(FlattenSeq(q))
  BY SubSeqFull DEF Off
<1> QED
  BY <1>1, <1>2

\* The first k parts of a sequence, k - 1 of them, and the others.
LEMMA PartsOf ==
    ASSUME NEW S, NEW q \in Seq(S), NEW k \in 1..Len(q)
    PROVE  /\ SubSeq(q, 1, k - 1) \in Seq(S) /\ SubSeq(q, 1, k) \in Seq(S)
           /\ SubSeq(q, k + 1, Len(q)) \in Seq(S)
           /\ SubSeq(q, 1, k) = Append(SubSeq(q, 1, k - 1), q[k])
           /\ q = SubSeq(q, 1, k) \o SubSeq(q, k + 1, Len(q))
<1> DEFINE n == Len(q)
           a == SubSeq(q, 1, k - 1)
           b == SubSeq(q, 1, k)
           c == SubSeq(q, k + 1, n)
<1>1. n \in Nat /\ k \in 1..n /\ \A i \in 1..n : q[i] \in S
  BY LenProperties, ElementOfSeq
<1> HIDE DEF n
<1>2. a \in Seq(S) /\ Len(a) = k - 1 /\ \A i \in 1..(k - 1) : a[i] = q[i]
  <2>1. \A i \in 1..(k - 1) : q[i] \in S
    BY <1>1
  <2>2. /\ a \in Seq(S) /\ Len(a) = IF 1 <= k - 1 THEN (k - 1) - 1 + 1 ELSE 0
        /\ \A i \in 1..((k - 1) - 1 + 1) : a[i] = q[1 + i - 1]
    BY <1>1, <2>1, SubSeqProperties
  <2> HIDE DEF a
  <2>3. Len(a) = k - 1
    BY <1>1, <2>2
  <2>4. \A i \in 1..(k - 1) : i \in 1..((k - 1) - 1 + 1) /\ 1 + i - 1 = i
    BY <1>1
  <2> QED BY <2>2, <2>3, <2>4
<1>3. b \in Seq(S) /\ Len(b) = k /\ \A i \in 1..k : b[i] = q[i]
  <2>1. \A i \in 1..k : q[i] \in S
    BY <1>1
  <2>2. /\ b \in Seq(S) /\ Len(b) = IF 1 <= k THEN k - 1 + 1 ELSE 0
        /\ \A i \in 1..(k - 1 + 1) : b[i] = q[1 + i - 1]
    BY <1>1, <2>1, SubSeqProperties
  <2> HIDE DEF b
  <2>3. Len(b) = k
    BY <1>1, <2>2
  <2>4. \A i \in 1..k : i \in 1..(k - 1 + 1) /\ 1 + i - 1 = i
    BY <1>1
  <2> QED BY <2>2, <2>3, <2>4
<1>4. c \in Seq(S)
  <2>1. \A i \in (k + 1)..n : q[i] \in S
    BY <1>1
  <2> QED BY <1>1, <2>1, SubSeqProperties
<1>5. q = b \o c
  <2>1. 1 \in 1..(n + 1) /\ k \in (1 - 1)..n /\ n \in k..n
    BY <1>1
  <2>2. SubSeq(q, 1, k) \o SubSeq(q, k + 1, n) = SubSeq(q, 1, n)
    BY <2>1, ConcatAdjacentSubSeq DEF n
  <2>3. SubSeq(q, 1, n) = q
    BY SubSeqFull DEF n
  <2> QED BY <2>2, <2>3
<1> HIDE DEF a, b, c
<1>6. b = Append(a, q[k])
  <2>1. q[k] \in S /\ k - 1 \in Nat
    BY <1>1
  <2> DEFINE d == Append(a, q[k])
  <2>2. /\ d \in Seq(S) /\ Len(d) = (k - 1) + 1 /\ \A i \in 1..(k - 1) : d[i] = a[i]
        /\ d[(k - 1) + 1] = q[k]
    BY <1>2, <2>1, AppendProperties
  <2> HIDE DEF d
  <2>3. Len(d) = k /\ d[k] = q[k]
    BY <1>1, <2>2
  <2>4. ASSUME NEW i \in 1..k PROVE d[i] = b[i]
    <3>1. i = k \/ i \in 1..(k - 1)
      BY <1>1
    <3> QED BY <1>2, <1>3, <2>2, <2>3, <3>1
  <2>5. b = d
    BY <1>3, <2>2, <2>3, <2>4, SeqEqual
  <2> QED BY <2>5 DEF d
<1> QED
  BY <1>2, <1>3, <1>4, <1>5, <1>6 DEF a, b, c, n

LEMMA FlattenParts ==
    ASSUME NEW S, NEW q \in Seq(Seq(S)), NEW k \in 1..Len(q)
    PROVE  /\ Off(q, k - 1) \in Nat /\ Off(q, k) = Off(q, k - 1) + Len(q[k])
           /\ Off(q, k) <= Len(FlattenSeq(q))
           /\ \A j \in 1..Len(q[k]) : FlattenSeq(q)[Off(q, k - 1) + j] = q[k][j]
<1> DEFINE x == q[k]
           a == FlattenSeq(SubSeq(q, 1, k - 1))
           b == FlattenSeq(SubSeq(q, 1, k))
           c == FlattenSeq(SubSeq(q, k + 1, Len(q)))
           f == FlattenSeq(q)
<1>1. x \in Seq(S) /\ f \in Seq(S)
  BY ElementOfSeq, FlattenType
<1> DEFINE r == SubSeq(q, 1, k - 1)
           s == SubSeq(q, 1, k)
           t == SubSeq(q, k + 1, Len(q))
<1>0. /\ r \in Seq(Seq(S)) /\ s \in Seq(Seq(S)) /\ t \in Seq(Seq(S))
      /\ s = Append(r, x) /\ q = s \o t
  BY PartsOf
<1> HIDE DEF r, s, t
<1>2. a \in Seq(S) /\ b \in Seq(S) /\ c \in Seq(S)
  BY <1>0, FlattenType DEF r, s, t
<1>3. b = a \o x
  <2>1. FlattenSeq(Append(r, x)) = FlattenSeq(r) \o x
    BY <1>0, <1>1, FlattenAppend
  <2> QED BY <1>0, <2>1 DEF r, s
<1>4. f = b \o c
  <2>1. FlattenSeq(s \o t) = FlattenSeq(s) \o FlattenSeq(t)
    BY <1>0, FlattenConcat
  <2> QED BY <1>0, <2>1 DEF s, t
<1>5. Off(q, k - 1) = Len(a) /\ Off(q, k) = Len(b)
  BY DEF Off
<1> HIDE DEF x, a, b, c, f
<1>6. Len(a) \in Nat /\ Len(x) \in Nat /\ Len(c) \in Nat
  BY <1>1, <1>2, LenProperties
<1>7. /\ Len(b) = Len(a) + Len(x)
      /\ \A i \in 1..(Len(a) + Len(x)) : b[i] = IF i <= Len(a) THEN a[i] ELSE x[i - Len(a)]
  BY <1>1, <1>2, <1>3, ConcatProperties
<1>8. /\ Len(f) = Len(b) + Len(c)
      /\ \A i \in 1..(Len(b) + Len(c)) : f[i] = IF i <= Len(b) THEN b[i] ELSE c[i - Len(b)]
  BY <1>2, <1>4, ConcatProperties
<1>9. ASSUME NEW j \in 1..Len(x) PROVE f[Len(a) + j] = x[j]
  <2>1. /\ Len(a) + j \in 1..(Len(a) + Len(x)) /\ ~(Len(a) + j <= Len(a))
        /\ (Len(a) + j) - Len(a) = j
    BY <1>6
  <2>2. b[Len(a) + j] = x[j]
    BY <1>7, <2>1
  <2>3. Len(a) + j \in 1..(Len(b) + Len(c)) /\ Len(a) + j <= Len(b)
    BY <1>6, <1>7
  <2> QED BY <1>8, <2>2, <2>3
<1>10. Len(b) <= Len(f)
  BY <1>6, <1>7, <1>8
<1> QED
  BY <1>5, <1>6, <1>7, <1>9, <1>10 DEF x, f

\* The places where a cursor stops on its way, and what it gathers there.
Stops(next, to, n, at) ==
    /\ \A i \in 0..n : at[i] \in Nat
    /\ ~(at[n] < to)
    /\ \A i \in 1..n : at[i - 1] < to /\ next[at[i - 1]] = at[i]

Gathers(w, item, n, at) ==
    /\ Len(w.list) = n /\ w.end = at[n]
    /\ \A j \in 1..n : w.list[j] = item[at[j - 1]]

\* The walk along given places, of which the last is where it ends.
LEMMA WalkAlong ==
    ASSUME NEW S, NEW item, \A c \in Nat : item[c] \in S,
           NEW next, Forward(next), NEW to \in Int, NEW n \in Nat,
           NEW at, Stops(next, to, n, at)
    PROVE  /\ Walk(item, next, at[0], to).list \in Seq(S)
           /\ Gathers(Walk(item, next, at[0], to), item, n, at)
<1> USE DEF Stops
<1> DEFINE W(d) == Walk(item, next, d, to)
           Good(m) == /\ Len(W(at[n - m]).list) = m /\ W(at[n - m]).end = at[n]
                      /\ \A j \in 1..m : W(at[n - m]).list[j] = item[at[(n - m) + j - 1]]
           bad == {m \in 0..n : ~Good(m)}
<1>1. \A d \in Nat : W(d).list \in Seq(S)
  BY WalkType
<1>2. \A d \in Nat : /\ d < to => W(d).list = Before(item[d], W(next[d]).list) /\ W(d).end = W(next[d]).end
                     /\ ~(d < to) => W(d).list = <<>> /\ W(d).end = d
  BY WalkStep
<1> HIDE DEF W
<1>3. SUFFICES ASSUME bad # {} PROVE FALSE
  <2>1. Good(n)
    <3> HIDE DEF Good
    <3>1. n \in 0..n
      OBVIOUS
    <3> QED BY <1>3, <3>1
  <2>2. n - n = 0 /\ \A j \in 1..n : 0 + j - 1 = j - 1
    OBVIOUS
  <2>3. at[0] \in Nat
    OBVIOUS
  <2> QED BY <1>1, <2>1, <2>2, <2>3 DEF W, Gathers
<1>4. PICK m \in bad : \A k \in bad : m <= k
  <2>1. bad \subseteq Nat
    OBVIOUS
  <2> HIDE DEF bad
  <2> QED BY <1>3, <2>1, LeastNat
<1>5. m \in 0..n /\ ~Good(m)
  <2> HIDE DEF Good
  <2> QED OBVIOUS
<1>6. CASE m = 0
  <2>1. n - m = n /\ 1..m = {} /\ n \in 0..n
    BY <1>6
  <2>2. W(at[n]).list = <<>> /\ W(at[n]).end = at[n]
    BY <1>2, <2>1
  <2>3. Len(<<>>) = 0
    OBVIOUS
  <2>4. Good(m)
    BY <1>6, <2>1, <2>2, <2>3
  <2> HIDE DEF Good
  <2> QED BY <1>5, <2>4
<1>7. CASE m # 0
  <2> DEFINE i == n - m
             d == at[i]
             s == W(at[i + 1]).list
  <2>1. /\ i \in 0..n /\ i + 1 \in 1..n /\ i + 1 \in 0..n /\ (i + 1) - 1 = i /\ n - (m - 1) = i + 1
        /\ m - 1 \in 0..n /\ ~(m <= m - 1) /\ m \in Nat /\ m - 1 \in Nat
    BY <1>5, <1>7
  <2>2. Good(m - 1)
    <3> HIDE DEF Good
    <3>1. m - 1 \notin bad
      BY <1>4, <2>1
    <3> QED BY <2>1, <3>1
  <2>3. /\ Len(s) = m - 1 /\ W(at[i + 1]).end = at[n]
        /\ \A j \in 1..(m - 1) : s[j] = item[at[(i + 1) + j - 1]]
    BY <2>1, <2>2
  <2> HIDE DEF i
  <2>4. d \in Nat /\ d < to /\ next[d] = at[i + 1] /\ at[i + 1] \in Nat
    BY <2>1
  <2>5. W(d).list = Before(item[d], s) /\ W(d).end = at[n]
    BY <1>2, <2>3, <2>4
  <2>6. item[d] \in S /\ s \in Seq(S)
    BY <1>1, <2>4
  <2> HIDE DEF s, d
  <2>7. /\ Len(W(d).list) = (m - 1) + 1 /\ W(d).list[1] = item[d]
        /\ \A j \in 1..(m - 1) : W(d).list[j + 1] = s[j]
    <3> DEFINE x == item[d]
               u == Before(x, s)
    <3>1. x \in S
      BY <2>6
    <3> HIDE DEF x
    <3>2. /\ Len(u) = Len(s) + 1 /\ u[1] = x
          /\ \A j \in 1..Len(s) : u[j + 1] = s[j]
      BY <2>6, <3>1, BeforeFacts
    <3> HIDE DEF u
    <3> QED BY <2>3, <2>5, <3>2 DEF u, x
  <2>8. Len(W(d).list) = m
    BY <2>1, <2>7
  <2>9. ASSUME NEW j \in 1..m PROVE W(d).list[j] = item[at[i + j - 1]]
    <3>1. CASE j = 1
      <4>1. i + j - 1 = i
        BY <2>1, <3>1
      <4> QED BY <2>7, <3>1, <4>1 DEF d
    <3>2. CASE j # 1
      <4>1. j - 1 \in 1..(m - 1) /\ (j - 1) + 1 = j /\ (i + 1) + (j - 1) - 1 = i + j - 1
        BY <2>1, <3>2
      <4>2. W(d).list[j] = s[j - 1]
        BY <2>7, <4>1
      <4>3. s[j - 1] = item[at[(i + 1) + (j - 1) - 1]]
        BY <2>3, <4>1
      <4> QED BY <4>1, <4>2, <4>3
    <3> QED BY <3>1, <3>2
  <2>10. Good(m)
    BY <2>5, <2>8, <2>9 DEF d, i
  <2> HIDE DEF Good
  <2> QED BY <1>5, <2>10
<1> QED
  BY <1>5, <1>6, <1>7

\* The walk over the parts of a flattened sequence, of which each takes the cursor to
\* the next.
Strides(next, q, c) ==
    \A k \in 1..Len(q) : /\ Len(q[k]) > 0
                         /\ next[c + Off(q, k - 1)] = c + Off(q, k - 1) + Len(q[k])

Gathered(w, item, q, c) ==
    /\ w.list \in Seq({item[d] : d \in Nat}) /\ Len(w.list) = Len(q)
    /\ w.end = c + Len(FlattenSeq(q))
    /\ \A k \in 1..Len(q) : w.list[k] = item[c + Off(q, k - 1)]

LEMMA WalkParts ==
    ASSUME NEW S, NEW q \in Seq(Seq(S)), NEW c \in Nat, NEW item, NEW next, Forward(next),
           Strides(next, q, c)
    PROVE  Gathered(Walk(item, next, c, c + Len(FlattenSeq(q))), item, q, c)
<1> DEFINE n == Len(q)
           to == c + Len(FlattenSeq(q))
           T == {item[d] : d \in Nat}
           at == [i \in 0..n |-> c + Off(q, i)]
           w == Walk(item, next, at[0], to)
<1>1. n \in Nat /\ Len(FlattenSeq(q)) \in Nat /\ to \in Int
  BY LenProperties, FlattenType
<1>2. Off(q, 0) = 0 /\ Off(q, n) = Len(FlattenSeq(q))
  BY OffEnds
<1>3. \A k \in 1..n : /\ Off(q, k - 1) \in Nat /\ Off(q, k) = Off(q, k - 1) + Len(q[k])
                      /\ Off(q, k) <= Len(FlattenSeq(q)) /\ Len(q[k]) \in Nat
  <2>1. ASSUME NEW k \in 1..n
        PROVE  /\ Off(q, k - 1) \in Nat /\ Off(q, k) = Off(q, k - 1) + Len(q[k])
               /\ Off(q, k) <= Len(FlattenSeq(q)) /\ Len(q[k]) \in Nat
    <3>1. q[k] \in Seq(S)
      BY ElementOfSeq
    <3> QED BY <3>1, FlattenParts, LenProperties
  <2> QED BY <2>1
<1>4. \A k \in 1..n : /\ Len(q[k]) > 0
                      /\ next[c + Off(q, k - 1)] = c + Off(q, k - 1) + Len(q[k])
  BY DEF Strides
<1> HIDE DEF n
<1>5. \A i \in 0..n : Off(q, i) \in Nat
  <2>1. ASSUME NEW i \in 0..n, i # 0 PROVE Off(q, i) \in Nat
    <3>1. i \in 1..n
      BY <1>1, <2>1
    <3>2. Off(q, i - 1) \in Nat /\ Off(q, i) = Off(q, i - 1) + Len(q[i]) /\ Len(q[i]) \in Nat
      BY <1>3, <3>1
    <3> QED BY <3>2
  <2>2. Off(q, 0) \in Nat
    BY <1>2
  <2> QED BY <2>1, <2>2
<1>6. Stops(next, to, n, at)
  <2>1. \A i \in 0..n : at[i] \in Nat
    BY <1>5
  <2>2. ~(at[n] < to)
    <3>1. n \in 0..n /\ at[n] = c + Off(q, n)
      BY <1>1
    <3> QED BY <1>1, <1>2, <3>1
  <2>3. ASSUME NEW i \in 1..n PROVE at[i - 1] < to /\ next[at[i - 1]] = at[i]
    <3>1. i \in 0..n /\ i - 1 \in 0..n
      BY <1>1
    <3>2. at[i] = c + Off(q, i) /\ at[i - 1] = c + Off(q, i - 1)
      BY <3>1
    <3> DEFINE x == Off(q, i - 1)
               y == Off(q, i)
               l == Len(q[i])
               m == Len(FlattenSeq(q))
    <3>3. x \in Nat /\ y = x + l /\ y <= m /\ l \in Nat /\ l > 0 /\ m \in Nat
          /\ next[c + x] = c + x + l
      BY <1>1, <1>3, <1>4
    <3>4. at[i] = c + y /\ at[i - 1] = c + x /\ to = c + m
      BY <3>2
    <3> HIDE DEF x, y, l, m, at, to
    <3> QED BY <3>3, <3>4
  <2> HIDE DEF at, to
  <2> QED BY <2>1, <2>2, <2>3 DEF Stops
<1>7. \A d \in Nat : item[d] \in T
  OBVIOUS
<1>8. w.list \in Seq(T) /\ Gathers(w, item, n, at)
  <2> HIDE DEF T, at, to
  <2> QED BY <1>1, <1>6, <1>7, WalkAlong
<1>9. at[0] = c /\ at[n] = to /\ \A k \in 1..n : at[k - 1] = c + Off(q, k - 1)
  <2>1. 0 \in 0..n /\ n \in 0..n /\ \A k \in 1..n : k - 1 \in 0..n
    BY <1>1
  <2>2. at[0] = c + Off(q, 0) /\ at[n] = c + Off(q, n)
    BY <2>1
  <2>3. \A k \in 1..n : at[k - 1] = c + Off(q, k - 1)
    BY <2>1
  <2>4. c + 0 = c
    OBVIOUS
  <2> HIDE DEF at
  <2> QED BY <1>2, <2>2, <2>3, <2>4
<1> HIDE DEF at
<1>10. w = Walk(item, next, c, to)
  BY <1>9
<1> HIDE DEF w, to, T
<1>11. /\ w.list \in Seq(T) /\ Len(w.list) = n /\ w.end = to
       /\ \A k \in 1..n : w.list[k] = item[c + Off(q, k - 1)]
  BY <1>8, <1>9 DEF Gathers
<1> QED
  BY <1>10, <1>11 DEF n, to, T, Gathered

-----------------------------------------------------------------------------
\* The bytes of b are in v, from the cursor c on.
Lies(b, v, c) == c + Len(b) <= Len(v) /\ \A j \in 1..Len(b) : v[c + j] = b[j]

\* The parts of what lies there, and its bytes.
LEMMA LiesPart ==
    ASSUME NEW S, NEW q \in Seq(Seq(S)), NEW v, Len(v) \in Nat, NEW c \in Nat,
           Lies(FlattenSeq(q), v, c), NEW k \in 1..Len(q)
    PROVE  c + Off(q, k - 1) \in Nat /\ Lies(q[k], v, c + Off(q, k - 1))
<1> DEFINE f == FlattenSeq(q)
           o == Off(q, k - 1)
           b == q[k]
<1>1. f \in Seq(S) /\ b \in Seq(S)
  BY FlattenType, ElementOfSeq
<1>2. Len(f) \in Nat /\ Len(b) \in Nat
  BY <1>1, LenProperties
<1>3. /\ o \in Nat /\ Off(q, k) = o + Len(b) /\ Off(q, k) <= Len(f)
      /\ \A j \in 1..Len(b) : f[o + j] = b[j]
  BY FlattenParts
<1>4. c + Len(f) <= Len(v) /\ \A j \in 1..Len(f) : v[c + j] = f[j]
  BY DEF Lies
<1> HIDE DEF f, o, b
<1>5. (c + o) + Len(b) <= Len(v)
  BY <1>2, <1>3, <1>4
<1>6. ASSUME NEW j \in 1..Len(b) PROVE v[(c + o) + j] = b[j]
  <2>1. o + j \in 1..Len(f) /\ c + (o + j) = (c + o) + j
    BY <1>2, <1>3
  <2> QED BY <1>3, <1>4, <2>1
<1>7. c + o \in Nat
  BY <1>3
<1> QED
  BY <1>5, <1>6, <1>7 DEF Lies, o, b

LEMMA LiesThere ==
    ASSUME NEW b, Len(b) \in Nat, NEW v, Len(v) \in Nat, NEW c \in Nat, Lies(b, v, c),
           NEW junk, NEW i \in 0..(Len(b) - 1)
    PROVE  At(v, c + i, junk) = b[i + 1]
<1>1. c + i < Len(v) /\ i + 1 \in 1..Len(b) /\ (c + i) + 1 = c + (i + 1)
  BY DEF Lies
<1>2. v[c + (i + 1)] = b[i + 1]
  BY <1>1 DEF Lies
<1> QED
  BY <1>1, <1>2 DEF At

LEMMA LiesTaken ==
    ASSUME NEW S, NEW b \in Seq(S), NEW v, Len(v) \in Nat, NEW c \in Nat, Lies(b, v, c),
           NEW junk
    PROVE  Take(v, c, Len(b), junk) = b
<1> DEFINE n == Len(b)
           f == [j \in 1..n |-> At(v, c + j - 1, junk)]
<1>1. n \in Nat /\ \A j \in 1..n : b[j] \in S
  BY LenProperties, ElementOfSeq
<1>2. ASSUME NEW j \in 1..n PROVE f[j] = b[j]
  <2>1. f[j] = At(v, c + j - 1, junk)
    OBVIOUS
  <2> HIDE DEF f
  <2>2. v[c + j] = b[j] /\ c + n <= Len(v)
    BY DEF Lies
  <2>3. c + j - 1 < Len(v) /\ (c + j - 1) + 1 = c + j
    BY <1>1, <2>2
  <2>4. At(v, c + j - 1, junk) = v[c + j]
    BY <2>3 DEF At
  <2> QED BY <2>1, <2>2, <2>4
<1>3. DOMAIN f = 1..n /\ f = [j \in DOMAIN f |-> f[j]]
  OBVIOUS
<1> HIDE DEF f, n
<1>4. \A j \in 1..n : f[j] \in S
  BY <1>1, <1>2
<1>5. f \in Seq(S) /\ Len(f) = n
  BY <1>1, <1>3, <1>4, IsSeq
<1>6. f = b
  BY <1>2, <1>5, SeqEqual DEF n
<1>7. f \o <<>> = f
  BY <1>5, ConcatEmptySeq
<1> QED
  BY <1>6, <1>7 DEF Take, f, n

-----------------------------------------------------------------------------
\* Descriptors whose length is that which a byte states.
Descs == Seq([tag : Nat, value : Seq(Nat)])
Writable(ds) == ds \in Descs /\ \A k \in 1..Len(ds) : Len(ds[k].value) <= 255

\* The bytes of one descriptor.
OneDesc(d) == <<d.tag, DescLength(d)>> \o SubSeq(d.value, 1, DescLength(d))
DescParts(ds) == [k \in 1..Len(ds) |-> OneDesc(ds[k])]

\* One descriptor, as it lies in v.
LEMMA OneDescRead ==
    ASSUME NEW d \in [tag : Nat, value : Seq(Nat)], Len(d.value) <= 255
    PROVE  /\ OneDesc(d) \in Seq(Nat) /\ Len(OneDesc(d)) = 2 + Len(d.value)
           /\ Len(d.value) \in Nat
           /\ OneDesc(d)[1] = d.tag /\ OneDesc(d)[2] = Len(d.value)
           /\ \A j \in 1..Len(d.value) : OneDesc(d)[2 + j] = d.value[j]
<1> DEFINE b == d.value
           n == Len(b)
           a == <<d.tag, n>>
           s == a \o b
<1>1. b \in Seq(Nat) /\ d.tag \in Nat
  OBVIOUS
<1>2. n \in Nat /\ n <= 255
  BY <1>1, LenProperties
<1>3. DescLength(d) = n
  <2>1. n % 256 = n
    BY <1>2
  <2> QED BY <2>1 DEF DescLength
<1>4. SubSeq(b, 1, n) = b
  BY <1>1, SubSeqFull
<1>5. OneDesc(d) = s
  BY <1>3, <1>4 DEF OneDesc
<1>6. a \in Seq(Nat) /\ Len(a) = 2 /\ a[1] = d.tag /\ a[2] = n
  BY <1>1, <1>2
<1> HIDE DEF a, n, b
<1>7. /\ s \in Seq(Nat) /\ Len(s) = Len(a) + Len(b)
      /\ \A i \in 1..(Len(a) + Len(b)) : s[i] = IF i <= Len(a) THEN a[i] ELSE b[i - Len(a)]
  <2>1. a \in Seq(Nat) /\ b \in Seq(Nat)
    BY <1>1, <1>6
  <2>2. s \in Seq(Nat)
    BY <2>1, ConcatProperties
  <2>3. Len(s) = Len(a) + Len(b)
    BY <2>1, ConcatProperties
  <2>4. \A i \in 1..(Len(a) + Len(b)) : s[i] = IF i <= Len(a) THEN a[i] ELSE b[i - Len(a)]
    BY <2>1, ConcatProperties
  <2> HIDE DEF s
  <2> QED BY <2>2, <2>3, <2>4
<1> HIDE DEF s
<1>8. Len(b) = n
  BY DEF n
<1>9. s[1] = a[1] /\ s[2] = a[2]
  <2>1. 1 \in 1..(2 + n) /\ 2 \in 1..(2 + n)
    BY <1>2
  <2> QED BY <1>6, <1>7, <1>8, <2>1
<1>10. ASSUME NEW j \in 1..n PROVE s[2 + j] = b[j]
  <2>1. 2 + j \in 1..(2 + n) /\ ~(2 + j <= 2) /\ (2 + j) - 2 = j
    BY <1>2
  <2> QED BY <1>6, <1>7, <1>8, <2>1
<1> QED
  BY <1>2, <1>5, <1>6, <1>7, <1>8, <1>9, <1>10 DEF n, b

LEMMA AtNat ==
    ASSUME NEW v \in Seq(Nat), NEW k \in Nat, NEW junk \in Nat
    PROVE  At(v, k, junk) \in Nat
<1>1. Len(v) \in Nat /\ (k < Len(v) => k + 1 \in 1..Len(v))
  BY LenProperties
<1>2. k < Len(v) => v[k + 1] \in Nat
  BY <1>1, ElementOfSeq
<1> QED
  BY <1>2 DEF At

LEMMA DescPartsFacts ==
    ASSUME NEW ds, Writable(ds)
    PROVE  /\ DescParts(ds) \in Seq(Seq(Nat)) /\ Len(DescParts(ds)) = Len(ds)
           /\ DescBytes(ds) = FlattenSeq(DescParts(ds))
           /\ \A k \in 1..Len(ds) : DescParts(ds)[k] = OneDesc(ds[k])
<1> DEFINE q == DescParts(ds)
           n == Len(ds)
<1>1. n \in Nat /\ \A k \in 1..n : ds[k] \in [tag : Nat, value : Seq(Nat)] /\ Len(ds[k].value) <= 255
  BY LenProperties, ElementOfSeq DEF Writable, Descs
<1>2. DOMAIN q = 1..n /\ q = [k \in DOMAIN q |-> q[k]] /\ \A k \in 1..n : q[k] = OneDesc(ds[k])
  BY DEF DescParts
<1>3. DescBytes(ds) = FlattenSeq(q)
  BY DEF DescBytes, DescParts, OneDesc
<1> HIDE DEF q, n
<1>4. \A k \in 1..n : q[k] \in Seq(Nat)
  <2>1. ASSUME NEW k \in 1..n PROVE OneDesc(ds[k]) \in Seq(Nat)
    BY <1>1, OneDescRead
  <2> QED BY <1>2, <2>1
<1>5. q \in Seq(Seq(Nat)) /\ Len(q) = n
  BY <1>1, <1>2, <1>4, IsSeq
<1> QED
  BY <1>2, <1>3, <1>5 DEF q, n

\* Descriptors that lie somewhere are read as they are, and the cursor ends behind them.
LEMMA DescriptorsRead ==
    ASSUME NEW ds, Writable(ds), NEW v \in Seq(Nat), NEW c \in Nat, NEW junk \in Nat,
           Lies(DescBytes(ds), v, c)
    PROVE  LET w == Descriptors(v, c, c + Len(DescBytes(ds)), junk)
           IN  w.list = ds /\ w.end = c + Len(DescBytes(ds))
<1> DEFINE q == DescParts(ds)
           n == Len(ds)
           item == [d \in Nat |-> [tag |-> At(v, d, junk),
                                   value |-> Take(v, d + 2, At(v, d + 1, junk), junk)]]
           next == [d \in Nat |-> d + 2 + At(v, d + 1, junk)]
           to == c + Len(DescBytes(ds))
           w == Walk(item, next, c, to)
           T == {item[d] : d \in Nat}
           o(k) == Off(q, k - 1)
<1>1. /\ q \in Seq(Seq(Nat)) /\ Len(q) = n /\ n \in Nat /\ DescBytes(ds) = FlattenSeq(q)
      /\ \A k \in 1..n : q[k] = OneDesc(ds[k])
  BY DescPartsFacts, LenProperties DEF Writable, Descs
<1>2. \A k \in 1..n : ds[k] \in [tag : Nat, value : Seq(Nat)] /\ Len(ds[k].value) <= 255
  BY LenProperties, ElementOfSeq DEF Writable, Descs
<1>3. Len(v) \in Nat
  BY LenProperties
<1>4. Forward(next)
  <2>1. ASSUME NEW d \in Nat PROVE next[d] \in Nat /\ next[d] > d
    <3>1. next[d] = d + 2 + At(v, d + 1, junk) /\ d + 1 \in Nat
      OBVIOUS
    <3>2. At(v, d + 1, junk) \in Nat
      BY <3>1, AtNat
    <3> HIDE DEF next
    <3> QED BY <3>1, <3>2
  <2> HIDE DEF next
  <2> QED BY <2>1 DEF Forward
<1>5. Descriptors(v, c, to, junk) = w
  BY DEF Descriptors
<1>6. \A d \in Nat : /\ item[d] = [tag |-> At(v, d, junk),
                                   value |-> Take(v, d + 2, At(v, d + 1, junk), junk)]
                     /\ next[d] = d + 2 + At(v, d + 1, junk)
  OBVIOUS
<1> HIDE DEF item, next, q, n
<1>7. ASSUME NEW k \in 1..n
      PROVE  /\ Len(q[k]) > 0 /\ next[c + o(k)] = c + o(k) + Len(q[k])
             /\ item[c + o(k)] = ds[k]
  <2> DEFINE e == c + o(k)
             d == ds[k]
             s == q[k]
             l == Len(d.value)
  <2>1. e \in Nat /\ Lies(s, v, e)
    BY <1>1, <1>3, LiesPart
  <2>2. d \in [tag : Nat, value : Seq(Nat)] /\ Len(d.value) <= 255 /\ s = OneDesc(d)
    BY <1>1, <1>2
  <2>3. d = [tag |-> d.tag, value |-> d.value] /\ d.value \in Seq(Nat)
    BY <2>2
  <2>4. /\ Len(s) = 2 + l /\ l \in Nat /\ s[1] = d.tag /\ s[2] = l
        /\ \A j \in 1..l : s[2 + j] = d.value[j]
    BY <2>2, OneDescRead
  <2> HIDE DEF e, d, s
  <2>5. e + (2 + l) <= Len(v) /\ \A j \in 1..(2 + l) : v[e + j] = s[j]
    BY <2>1, <2>4 DEF Lies
  <2> HIDE DEF l
  <2>6. At(v, e, junk) = d.tag /\ At(v, e + 1, junk) = l
    <3>1. e < Len(v) /\ e + 1 < Len(v) /\ (e + 1) + 1 = e + 2 /\ 1 \in 1..(2 + l) /\ 2 \in 1..(2 + l)
      BY SMTT(30), <1>3, <2>1, <2>4, <2>5
    <3>2. v[e + 1] = d.tag /\ v[e + 2] = l
      BY <2>4, <2>5, <3>1
    <3> QED BY <3>1, <3>2 DEF At
  <2>7. Take(v, e + 2, l, junk) = d.value
    <3>1. Lies(d.value, v, e + 2)
      <4>1. (e + 2) + l <= Len(v)
        BY <1>3, <2>1, <2>4, <2>5
      <4>2. ASSUME NEW j \in 1..l PROVE v[(e + 2) + j] = d.value[j]
        <5>1. 2 + j \in 1..(2 + l) /\ e + (2 + j) = (e + 2) + j
          BY <2>1, <2>4
        <5> QED BY <2>4, <2>5, <5>1
      <4> QED BY <4>1, <4>2 DEF Lies, l
    <3>2. e + 2 \in Nat
      BY <2>1
    <3> QED BY <1>3, <2>3, <3>1, <3>2, LiesTaken DEF l
  <2>8. item[e] = d
    BY <1>6, <2>1, <2>3, <2>6, <2>7
  <2>9. next[e] = e + Len(s) /\ Len(s) > 0
    <3>1. next[e] = e + 2 + At(v, e + 1, junk)
      BY <1>6, <2>1
    <3>2. next[e] = e + 2 + l
      BY <2>6, <3>1
    <3> QED BY <2>1, <2>4, <3>2
  <2> QED BY <2>8, <2>9 DEF e, d, s
<1>8. /\ w.list \in Seq(T) /\ Len(w.list) = Len(q) /\ w.end = to
      /\ \A k \in 1..n : w.list[k] = item[c + o(k)]
  <2>1. Strides(next, q, c)
    BY <1>1, <1>7 DEF Strides
  <2>2. Gathered(Walk(item, next, c, c + Len(FlattenSeq(q))), item, q, c)
    BY <1>1, <1>4, <2>1, WalkParts
  <2> QED BY <1>1, <2>2 DEF Gathered
<1>9. \A k \in 1..n : w.list[k] = ds[k]
  BY <1>7, <1>8
<1> HIDE DEF w, to, T
<1>10. w.list = ds
  <2>1. ds \in Seq([tag : Nat, value : Seq(Nat)]) /\ Len(ds) = n
    BY DEF Writable, Descs, n
  <2> QED BY <1>1, <1>8, <1>9, <2>1, SeqEqual
<1> QED
  BY <1>5, <1>8, <1>10 DEF to

-----------------------------------------------------------------------------
\* The descriptors that addDescriptor keeps of a sequence of them: of each tag the first.
\* The function by which they are gathered, for the first n positions.
OfEachTag(ds) == FoldLeft(addDescriptor, <<>>, ds)

KeepsSome(f, s, n) ==
    \A t \in SUBSET (1..n) :
        f[t] = IF t = {} THEN <<>> ELSE addDescriptor(f[t \ {Max(t)}], s[Max(t)])

LEMMA SomeKeep ==
    ASSUME NEW s, NEW n \in Nat
    PROVE  \E f : KeepsSome(f, s, n)
<1> DEFINE bad == {m \in Nat : ~\E f : KeepsSome(f, s, m)}
<1>1. SUFFICES ASSUME bad # {} PROVE FALSE
  OBVIOUS
<1>2. PICK m \in bad : \A k \in bad : m <= k
  <2>1. bad \subseteq Nat
    OBVIOUS
  <2> HIDE DEF bad
  <2> QED BY <1>1, <2>1, LeastNat
<1>3. m \in Nat /\ ~\E f : KeepsSome(f, s, m)
  OBVIOUS
<1>4. m # 0
  <2>1. SUFFICES ASSUME m = 0 PROVE KeepsSome([t \in {{}} |-> <<>>], s, m)
    BY <1>3
  <2>2. 1..m = {}
    BY <2>1
  <2>3. SUBSET (1..m) = {{}}
    BY <2>2
  <2> QED BY <2>3 DEF KeepsSome
<1>5. PICK f : KeepsSome(f, s, m - 1)
  <2>1. m - 1 \in Nat /\ ~(m <= m - 1)
    BY <1>3, <1>4
  <2> QED BY <1>2, <2>1
<1> HIDE DEF bad
<1> DEFINE g == [t \in SUBSET (1..m) |-> IF m \in t THEN addDescriptor(f[t \ {m}], s[m]) ELSE f[t]]
<1>6. ASSUME NEW t \in SUBSET (1..m)
      PROVE  g[t] = IF t = {} THEN <<>> ELSE addDescriptor(g[t \ {Max(t)}], s[Max(t)])
  <2>1. CASE m \in t
    <3>1. Max(t) = m /\ t # {}
      BY <2>1, <1>3, LastIsGreatest
    <3>2. g[t] = addDescriptor(f[t \ {m}], s[m])
      BY <2>1
    <3>3. g[t \ {m}] = f[t \ {m}]
      <4>1. t \ {m} \in SUBSET (1..m) /\ m \notin t \ {m}
        OBVIOUS
      <4> QED BY <4>1, Zenon
    <3> HIDE DEF g
    <3> QED BY <3>1, <3>2, <3>3
  <2>2. CASE m \notin t
    <3>1. t \in SUBSET (1..(m - 1))
      BY <2>2, <1>3
    <3>2. t \ {Max(t)} \in SUBSET (1..m) /\ m \notin t \ {Max(t)}
      BY <2>2
    <3>3. g[t] = f[t] /\ g[t \ {Max(t)}] = f[t \ {Max(t)}]
      BY <2>2, <3>2, Zenon
    <3>4. f[t] = IF t = {} THEN <<>> ELSE addDescriptor(f[t \ {Max(t)}], s[Max(t)])
      BY <1>5, <3>1 DEF KeepsSome
    <3> QED BY <3>3, <3>4
  <2> QED BY <2>1, <2>2
<1>7. KeepsSome(g, s, m)
  <2> HIDE DEF g
  <2> QED BY <1>6 DEF KeepsSome
<1> QED
  BY <1>3, <1>7, Zenon

LEMMA SameKeep ==
    ASSUME NEW s, NEW n \in Nat, NEW f, NEW g, KeepsSome(f, s, n), KeepsSome(g, s, n)
    PROVE  f[1..n] = g[1..n]
<1> DEFINE G == {t \in SUBSET (1..n) : f[t] = g[t]}
<1>1. {} \in G
  <2>1. {} \in SUBSET (1..n)
    OBVIOUS
  <2> QED BY <2>1 DEF KeepsSome
<1>2. ASSUME NEW t \in SUBSET (1..n), t # {}, t \ {Max(t)} \in G
      PROVE  t \in G
  <2>1. f[t] = addDescriptor(f[t \ {Max(t)}], s[Max(t)]) /\ g[t] = addDescriptor(g[t \ {Max(t)}], s[Max(t)])
    BY <1>2, Zenon DEF KeepsSome
  <2> QED BY <1>2, <2>1
<1> HIDE DEF G
<1>3. SUBSET (1..n) \subseteq G
  BY <1>1, <1>2, Downwards
<1>4. 1..n \in G
  BY <1>3
<1> QED
  BY <1>4 DEF G

LEMMA KeptIs ==
    ASSUME NEW s, NEW n \in Nat, DOMAIN s = 1..n, NEW f, KeepsSome(f, s, n)
    PROVE  OfEachTag(s) = f[1..n]
<1> DEFINE Is(g) == g = [t \in SUBSET DOMAIN s |->
                           IF t = {} THEN <<>> ELSE addDescriptor(g[t \ {Max(t)}], s[Max(t)])]
           g == CHOOSE g : Is(g)
           h == [t \in SUBSET DOMAIN s |-> f[t]]
<1>1. OfEachTag(s) = g[DOMAIN s]
  BY DEF OfEachTag, FoldLeft, MapThenFoldSet
<1>2. \A t \in SUBSET (1..n) : h[t] = f[t] /\ t \ {Max(t)} \in SUBSET (1..n)
  OBVIOUS
<1>3. Is(h)
  <2>1. ASSUME NEW t \in SUBSET DOMAIN s
        PROVE  h[t] = IF t = {} THEN <<>> ELSE addDescriptor(h[t \ {Max(t)}], s[Max(t)])
    <3>1. f[t] = IF t = {} THEN <<>> ELSE addDescriptor(f[t \ {Max(t)}], s[Max(t)])
      BY DEF KeepsSome
    <3>2. h[t] = f[t] /\ h[t \ {Max(t)}] = f[t \ {Max(t)}]
      BY <1>2
    <3> HIDE DEF h
    <3> QED BY <3>1, <3>2
  <2>2. h = [t \in SUBSET DOMAIN s |-> h[t]]
    BY Zenon
  <2> HIDE DEF h
  <2> QED BY <2>1, <2>2
<1>4. Is(g)
  BY <1>3, Zenon
<1> HIDE DEF g, h
<1>5. KeepsSome(g, s, n)
  BY <1>4 DEF KeepsSome
<1>6. g[1..n] = f[1..n]
  BY <1>5, SameKeep
<1> QED
  BY <1>1, <1>6

LEMMA KeptNone == OfEachTag(<<>>) = <<>>
<1>1. PICK f : KeepsSome(f, <<>>, 0)
  BY SomeKeep
<1>2. DOMAIN <<>> = 1..0 /\ 1..0 = {}
  OBVIOUS
<1>3. OfEachTag(<<>>) = f[1..0]
  BY <1>1, <1>2, KeptIs
<1>4. f[{}] = <<>>
  <2>1. {} \in SUBSET (1..0)
    OBVIOUS
  <2> QED BY <1>1, <2>1 DEF KeepsSome
<1> QED
  BY <1>2, <1>3, <1>4

LEMMA KeptAppend ==
    ASSUME NEW S, NEW s \in Seq(S), NEW x \in S
    PROVE  OfEachTag(Append(s, x)) = addDescriptor(OfEachTag(s), x)
<1> DEFINE n == Len(s)
           u == Append(s, x)
<1>1. n \in Nat /\ DOMAIN s = 1..n /\ DOMAIN u = 1..(n + 1) /\ u[n + 1] = x
      /\ \A k \in 1..n : u[k] = s[k]
  OBVIOUS
<1> HIDE DEF n, u
<1>2. PICK f : KeepsSome(f, u, n + 1)
  <2>1. n + 1 \in Nat
    BY <1>1
  <2> QED BY <2>1, SomeKeep
<1>3. KeepsSome(f, s, n)
  <2>1. ASSUME NEW t \in SUBSET (1..n)
        PROVE  f[t] = IF t = {} THEN <<>> ELSE addDescriptor(f[t \ {Max(t)}], s[Max(t)])
    <3>1. t \in SUBSET (1..(n + 1))
      BY <1>1
    <3>2. f[t] = IF t = {} THEN <<>> ELSE addDescriptor(f[t \ {Max(t)}], u[Max(t)])
      BY <1>2, <3>1 DEF KeepsSome
    <3>3. t # {} => u[Max(t)] = s[Max(t)]
      <4>1. t # {} => Max(t) \in t
        BY <1>1, Greatest
      <4> QED BY <1>1, <4>1
    <3> QED BY <3>2, <3>3
  <2> QED BY <2>1 DEF KeepsSome
<1>4. OfEachTag(s) = f[1..n]
  BY <1>1, <1>3, KeptIs
<1>5. OfEachTag(u) = f[1..(n + 1)]
  <2>1. n + 1 \in Nat
    BY <1>1
  <2> QED BY <1>1, <1>2, <2>1, KeptIs
<1>6. f[1..(n + 1)] = addDescriptor(f[1..n], x)
  <2> DEFINE t == 1..(n + 1)
  <2>1. t \in SUBSET (1..(n + 1)) /\ t # {} /\ n + 1 \in t /\ t \ {n + 1} = 1..n /\ n + 1 \in Nat
    <3>1. \A m \in Nat : /\ m + 1 \in Nat
                         /\ \A k : k \in 1..(m + 1) /\ k # m + 1 <=> k \in 1..m
                         /\ m + 1 \in 1..(m + 1)
      OBVIOUS
    <3>2. (1..(n + 1)) \ {n + 1} = 1..n
      BY <1>1, <3>1
    <3> QED BY <1>1, <3>1, <3>2
  <2>2. Max(t) = n + 1
    BY <2>1, LastIsGreatest
  <2>3. f[t] = addDescriptor(f[t \ {Max(t)}], u[Max(t)])
    BY <1>2, <2>1 DEF KeepsSome
  <2> HIDE DEF t
  <2>4. f[t] = addDescriptor(f[1..n], x)
    BY <1>1, <2>1, <2>2, <2>3
  <2> QED BY <2>4 DEF t
<1> QED
  BY <1>4, <1>5, <1>6 DEF u

LEMMA KeptAll ==
    ASSUME NEW S, NEW ds \in Seq(S), DistinctTags(ds)
    PROVE  OfEachTag(ds) = ds
<1> DEFINE G == {u \in Seq(S) : DistinctTags(u) => OfEachTag(u) = u}
<1>1. <<>> \in G
  BY KeptNone, EmptySeq
<1>2. ASSUME NEW u \in Seq(S), NEW x \in S, u \in G PROVE Append(u, x) \in G
  <2> DEFINE w == Append(u, x)
             n == Len(u)
  <2>1. /\ w \in Seq(S) /\ Len(w) = n + 1 /\ n \in Nat /\ w[n + 1] = x
        /\ \A i \in 1..n : w[i] = u[i]
    BY AppendProperties, LenProperties
  <2>2. OfEachTag(w) = addDescriptor(OfEachTag(u), x)
    BY KeptAppend
  <2> HIDE DEF w, n
  <2>3. SUFFICES ASSUME DistinctTags(w) PROVE OfEachTag(w) = w
    BY <2>1 DEF w
  <2>4. DistinctTags(u)
    <3>1. ASSUME NEW i \in 1..n, NEW j \in 1..n, u[i].tag = u[j].tag PROVE i = j
      <4>1. i \in 1..(n + 1) /\ j \in 1..(n + 1) /\ w[i] = u[i] /\ w[j] = u[j]
        BY <2>1
      <4> QED BY <2>1, <2>3, <3>1, <4>1 DEF DistinctTags
    <3> QED BY <3>1 DEF DistinctTags, n
  <2>5. OfEachTag(u) = u
    BY <1>2, <2>4
  <2>6. ~\E k \in 1..Len(u) : u[k].tag = x.tag
    <3>1. SUFFICES ASSUME NEW k \in 1..n, u[k].tag = x.tag PROVE FALSE
      BY DEF n
    <3>2. k \in 1..(n + 1) /\ n + 1 \in 1..(n + 1) /\ k # n + 1 /\ w[k] = u[k]
      BY <2>1
    <3> QED BY <2>1, <2>3, <3>1, <3>2 DEF DistinctTags
  <2> QED BY <2>2, <2>5, <2>6 DEF addDescriptor, w
<1> HIDE DEF G
<1>3. Seq(S) \subseteq G
  BY <1>1, <1>2, OnSequences
<1> QED
  BY <1>3 DEF G

LEMMA ShortNat ==
    ASSUME NEW v \in Seq(Nat), NEW k \in Nat, NEW m \in Nat \ {0}, NEW junk \in Nat
    PROVE  Short(v, k, m, junk) \in Nat
<1>1. At(v, k, junk) \in Nat /\ At(v, k + 1, junk) \in Nat
  <2>1. k + 1 \in Nat
    OBVIOUS
  <2>2. At(v, k + 1, junk) \in Nat
    BY <2>1, AtNat
  <2> QED BY <2>2, AtNat
<1> DEFINE z == 256 * At(v, k, junk) + At(v, k + 1, junk)
<1>2. z \in Nat
  BY <1>1
<1> HIDE DEF z
<1>3. z % m \in Nat
  BY <1>2
<1> QED
  BY <1>3 DEF Short, z

\* A loop over descriptors goes forward, wherever it begins.
LEMMA DescriptorsType ==
    ASSUME NEW v \in Seq(Nat), NEW c \in Nat, NEW to \in Nat, NEW junk \in Nat
    PROVE  /\ Descriptors(v, c, to, junk).end \in Nat
           /\ Descriptors(v, c, to, junk).end >= c
<1> DEFINE item == [d \in Nat |-> [tag |-> At(v, d, junk),
                                   value |-> Take(v, d + 2, At(v, d + 1, junk), junk)]]
           next == [d \in Nat |-> d + 2 + At(v, d + 1, junk)]
           w == Walk(item, next, c, to)
           T == {item[d] : d \in Nat}
<1>1. Forward(next)
  <2>1. ASSUME NEW d \in Nat PROVE next[d] \in Nat /\ next[d] > d
    <3>1. next[d] = d + 2 + At(v, d + 1, junk) /\ d + 1 \in Nat
      OBVIOUS
    <3>2. At(v, d + 1, junk) \in Nat
      BY <3>1, AtNat
    <3> HIDE DEF next
    <3> QED BY <3>1, <3>2
  <2> HIDE DEF next
  <2> QED BY <2>1 DEF Forward
<1>2. Descriptors(v, c, to, junk) = w
  BY DEF Descriptors
<1>3. \A d \in Nat : item[d] \in T
  OBVIOUS
<1> HIDE DEF item, next, T
<1>4. w.end \in Nat /\ w.end >= c
  <2>1. LET u == Walk(item, next, c, to)
        IN  u.list \in Seq(T) /\ u.end \in Nat /\ u.end >= c /\ u.end >= to
    <3>1. to \in Int
      OBVIOUS
    <3> QED BY <1>1, <1>3, <3>1, WalkType
  <2> QED BY <2>1
<1> QED
  BY <1>2, <1>4

-----------------------------------------------------------------------------
\* The numbers up to n. The provers are slow with an interval to a large numeral:
\* that one of sixteen bits is below 65536 comes from n.
Upto(n) == 0..n

LEMMA WithinUpto == \A n \in Nat : \A y \in Nat : y <= n <=> y \in Upto(n)
BY DEF Upto

LEMMA UptoSixteenBits ==
    \A y : y \in Upto(65535) <=> y \in Nat /\ y < 65536
<1>1. 65535 \in Nat
  OBVIOUS
<1>2. \A y \in Nat : y < 65536 <=> y <= 65535
  OBVIOUS
<1>3. Upto(65535) \subseteq Nat
  BY <1>1 DEF Upto
<1> QED
  BY <1>1, <1>2, <1>3, WithinUpto

LEMMA CatType ==
    ASSUME NEW S, NEW a \in Seq(S), NEW b \in Seq(S)
    PROVE  Cat(a, b) \in Seq(S) /\ Len(Cat(a, b)) = Len(a) + Len(b)
BY ConcatProperties DEF Cat

\* Two sequences that lie one behind the other, and two bytes that are a number.
LEMMA LiesBoth ==
    ASSUME NEW S, NEW a \in Seq(S), NEW b \in Seq(S), NEW v, Len(v) \in Nat, NEW c \in Nat,
           Lies(Cat(a, b), v, c)
    PROVE  /\ Lies(a, v, c) /\ Lies(b, v, c + Len(a)) /\ c + Len(a) \in Nat
<1> DEFINE s == a \o b
<1>1. Len(a) \in Nat /\ Len(b) \in Nat
  BY LenProperties
<1>2. /\ Len(s) = Len(a) + Len(b)
      /\ \A i \in 1..(Len(a) + Len(b)) : s[i] = IF i <= Len(a) THEN a[i] ELSE b[i - Len(a)]
  BY ConcatProperties
<1>3. c + Len(s) <= Len(v) /\ \A j \in 1..Len(s) : v[c + j] = s[j]
  BY DEF Lies, Cat
<1> HIDE DEF s
<1>4. Lies(a, v, c)
  <2>1. c + Len(a) <= Len(v)
    BY <1>1, <1>2, <1>3
  <2>2. ASSUME NEW j \in 1..Len(a) PROVE v[c + j] = a[j]
    <3>1. j \in 1..(Len(a) + Len(b)) /\ j <= Len(a)
      BY <1>1
    <3> QED BY <1>2, <1>3, <3>1
  <2> QED BY <2>1, <2>2 DEF Lies
<1>5. Lies(b, v, c + Len(a))
  <2>1. (c + Len(a)) + Len(b) <= Len(v)
    BY <1>1, <1>2, <1>3
  <2>2. ASSUME NEW j \in 1..Len(b) PROVE v[(c + Len(a)) + j] = b[j]
    <3>1. /\ Len(a) + j \in 1..(Len(a) + Len(b)) /\ ~(Len(a) + j <= Len(a))
          /\ (Len(a) + j) - Len(a) = j /\ c + (Len(a) + j) = (c + Len(a)) + j
      BY <1>1
    <3>2. s[Len(a) + j] = b[j]
      BY <1>2, <3>1
    <3>3. v[c + (Len(a) + j)] = s[Len(a) + j]
      BY <1>2, <1>3, <3>1
    <3> QED BY <3>1, <3>2, <3>3
  <2> QED BY <2>1, <2>2 DEF Lies
<1> QED
  BY <1>1, <1>4, <1>5

LEMMA Bytes2Facts ==
    ASSUME NEW n \in Nat
    PROVE  /\ Bytes2(n) \in Seq(Nat) /\ Len(Bytes2(n)) = 2
           /\ Bytes2(n)[1] = n \div 256 /\ Bytes2(n)[2] = n % 256
           /\ 256 * (n \div 256) + (n % 256) = n
<1>1. n \div 256 \in Nat /\ n % 256 \in Nat /\ 256 * (n \div 256) + (n % 256) = n
  OBVIOUS
<1>2. \A a \in Nat, b \in Nat : <<a, b>> \in Seq(Nat) /\ Len(<<a, b>>) = 2 /\ <<a, b>>[1] = a /\ <<a, b>>[2] = b
  OBVIOUS
<1> QED
  BY <1>1, <1>2 DEF Bytes2

LEMMA LiesNumber ==
    ASSUME NEW n \in Nat, NEW v, Len(v) \in Nat, NEW c \in Nat, Lies(Bytes2(n), v, c),
           NEW m, NEW junk
    PROVE  Short(v, c, m, junk) = n % m
<1>1. /\ Len(Bytes2(n)) = 2 /\ Bytes2(n)[1] = n \div 256 /\ Bytes2(n)[2] = n % 256
      /\ 256 * (n \div 256) + (n % 256) = n
  BY Bytes2Facts
<1>2. c + 2 <= Len(v) /\ v[c + 1] = n \div 256 /\ v[c + 2] = n % 256
  <2>1. 1 \in 1..2 /\ 2 \in 1..2
    OBVIOUS
  <2> QED BY <1>1, <2>1 DEF Lies
<1>3. c < Len(v) /\ c + 1 < Len(v) /\ (c + 1) + 1 = c + 2
  BY <1>2
<1>4. At(v, c, junk) = n \div 256 /\ At(v, c + 1, junk) = n % 256
  BY <1>2, <1>3 DEF At
<1> QED
  BY <1>1, <1>4 DEF Short
=============================================================================
