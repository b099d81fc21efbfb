------------------------------ MODULE Payloads ------------------------------
(***************************************************************************)
(* The payloads of packets, sequences of bytes, and how the classes of the *)
(* library read and write them: through a cursor that counts from 0.  A    *)
(* byte is a number.  A read beyond the end of a vector or a packet gives  *)
(* "junk", which whoever calls chooses: it is undefined in the code.       *)
(***************************************************************************)
EXTENDS Integers, SequencesExt

\* The most payload that a packet takes, 184.
CONSTANT PayloadSize

ASSUME PayloadSizeAssumption == PayloadSize \in Nat /\ PayloadSize > 16

\* v[k]
At(v, k, junk) == IF k < Len(v) THEN v[k + 1] ELSE junk

\* ntohs of two bytes, masked to less than m
Short(v, k, m, junk) == (256 * At(v, k, junk) + At(v, k + 1, junk)) % m

\* htons
Bytes2(n) == <<n \div 256, n % 256>>

\* n bytes from &v[k]
Take(v, k, n, junk) ==
    [j \in 1..n |-> At(v, k + j - 1, junk)] \o <<>>

\* The sum of a sequence of numbers
Total(s) == FoldLeft(+, 0, s)

\* A cursor goes from "from" to the first place at or after "to", reading item[c] and
\* moving to next[c] at each place c: the items, and where it ends.
Walk(item, next, from, to) ==
    LET items[c \in Nat] == IF c < to THEN <<item[c]>> \o items[next[c]] ELSE <<>>
        end[c \in Nat] == IF c < to THEN end[next[c]] ELSE c
    IN  [list |-> items[from], end |-> end[from]]
=============================================================================
