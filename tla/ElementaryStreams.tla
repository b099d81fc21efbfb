-------------------------- MODULE ElementaryStreams --------------------------
(***************************************************************************)
(* What a demultiplexer promises: each file is given access units of its   *)
(* stream, whole, none twice, none left out after the first, in order.     *)
(* "units" is what the stream sends.  The promise is made as long as the   *)
(* tables that say which packets belong to the stream can be relied on.    *)
(***************************************************************************)
EXTENDS Integers, Sequences

VARIABLES
    units,          \* the access units of the stream of each file, in order
    file,           \* those that were written
    reliable

Init ==
    /\ file = [f \in DOMAIN units |-> <<>>]
    /\ reliable = TRUE

\* The k-th unit may come next.
Follows(f, k) ==
    file[f] = <<>> \/ (k > 1 /\ file[f][Len(file[f])] = units[f][k - 1])

Write ==
    \E f \in DOMAIN units : \E k \in 1..Len(units[f]) :
        /\ Follows(f, k)
        /\ file' = [file EXCEPT ![f] = Append(@, units[f][k])]

Spec == Init /\ [][reliable' = FALSE \/ (Write /\ units' = units)]_<<units, file>>
=============================================================================
