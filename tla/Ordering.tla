------------------------------ MODULE Ordering ------------------------------
(***************************************************************************)
(* Sorting and filtering, defined by the place each member takes, so that  *)
(* they can be reasoned about (SortSeq and SelectSeq cannot).              *)
(***************************************************************************)
EXTENDS Integers, FiniteSets, Sequences

\* The members of S as `before' puts them, a strict order of S as pairs.
Ordered(S, before) ==
    [n \in 1 .. Cardinality(S) |->
        CHOOSE x \in S : Cardinality({y \in S : <<y, x>> \in before}) = n - 1]

\* What s holds at the places in P, in its order.
AtPlaces(s, P) ==
    LET place == Ordered(P, {p \in P \X P : p[1] < p[2]})
    IN  [n \in 1 .. Cardinality(P) |-> s[place[n]]]
=============================================================================
