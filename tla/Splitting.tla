------------------------------ MODULE Splitting ------------------------------
(***************************************************************************)
(* Splitting a sequence, by position: what loops over cells are compared   *)
(* with.                                                                   *)
(***************************************************************************)
EXTENDS Integers, Sequences, FiniteSets

\* The longest intervals of a sequence without members of S.
Intervals(s, S) ==
    {w \in (DOMAIN s) \X (DOMAIN s) :
        /\ w[1] <= w[2] /\ \A i \in w[1] .. w[2] : s[i] \notin S
        /\ w[1] > 1      => s[w[1] - 1] \in S
        /\ w[2] < Len(s) => s[w[2] + 1] \in S}

\* Intervals by their first cells: each behind as many as begin before it.
InOrder(I) == [k \in 1 .. Cardinality(I) |->
                 CHOOSE v \in I : Cardinality({u \in I : u[1] < v[1]}) = k - 1]

\* The members of a set of numbers: each behind as many as are less.
Ascending(P) == [k \in 1 .. Cardinality(P) |->
                   CHOOSE i \in P : Cardinality({j \in P : j < i}) = k - 1]

Pieces(s, S) == InOrder(Intervals(s, S))
=============================================================================
