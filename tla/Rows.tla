--------------------------------- MODULE Rows ---------------------------------
(***************************************************************************)
(* What the retrieval and the report share: age buckets, and rows that are *)
(* picked from a sequence in its order.                                    *)
(***************************************************************************)
EXTENDS Integers, Sequences, FiniteSets

AGE_BUCKETS == <<"20s", "30s", "40s", "50s">>
Buckets == 1..Len(AGE_BUCKETS)

Larger(x, y) == IF x >= y THEN x ELSE y
Smaller(x, y) == IF x <= y THEN x ELSE y

\* A finite set of numbers in order: the n-th is the one that n of them do not exceed.
Rank(k, S) == Cardinality({m \in S : m <= k})
Ascending(S) == [n \in 1..Cardinality(S) |-> CHOOSE k \in S : Rank(k, S) = n]

\* The elements of s at the positions S, in the order of s.
At(s, S) == LET order == Ascending(S) IN [n \in DOMAIN order |-> s[order[n]]]
=============================================================================
