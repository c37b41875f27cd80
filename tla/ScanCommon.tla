----------------------------- MODULE ScanCommon -----------------------------
(***************************************************************************)
(* What the two halves of the scanner, Probing and ScanLearning, share: no *)
(* value, rounding, sums, and lists that are sorted or filtered.           *)
(***************************************************************************)
EXTENDS Integers, Sequences, FiniteSets, FiniteSetsExt, Functions

CONSTANT Null    \* null or undefined

\* Math.round of a quotient.
RoundDiv(n, d) == (2 * n + d) \div (2 * d)

SumOf(f) == SumFunctionOnSet(f, DOMAIN f)

\* The members of S in the order of Op.
Ordered(S, Op(_, _)) ==
    [k \in 1..Cardinality(S) |-> CHOOSE a \in S : Cardinality({b \in S : Op(b, a)}) = k - 1]

Places(S) == Ordered(S, LAMBDA i, j : i < j)

\* What is at the places K of the list s.
AtPlaces(s, K) ==
    LET place == Places(K) IN [k \in 1..Cardinality(K) |-> s[place[k]]]
=============================================================================
