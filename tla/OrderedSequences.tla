--------------------------- MODULE OrderedSequences ---------------------------
(* Sequences of event ids in the order of their ids. *)
EXTENDS Naturals, Sequences, FiniteSets

Increasing(s) == \A i, j \in DOMAIN s : i < j => s[i] < s[j]

(* How many numbers of S are not above x. *)
Rank(S, x) == Cardinality({y \in S : y <= x})

(* The numbers in S, the smallest first. *)
Ascending(S) == [n \in 1..Cardinality(S) |-> CHOOSE x \in S : Rank(S, x) = n]

(* What is left of q at the positions in I, in the order of q. *)
Picked(q, I) ==
    LET at == Ascending(I) IN [n \in DOMAIN at |-> q[at[n]]]
===============================================================================
