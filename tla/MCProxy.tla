---- MODULE MCProxy ----
EXTENDS Proxy

\* Clients are alike.
ClientSymmetry == Permutations(Clients)
\* The token of s1 was rotated from k1 to k2; s2 is of the new one alone.
MCAccepts == [s \in Sessions |-> IF s = "s1" THEN {"k1", "k2"} ELSE {"k2"}]
====
