---- MODULE MCDurableSessions ----
EXTENDS DurableSessions, TLC

\* Workers are alike, requests and sessions.
MCCallers == Requests \cup (Workers \X Sessions) \cup {Admin}
Alike == Permutations(Workers) \cup Permutations(Requests) \cup Permutations(Sessions)
\* Each registry is explored with the failures the others leave out.
MCBound ==
    LET B(o, u, f, x, a) == [opens |-> o, uses |-> u, faults |-> f, stops |-> x, ages |-> a]
    IN  [b \in Backends |-> CASE b = "sqlite"   -> {B(1, 2, 0, 1, 0), B(1, 1, 0, 1, 1)}
                              [] b = "postgres" -> {B(1, 2, 1, 0, 0), B(2, 1, 0, 0, 1)}
                              [] b = "redis"    -> {B(1, 2, 0, 0, 0), B(1, 1, 1, 0, 1)}]
====
