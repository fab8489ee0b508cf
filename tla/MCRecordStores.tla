---- MODULE MCRecordStores ----
EXTENDS RecordStores

\* The flusher is explored for itself over a store that may take anything; each store of
\* records with a lifespan that starts once, Redis with what may overlap a call of it.
MCBound ==
    LET B(r, s, c, f, t, l, p) == [records |-> r, starts |-> s, closes |-> c, faults |-> f,
                                   ticks |-> t, lists |-> l, purges |-> p]
    IN  [b \in Backends |->
            CASE b = "other" -> {B(4, 2, 1, 2, 0, 0, 0)}
              [] b = "redis" -> {B(3, 1, 0, 0, 2, 1, 0), B(2, 1, 0, 0, 2, 1, 1), B(1, 1, 0, 0, 3, 1, 1), B(2, 1, 0, 0, 1, 2, 0), B(3, 1, 0, 0, 0, 1, 1), B(4, 1, 0, 0, 0, 1, 0)}
              [] OTHER       -> {B(3, 1, 1, 0, 1, 1, 1)}]
====
