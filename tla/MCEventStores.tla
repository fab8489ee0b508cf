---- MODULE MCEventStores ----
EXTENDS EventStores, TLC

\* Streams are alike.
StreamSymmetry == Permutations(Streams)

\* One writer's store is bound to a tenant, the other's to none.
MCTenantOf == [w \in Writers |-> IF w = "w1" THEN "acme" ELSE NoTenant]
\* SQLite's write-behind is explored with more stores and faults, and without readers: its
\* reads are those of the mode that commits every event.  There one fault, fork, store or read
\* fewer than Postgres has are combined: the two share the replay.
MCBound ==
    LET B(s, f, x, r, n) == [stores |-> s, forks |-> f, faults |-> x, reads |-> r, all |-> n]
    IN  [b \in Backends |->
            CASE b = "sqlite"   -> B(2, 1, 1, 1, 4)
              [] b = "behind"   -> B(3, 0, 2, 0, 5)
              [] b = "script"   -> B(2, 2, 1, 1, 6)
              [] b = "pipe"     -> B(3, 0, 1, 1, 5)
              [] b = "postgres" -> B(2, 1, 1, 1, 5)]
\* For the two runs that find a violation: one mode of SQLite each.
MCCrashBound == [b \in Backends |-> [stores |-> 2, forks |-> 0, faults |-> 1, reads |-> 0, all |-> 3]]
MCNestBound == [b \in Backends |-> [stores |-> 2, forks |-> 2, faults |-> 0, reads |-> 1, all |-> 5]]
====
