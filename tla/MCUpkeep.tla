---- MODULE MCUpkeep ----
EXTENDS Upkeep

\* Per job: stores, forks, faults and replays explored.
MCBound ==
    LET B(s, f, x, r) == [stores |-> s, forks |-> f, faults |-> x, reads |-> r]
    IN  [j \in Jobs |->
            CASE j \in {"archive", "purge"} -> B(4, 0, 2, 0)
              [] j = "resume"  -> B(3, 1, 0, 1)
              [] j \in {"strict", "lenient"} -> B(3, 0, 2, 0)
              [] j \in {"migrate", "dump"}  -> B(4, 1, 2, 0)]
\* One archiver beside a reader, two where they are looked at for themselves.
MCCrew == [j \in Jobs |-> CASE j = "archive" -> Archivers [] j = "resume" -> {"a1"} [] OTHER -> {}]
====
