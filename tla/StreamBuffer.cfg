\* Two clients, each connecting twice, on a window of one event.
SPECIFICATION FairSpec
CONSTANTS
    Consumers = {c1, c2}
    MaxLen = 1
    MaxId = 3
    MaxConnects = 2
INVARIANTS
    TypeOK
    OnceInOrder
    NoSkipWithinWindow
PROPERTIES
    EveryoneReleased
\* An ended stream whose clients have used up their connections stops.
CHECK_DEADLOCK FALSE
