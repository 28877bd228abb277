SPECIFICATION FairSpec
CONSTANTS
    Tasks = {s, t}
    States = {db, cache, absent}
    Added = {db, cache}
    NoAccess = none
    MaxThreads = 2
    MaxSteps = 2
INVARIANTS
    NoHalfWritten
    InTheWay
PROPERTY AccessEnds
\* The tasks end, or wait for one another.
CHECK_DEADLOCK FALSE
