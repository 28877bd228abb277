SPECIFICATION Spec
CONSTANTS
    Subs = {s1, s2}
    Threads = {host, w1}
    Host = host
    NoOne = noOne
    MaxWrites = 3
    MaxHandles = 2
SYMMETRY Symmetry
INVARIANTS
    TypeOK
    LiveSubscribersAttached
    NoLostUpdate
PROPERTY ImplementsWatch
\* Every handle may be dropped and the writes bounded: the system may stop.
CHECK_DEADLOCK FALSE
