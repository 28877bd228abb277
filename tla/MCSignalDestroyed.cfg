SPECIFICATION Spec
CONSTANTS
    Subs = {s1}
    Threads = {host, w1}
    Host = host
    NoOne = noOne
    MaxWrites = 1
    MaxHandles = 2
INVARIANT DestroyedMeansDestroyed
\* Every handle may be dropped and the writes bounded: the system may stop.
CHECK_DEADLOCK FALSE
