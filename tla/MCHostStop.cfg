SPECIFICATION Spec
CONSTANTS
    Updaters = {h, a}
    HostUpdater = h
    Buffers = {1}
    MaxSends = 1
INVARIANT StopsWhenUnused
\* Every updater may be dropped and the sends bounded: the system may stop.
CHECK_DEADLOCK FALSE
