SPECIFICATION FairSpec
CONSTANTS
    Updaters = {h, a, b}
    HostUpdater = h
    Buffers = {0, 1}
    MaxSends = 3
INVARIANTS
    BackpressureBound
    FifoPerUpdater
    AckedAccepted
    FailedNeverAccepted
PROPERTIES
    ImplementsMailbox
    EverySendEnds
\* Every updater may be dropped and the sends bounded: the system may stop.
CHECK_DEADLOCK FALSE
