SPECIFICATION Spec
CONSTANTS
    name = name
    age = age
    Signals <- MCSignals
    Getters <- MCGetters
    Interceptors = 1
    Readers = {r}
    MaxMessages = 2
    MaxWrites = 1
    Poisoning = TRUE
    NoCommand = noCommand
INVARIANTS
    TypeOK
    NoTornRead
    AnnouncedBeforeNext
PROPERTY ImplementsMvu
\* The messages are bounded and the host may die: the system may stop.
CHECK_DEADLOCK FALSE
