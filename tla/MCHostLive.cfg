SPECIFICATION FairSpec
CONSTANTS
    name = name
    age = age
    Signals <- MCOneSignal
    Getters <- MCOneGetter
    Interceptors = 1
    Readers = {r}
    MaxMessages = 2
    MaxWrites = 1
    Poisoning = TRUE
    NoCommand = noCommand
PROPERTIES
    UpdatesReachSubscribers
    AcceptedIsHandled
    CommandsEnd
\* The messages are bounded and the host may die: the system may stop.
CHECK_DEADLOCK FALSE
