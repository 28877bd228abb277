SPECIFICATION Spec
CONSTANTS
    a = a
    nothing = nothing
    Values <- MCValues
    Nothing = nothing
    Streams <- MCStreams
    MaxSize = 2
INVARIANT PerformedOnceFinished
\* The commands built are bounded.
CHECK_DEADLOCK FALSE
