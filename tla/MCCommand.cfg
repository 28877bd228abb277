SPECIFICATION Spec
CONSTANTS
    a = a
    nothing = nothing
    Values <- MCValues
    Nothing = nothing
    Streams <- MCStreams
    MaxSize = 3
INVARIANTS
    OutputsAsPromised
    MonadicThen
\* The commands built are bounded.
CHECK_DEADLOCK FALSE
