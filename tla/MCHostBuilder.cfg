SPECIFICATION Spec
CONSTANTS
    States = {db}
    MaxInterceptors = 1
    BufferSizes = {0, 1}
    DefaultBufferSize = 64
INVARIANT BuildsWithModel
\* A builder is used once.
CHECK_DEADLOCK FALSE
