SPECIFICATION Spec
CONSTANTS
    Model <- UserModel
    Methods <- MCMethods
    ModelArgs <- MCArgs
    Unnamed = unnamed
    MaxMethods = 2
INVARIANTS
    TypeOK
    AttributesArrive
    CallsReachTheirMethod
\* The macro is done with an impl block.
CHECK_DEADLOCK FALSE
