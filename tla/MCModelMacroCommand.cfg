SPECIFICATION Spec
CONSTANTS
    Model <- UserModel
    Methods <- MCShapes
    ModelArgs <- MCPlainArgs
    Unnamed = unnamed
    MaxMethods = 2
INVARIANT CommandsCanBeReturned
\* The macro is done with an impl block.
CHECK_DEADLOCK FALSE
