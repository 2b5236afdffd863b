CONSTANTS
    Operations <- MCOperations
    Tokens = {"t"}
    MaxCalls = 3
SPECIFICATION Spec
INVARIANT SendsOwnMethod
\* After MaxCalls calls there is nothing to do.
CHECK_DEADLOCK FALSE
