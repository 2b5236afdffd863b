SPECIFICATION Spec
CONSTANTS
    MaxTokens = 13
    MaxDepth = 4
INVARIANTS
    SeparatorsAreRight
PROPERTIES
    WritesJson
CHECK_DEADLOCK FALSE
