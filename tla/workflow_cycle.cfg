SPECIFICATION FairSpec
CONSTANTS
    Workflows <- MCWorkflows
    Foreign = {"other"}
    MaxDeps = 2
INVARIANTS
    TypeOK
    AnswerIsRight
    DepthIsBounded
PROPERTIES
    Ends
CHECK_DEADLOCK FALSE
