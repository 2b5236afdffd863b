SPECIFICATION FairSpec
CONSTANTS
    Workflows <- MCWorkflowIds
    Foreign = {}
    Operation = Operation
    MaxRetry = 1
    Documents <- MCAcyclic
    OpsCanFail = TRUE
    MaxCalls = 2
INVARIANTS
    TypeOK
    DependenciesFirst
    ExecutedIsCompleted
    OnceAsDependency
PROPERTIES
    CallReturns
CHECK_DEADLOCK FALSE
