SPECIFICATION Spec
CONSTANTS
    Workflows <- MCWorkflowIds
    Foreign = {}
    Operation = Operation
    MaxRetry = 1
    Documents <- MCMixed
    OpsCanFail = FALSE
    MaxCalls = 2
INVARIANTS
    NoReentry
CHECK_DEADLOCK FALSE
