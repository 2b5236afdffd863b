SPECIFICATION FairSpec
CONSTANTS
    Base = {b}
    Dynamic = {d}
    Jobs = {c1, c2}
    None = None
    Terminals = {sh}
    Runners <- MCRunners
    Requests <- MCRequests
    Invocations <- MCInvocations
    MaxRequests = 2
    MaxCount = 2
    MaxFaults = 1
INVARIANTS
    ServiceTypeOK
    IdleIsCounted
    NoLostWakeup
    NothingLeft
    FilesAreComplete
    PromptIsAnswered
PROPERTIES
    ServesInOrder
    OkMeansDone
    ConnectionsEnd
    StopReturns
