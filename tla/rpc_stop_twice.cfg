SPECIFICATION Spec
CONSTANTS
    Base = {b}
    Dynamic = {d}
    Jobs = {c1, c2}
    None = None
    Terminals = {}
    Runners <- MCRunners
    Requests <- MCRequests
    Invocations <- MCInvocations
    MaxRequests = 2
    MaxCount = 2
    MaxFaults = 0
PROPERTIES
    StopFindsSocket
