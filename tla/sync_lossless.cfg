SPECIFICATION Spec
CONSTANTS
    TypeNames = {"Node", "ApiClientConfig"}
    Shapes = {"s1", "s2"}
    Ops = {"get_pet", "login"}
    StandardOps = {"get_pet", "login"}
    Infos = {"generated", "mine"}
    DefaultInfo = "generated"
    CodeFiles = {"pets.hpp"}
    HandFiles = {"src/client.cpp"}
    ScanOrders <- MCScanOrders
    Helpers <- MCHelpers
    HelperShape = "s1"
    AuthOps = {"login"}
    BackRefs = {"Node", "ApiClientConfig"}
    Absent = Absent
    Garbage = Garbage
    MaxWraps = 2
    MaxSyncs = 2
    MaxEdits = 1
    MaxFaults = 0
    MaxEvents = 4
INVARIANTS
    RepeatIsLossless
CHECK_DEADLOCK FALSE
