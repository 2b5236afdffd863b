SPECIFICATION Spec
CONSTANTS
    TypeNames = {"Pet", "ApiClientConfig"}
    Shapes = {"s1", "s2"}
    Ops = {"get_pet", "login"}
    StandardOps = {"get_pet", "login"}
    Infos = {"generated", "mine"}
    DefaultInfo = "generated"
    CodeFiles = {"pets.hpp"}
    HandFiles = {"src/client.cpp"}
    ScanOrders <- MCScanOrders
    Helpers <- MCHelpers
    HelperShape = "s1"
    AuthOps = {"login"}
    BackRefs = {"ApiClientConfig"}
    Absent = Absent
    Garbage = Garbage
    MaxWraps = 2
    MaxSyncs = 4
    MaxEdits = 2
    MaxFaults = 1
    MaxEvents = 6
INVARIANTS
    TypeOK
    DocumentKept
    CodeTypesPublished
    SdkMatchesDocument
    Settles
PROPERTIES
    ReplacesAtOnce
CHECK_DEADLOCK FALSE
