CONSTANTS
    MaxTexts = 2
    Formats = {"code"}
SPECIFICATION Spec
INVARIANTS
    LosslessCode
CHECK_DEADLOCK FALSE
