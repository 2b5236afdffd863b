CONSTANTS
    MaxTexts = 3
    Formats = {"openapi", "arazzo", "mcp", "code"}
SPECIFICATION Spec
INVARIANTS
    CodeAgrees
    WrittenIsAccepted
    TextsSettle
    KeepsValues
    DuplicatesAgree
    SameService
    GeneratedAgree
\* After MaxTexts texts, or a text that was refused, there is nothing to do.
CHECK_DEADLOCK FALSE
