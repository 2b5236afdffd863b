\* The calls of a workflow's caller: two replacements in either payload, and
\* every template, pattern, condition and address of the small sets.  A caller
\* may make no further call.
SPECIFICATION Spec
CHECK_DEADLOCK FALSE
CONSTANTS
  Payloads <- MCPayloads
  Usual <- MCUsual
  Targets <- MCTargets
  Values <- MCValues
  Templates <- MCTemplates
  Patterns <- MCPatterns
  Subjects <- MCSubjects
  Conditions <- MCConditions
  Givens <- MCGivens
  Criteria <- MCCriteria
  Paths <- MCPaths
  MaxReplacements = 2
INVARIANTS AddressesAgree TemplatesAgree RegexIsRight SimpleIsRight
PROPERTY ReplaceIsLocal
