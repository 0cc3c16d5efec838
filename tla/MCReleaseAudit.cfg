SPECIFICATION AuditSpec
CONSTANTS
  NoCode = NoCode
  Arg <- MCArg
  Facts <- MCFacts
  Absent <- MCAbsent
INVARIANTS
  VerdictIsRight
PROPERTIES
  AuditEnds
CHECK_DEADLOCK FALSE
