SPECIFICATION Spec
CONSTANTS
  PeriodLength = 6
  CommitteeSize = 3
  None = None
  Chains <- MCChains
  Starts = {5, 9}
  Checkpoints = {1, 3}
  Strict = TRUE
  MaxAge = 7
  Window = 3
  MaxLag = 2
  Behind = {0, 2}
  MaxIdle = 1
  MaxSlot = 16
INVARIANTS
  CommitteesMatch
  ReadsAgree
  ErrorHasCause
PROPERTIES
  NeverBackwards
  SyncSettles
CHECK_DEADLOCK FALSE
