SPECIFICATION Spec
CONSTANTS
  t1 = t1
  t2 = t2
  Rpc = Rpc
  None = None
  Timer = {t1, t2}
  BlockTime = {1, 2}
  Default = 1
  SpawnMayFail = TRUE
INVARIANTS
  OneTimer
  TimerMatchesConfig
PROPERTIES
  TickIsCurrent
  RequestReturns
CHECK_DEADLOCK FALSE
