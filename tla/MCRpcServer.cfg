SPECIFICATION Spec
CONSTANTS
  c1 = c1
  c2 = c2
  c3 = c3
  Waker = Waker
  None = None
  Client = {c1, c2, c3}
  MaxActive = 2
  MaxRequests = 2
  SpawnMayFail = TRUE
INVARIANTS
  SlotsBalance
  StoppedIsQuiet
PROPERTIES
  StopReturns
  WaitingClientIsReached
CHECK_DEADLOCK FALSE
