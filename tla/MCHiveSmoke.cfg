SPECIFICATION Spec
CONSTANTS
  r1 = r1
  r2 = r2
  old = old
  new = new
  User = User
  None = None
  Run = {r1, r2}
  Checkout <- MCCheckout
  Report = {"error", "no counts", "none ran", "some failed", "all passed"}
  PipeSize = 1
INVARIANTS
  EndsClean
  PassIsEarned
PROPERTIES
  ForeignKept
  RunEnds
CHECK_DEADLOCK FALSE
