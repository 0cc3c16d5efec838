SPECIFICATION Spec
CONSTANTS
  s1 = s1
  s2 = s2
  None = None
  NoFee = NoFee
  Nobody = Nobody
  Fee = {0, 1, 2}
  MaxNonce = 2
  Sender = {s1}
  Envelopes = {}
  Times = {1, 4}
  Intervals = {0, 2}
  BlockTimes = {0, 3}
  Counts = {1, 2}
  ModeInputs = {"manual", "interval"}
  NonceInputs = {1}
  DefaultMode = "manual"
  BuildMayFail = FALSE
  MaxBlocks = 3
  MaxSnapshot = 2
INVARIANTS
  SnapshotsArePrefixes
  TimestampsIncrease
  FeeMatchesHead
PROPERTIES
  TimestampFollowsPrecedence
CHECK_DEADLOCK FALSE
