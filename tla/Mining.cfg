SPECIFICATION Spec
CONSTANTS
  s1 = s1
  s2 = s2
  None = None
  NoFee = NoFee
  Nobody = Nobody
  Fee = {0, 1, 2}
  MaxNonce = 2
  Sender = {s1, s2}
  Envelopes <- MCTwoSenders
  Times = {1}
  Intervals = {}
  BlockTimes = {0}
  Counts = {1, 2}
  ModeInputs = {"manual"}
  NonceInputs = {}
  DefaultMode = "auto"
  BuildMayFail = TRUE
  MaxBlocks = 3
  MaxSnapshot = 1
INVARIANTS
  NoncesAgree
PROPERTIES
  ExecutableIsReady
  SealTakesOnlyMined
  ImplementsDevChain
CHECK_DEADLOCK FALSE
