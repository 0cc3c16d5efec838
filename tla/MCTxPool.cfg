SPECIFICATION Spec
CONSTANTS
  s1 = s1
  s2 = s2
  NoFee = NoFee
  Nobody = Nobody
  Sender = {s1, s2}
  MaxNonce = 2
  Fee = {0, 1, 2}
  MaxPool = 4
  Offer <- MCOffer
INVARIANTS
  ReadyListIsRight
PROPERTIES
  PendingSurvivesMining
  ImplementsPoolSpec
CHECK_DEADLOCK FALSE
