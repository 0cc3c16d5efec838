SPECIFICATION Spec
CONSTANTS
  genesis = genesis
  a1 = a1
  b2 = b2
  x3 = x3
  m1 = m1
  m2 = m2
  t = t
  u = u
  None = None
  Genesis = genesis
  Payload = {a1, b2, x3}
  Mined = {m1, m2}
  Parent <- MCParent
  Txs <- MCTxs
  Bad = {x3}
  Tx = {t, u}
  Unsigned = {u}
  MaxAncestors = 2
  Finality = {a1}
  MaxJobs = 1
  MaxPool = 1
  MaxReplay = 3
  MaxSnapshotHead <- MCMaxSnapshotHead
INVARIANT
  PayloadBuildsOnParent
