SPECIFICATION RFairSpec
CONSTANTS
  a = a
  b = b
  c = c
  d = d
  p = p
  q = q
  T = {a, b, c, d}
  Sizes = {2}
  Peer = {p, q}
  pto = p
  Announces <- Announcing
  Sends <- Sending
  Prev <- Spends
  Invalid = {d}
  Large = {}
  Own = {a}
  Mined = {a}
  Fast = {c}
  MAX_ORPHAN_TRANSACTIONS = 2
  Retry = 1
  RelayTime = 1
  MaxTime = 2
  MaxRelays = 2
  NULL = NULL
INVARIANTS MruSetConsistent OrphanTxMapsAgree OrphanTxWait   ToldOnce 
PROPERTIES OwnAnnounced
CHECK_DEADLOCK FALSE
