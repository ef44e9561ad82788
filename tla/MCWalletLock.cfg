SPECIFICATION FairSpec
CONSTANTS
  Timer = {t1, t2}
  Timeout = {1, 3}
  MaxTime = 6
  NULL = NULL
PROPERTIES
  WalletlockLocks
CHECK_DEADLOCK FALSE
