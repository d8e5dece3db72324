SPECIFICATION FairSpec
CONSTANTS
  Thread = {t1, t2}
  Nobody = nobody
  Frame = {f1, f2}
  Texts = {x1}
  Warm = warm
  Refused = refused
  Failed = failed
  Config <- MCConfigs
  CacheEntries = 1
  MaxWorker = 2
  MaxTimer = 2
  MaxCalls = 2
INVARIANTS
  OwnAnswers
PROPERTIES
  CallsEnd
  WorkerReleased
  ExpiryIsIdle
CHECK_DEADLOCK FALSE
