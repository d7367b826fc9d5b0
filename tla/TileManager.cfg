SPECIFICATION FairSpec
CONSTANTS
  ka = ka
  kb = kb
  kc = kc
  Keys = {ka, kb, kc}
  SourceOf <- MCSourceOf
  Sizes <- MCSizes
  MaxCacheBytes = 2
  MAX_CONCURRENCY = 2
  MAX_RETRIES = 2
  MaxRequests = 3
  MaxGenerations = 1
INVARIANTS
  SlotsExact
  CacheIsCurrent
PROPERTIES
  EveryRequestSettles
CHECK_DEADLOCK FALSE
