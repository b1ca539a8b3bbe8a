CONSTANTS
  k1 = k1
  k2 = k2
  s1 = s1
  s2 = s2
  Keys = {k1, k2}
  NoKey = NoKey
  Legacy = {NoKey, k1}
  InitialStanding <- OneValidOneDenied
  Slots = {s1, s2}
  PositiveTTL = 2
  NegativeTTL = 1
  CacheMax = 1
  MaxCalls = 1
  Window = 2
  BucketMax = 1
  PruneMax = 1
  MaxTime = 2
  MaxRequests = 3
  MaxChanges = 1
  MaxFailures = 1
SPECIFICATION Spec
SYMMETRY Interchangeable
CHECK_DEADLOCK FALSE
INVARIANTS
  TypeOK
  VerdictFresh
  RateLimited
  BilledOnce
