SPECIFICATION Spec
CONSTANTS
  t1 = t1  t2 = t2
  a = a  b = b  c = c
  Tasks = {t1, t2}
  Dests = {d1}
  SNI = {a, b, c}
  FallbackSni = fallback
  EpochLen = 1
  MaxEpoch = 2
  KeyedEpochSubset <- MCSubset
  StickyTtl = 1
  MinTtl = 1
  MaxTtl = 2
  Ttls = {0, 3}
  TunnelConfigured = TRUE
  MaxClock = 2
  None = None
SYMMETRY TaskSymmetry
INVARIANTS
  TypeOK
  PoolFollowsEpochUnlessRaced
  WarmIsBackedByLookup
PROPERTIES
  PicksFromLivePool
  StickyUntilDue
