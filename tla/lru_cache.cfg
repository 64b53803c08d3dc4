SPECIFICATION CacheSpec
CONSTANTS
  k1 = k1  k2 = k2  k3 = k3  k4 = k4
  small = small  large = large  huge = huge
  Missing = Missing  Tomb = Tomb
  Keys = {k1, k2, k3, k4}
  Values = {small, large, huge}
  CacheBytes <- Sizes
  CacheCap = 5
INVARIANTS CacheTypeOK CacheConsistent CacheBounded
PROPERTY EvictsFromTheBack
