SPECIFICATION Spec
CONSTANTS
  k1 = k1  k2 = k2  small = small  large = large
  Missing = Missing  Tomb = Tomb  TornRec = TornRec  TornTable = TornTable
  Keys = {k1, k2}
  Values = {small}
  CacheBytes <- CacheSizes
  EntryBytes <- EntrySizes
  CacheCap = 2
  MemLimit = 9
  MaxBatch = 1
  MaxTables = 4
  MaxWrites = 2
  MaxCrashes = 2
  MaxFaults = 0
INVARIANT LogRecoversMemtable
