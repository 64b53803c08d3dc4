SPECIFICATION Spec
CONSTANTS
  k1 = k1  k2 = k2  small = small  large = large
  Missing = Missing  Tomb = Tomb  TornRec = TornRec  TornTable = TornTable
  Keys = {k1, k2}
  Values = {small, large}
  CacheBytes <- CacheSizes
  EntryBytes <- EntrySizes
  CacheCap = 2
  MemLimit = 3
  MaxBatch = 2
  MaxTables = 5
  MaxWrites = 3
  MaxCrashes = 2
  MaxFaults = 1
INVARIANTS TypeOK KVInv CacheCoherent LogMirrorsMemtable MemSizeExact SearchedNewestFirst ScanAgreesWithGet
PROPERTIES TablesNeverOverwritten RecordedStays MapSpec
