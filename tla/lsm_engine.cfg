SPECIFICATION FairSpec
CONSTANTS
  k1 = k1  k2 = k2  small = small  large = large
  Missing = Missing  Tomb = Tomb  TornTable = TornTable
  Keys = {k1, k2}
  Values = {small, large}
  EntryBytes <- EntrySizes
  FlushAt = 2
  Level0Max = 0
  MaxTables = 8
  MaxWrites = 3
  MaxMishaps = 1
INVARIANTS EngineTypeOK EngineInv MemoryMatchesDisk
PROPERTIES RevivingMapSpec CloseReturns CompactionCatchesUp
