SPECIFICATION Spec
CONSTANTS
  k1 = k1  k2 = k2  small = small  large = large
  Missing = Missing  Tomb = Tomb  TornTable = TornTable
  Keys = {k1}
  Values = {small, large}
  EntryBytes <- EntrySizes
  FlushAt = 2
  Level0Max = 1
  MaxTables = 8
  MaxWrites = 3
  MaxMishaps = 0
PROPERTY RemovedStaysRemoved
