SPECIFICATION Spec
CONSTANTS
  k1 = k1  k2 = k2  small = small  large = large
  Missing = Missing  Tomb = Tomb  TornTable = TornTable
  Keys = {k1}
  Values = {small}
  EntryBytes <- EntrySizes
  FlushAt = 1
  Level0Max = 4
  MaxTables = 12
  MaxWrites = 11
  MaxMishaps = 0
INVARIANT NewestTableAnswers
