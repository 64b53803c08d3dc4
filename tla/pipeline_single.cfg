SPECIFICATION Spec
CONSTANTS
  m1 = m1  m2 = m2  m3 = m3
  p1 = p1  p2 = p2
  logs = logs  anomalies = anomalies
  NoFile = NoFile  Torn = Torn  None = None
  Msgs = {m1, m2, m3}
  Keys = {1, 2, 3, 4}
  KeysOf <- ClockKeys
  Malformed = {m3}
  Anomalous = {m1, m2}
  Processors = {p1}
  Readers = {}
  Prefix <- Prefixes
  Limit <- TightLimits
  MaxRetries = 2
  MaxDrops = 2
  MaxCrashes = 1
  MaxIOFaults = 2
INVARIANTS IndInv NoRecordLost TornIsOwned TornCostsFault
PROPERTY LedgerSpec
CHECK_DEADLOCK FALSE
