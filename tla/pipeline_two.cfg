SPECIFICATION Spec
CONSTANTS
  m1 = m1  m2 = m2  m3 = m3
  p1 = p1  p2 = p2
  logs = logs  anomalies = anomalies
  NoFile = NoFile  Torn = Torn  None = None
  Msgs = {m1, m2, m3}
  Keys = {1, 2, 3}
  KeysOf <- OwnKeys
  Malformed = {m3}
  Anomalous = {m2}
  Processors = {p1, p2}
  Readers = {}
  Prefix <- Prefixes
  Limit <- TightLimits
  MaxRetries = 2
  MaxDrops = 0
  MaxCrashes = 2
  MaxIOFaults = 1
INVARIANTS IndInv NoRecordLost TornIsOwned
CHECK_DEADLOCK FALSE
