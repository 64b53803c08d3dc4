SPECIFICATION Spec
CONSTANTS
  m1 = m1  m2 = m2  m3 = m3
  p1 = p1  p2 = p2
  logs = logs  anomalies = anomalies
  NoFile = NoFile  Torn = Torn  None = None
  Msgs = {m1, m2}
  Keys = {1, 2}
  KeysOf <- OwnKeys
  Malformed = {}
  Anomalous = {m2}
  Processors = {p1, p2}
  Readers = {}
  Prefix <- Prefixes
  Limit <- TightLimits
  MaxRetries = 2
  MaxDrops = 1
  MaxCrashes = 1
  MaxIOFaults = 0
INVARIANT EveryRecordSurvives
CHECK_DEADLOCK FALSE
