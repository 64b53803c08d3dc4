SPECIFICATION FairSpec
CONSTANTS
  m1 = m1  m2 = m2  m3 = m3
  p1 = p1  p2 = p2
  logs = logs  anomalies = anomalies
  NoFile = NoFile  Torn = Torn  None = None
  Msgs = {m1, m2, m3}
  Keys = {1, 2, 3}
  KeysOf <- OwnKeys
  Malformed = {}
  Anomalous = {m1}
  Processors = {p1}
  Readers = {logs}
  Prefix <- Prefixes
  Limit <- TightLimits
  MaxRetries = 2
  MaxDrops = 2
  MaxCrashes = 1
  MaxIOFaults = 0
PROPERTIES EveryMessageKept 
