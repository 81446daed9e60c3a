SPECIFICATION FairSpec
CONSTANTS
  r1 = r1
  r2 = r2
  d1 = d1
  d2 = d2
  Requests <- OneRequest
  Dbs <- OneDb
  Dist <- DistDb
  Replicas = 2
  MaxGen = 3
  MaxFaults = 1
  MaxCrashes = 1
  MaxRelists = 0
  MaxRecreates = 0
CHECK_DEADLOCK FALSE
PROPERTIES
  EventuallyQuiet
