SPECIFICATION FairSpec
CONSTANTS
  Admins = {1, 2}
  Secrets = {2}
  d1 = d1
  d2 = d2
  n1 = n1
  Dbs <- TwoDbs
  OwnDbs <- SecondDb
  RawName <- FirstIsRawName
  MaxReplicas = 3
  MaxChanges = 3
  MaxFaults = 1
  MaxRestarts = 1
CONSTRAINT OneConcern
CHECK_DEADLOCK FALSE
INVARIANTS
  
  ClusterSound
PROPERTIES
  EventuallyGood
