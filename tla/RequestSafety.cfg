SPECIFICATION Spec
CONSTANTS
  r1 = r1
  r2 = r2
  d1 = d1
  d2 = d2
  Requests <- OneRequest
  Dbs <- TwoDbs
  Dist <- DistDb
  Replicas = 2
  MaxGen = 3
  MaxFaults = 1
  MaxCrashes = 1
  MaxRelists = 1
  MaxRecreates = 1
CONSTRAINT OneUpset
CHECK_DEADLOCK FALSE
INVARIANTS
  TypeOK
  Provisioned
  Deprovisioned
  MasterPruned
  NoDanglingWorker
