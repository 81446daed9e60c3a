SPECIFICATION FairSpec
CONSTANTS
  b1 = b1
  r1 = r1
  Backups <- OneBackup
  Restores <- OneRestore
  MaxUids = 2
  MaxWrites = 2
  MaxFaults = 1
  MaxCrashes = 1
CONSTRAINT OneUpset
CHECK_DEADLOCK FALSE
INVARIANTS
  TypeOK
  DataNotLost
PROPERTIES
  ImplementsDataDir
  ReadyMeansSaved
  EventuallyDone
