SPECIFICATION RFairSpec
CONSTANTS
  b1 = b1
  s1 = s1
  s2 = s2
  Backups <- OneBackup
  Restores <- OneRestore
  MaxUids = 1
  MaxJobs = 3
  MaxFaults = 0
  MaxCrashes = 1
  MaxBackoffs = 1
  MaxRJobs = 2
  MaxRFaults = 1
CONSTRAINT OneUpset
CHECK_DEADLOCK FALSE
INVARIANTS
  RestoreSound
PROPERTIES
  EveryOutcomeComes
