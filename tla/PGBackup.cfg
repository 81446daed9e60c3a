SPECIFICATION Spec
CONSTANTS
  b1 = b1
  b2 = b2
  Backups <- TwoBackups
  MaxUids = 2
  MaxJobs = 2
  MaxFaults = 1
  MaxCrashes = 1
  MaxBackoffs = 1
SYMMETRY Names
CHECK_DEADLOCK FALSE
INVARIANTS
  BackupsSound
  RejectedNeverRan
PROPERTIES
  FinishedIsFinal
