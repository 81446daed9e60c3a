SPECIFICATION FairSpec
CONSTANTS
  Users = {1, 2}
  Index = {255, 1023, 4096}
  MaxUsers = 1000
  MaxChanges = 3
  MaxFaults = 1
CHECK_DEADLOCK FALSE
INVARIANTS
  QuietMeansRight
PROPERTIES
  NoLostEdit
  EventuallyFresh
