SPECIFICATION FairEventsSpec
CONSTANTS
  NUsers = 2
  LastCallback = 2
  MaxItems = 2
  MaxErrors = 1
  MaxCrashes = 1
  MaxHours = 1
CHECK_DEADLOCK FALSE
INVARIANTS
  EventsSound
  DoneMeansTold
PROPERTIES
  EveryItemFinishes
