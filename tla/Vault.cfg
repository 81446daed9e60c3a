SPECIFICATION FairSpec
CONSTANTS
  Users <- MCUsers
  Known <- MCKnown
  Names <- MCNames
  AppPerm <- MCAppPerm
  Keys = {k1}
  Reqs = {r1, r2}
  UniqueEmail = FALSE
  MaxRequests = 3
  MaxFaults = 1
CHECK_DEADLOCK FALSE
INVARIANTS
  WorkspacesSound
  AccountsSound
PROPERTIES
  EveryRequestReturns
