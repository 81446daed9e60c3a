SPECIFICATION FairSpec
CONSTANTS
  Names = {n1}
  NCallbacks = 2
  NoUrl = {2}
  MaxUids = 1
  MaxVersion = 4
  MaxUpsets = 2
CONSTRAINT FewUpsets
CHECK_DEADLOCK FALSE
INVARIANTS
  NothingAfterDeleted
  NoDuplicates
PROPERTIES
  EveryCallbackInitialized
