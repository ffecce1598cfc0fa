SPECIFICATION FairSpec
CONSTANTS
  Owners = {o1}
  NoOwner = NoOwner
  Runs = {1, 2}
  Workers = {w1, w2}
  Readers = {}
  Formats = {"json"}
  OwnerOf <- MCOwnerOf
  MaxCrashes = 1
  MaxErrors = 1
  MaxReadBackErrors = 1
  MaxOverruns = 1
PROPERTY
  EveryRunEnds
CHECK_DEADLOCK FALSE
