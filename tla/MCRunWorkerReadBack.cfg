SPECIFICATION Spec
CONSTANTS
  Owners = {o1}
  NoOwner = NoOwner
  Runs = {1}
  Workers = {w1}
  Readers = {c1}
  Formats = {"json", "markdown"}
  OwnerOf <- MCOwnerOf
  MaxCrashes = 0
  MaxErrors = 0
  MaxReadBackErrors = 1
  MaxOverruns = 0
INVARIANT
  ReportsComplete
CHECK_DEADLOCK FALSE
