SPECIFICATION Spec
CONSTANTS
  Owners = {o1}
  NoOwner = NoOwner
  Runs = {1, 2}
  Workers = {w1, w2}
  Readers = {c1}
  Formats = {"json", "markdown"}
  OwnerOf <- MCOwnerOf
  MaxCrashes = 1
  MaxErrors = 1
  MaxReadBackErrors = 0
  MaxOverruns = 1
INVARIANTS
  TypeOK
  ReportsComplete
  FilesAccounted
  ReaderFindsFile
  RetriesExplained
PROPERTIES
  OnlyItsAttemptSettles
  ImplementsLifecycle
CHECK_DEADLOCK FALSE
SYMMETRY MCSymmetry
