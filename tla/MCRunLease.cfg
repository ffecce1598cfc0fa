SPECIFICATION Spec
CONSTANTS
  Owners = {o1}
  NoOwner = NoOwner
  Runs = {1}
  Workers = {w1, w2}
  Clients = {c1}
  OwnerOf <- MCOwnerOf
  LeaseTimes = {1, 2}
  RowLocking = TRUE
  MaxLag = 1
  MaxClock = 4
  MaxToken = 3
INVARIANTS
  TypeOK
  RowWellFormed
  SingleHolder
  NoEarlySteal
  AcksHold
  OneVerdict
  CompletedByOneAttempt
PROPERTY
  ImplementsLifecycle
CHECK_DEADLOCK FALSE
SYMMETRY MCSymmetry
