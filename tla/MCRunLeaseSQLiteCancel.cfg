SPECIFICATION Spec
CONSTANTS
  Owners = {o1}
  NoOwner = NoOwner
  Runs = {1}
  Workers = {w1}
  Clients = {c1}
  OwnerOf <- MCOwnerOf
  LeaseTimes = {1}
  RowLocking = FALSE
  MaxLag = 1
  MaxClock = 3
  MaxToken = 2
INVARIANT
  AcksHold
CHECK_DEADLOCK FALSE
