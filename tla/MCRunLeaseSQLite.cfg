SPECIFICATION Spec
CONSTANTS
  Owners = {o1}
  NoOwner = NoOwner
  Runs = {1, 2}
  Workers = {w1}
  Clients = {}
  OwnerOf <- MCOwnerOf
  LeaseTimes = {1}
  RowLocking = FALSE
  MaxLag = 1
  MaxClock = 3
  MaxToken = 2
PROPERTY
  ImplementsLifecycle
CHECK_DEADLOCK FALSE
