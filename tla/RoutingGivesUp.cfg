SPECIFICATION Spec
CONSTANTS
  p1 = p1
  p2 = p2
  read = read
  other = other
  Providers = {p1, p2}
  Requests = {read, other}
  Mixes <- MCMixes
  Patient = {read}
  MaxRecords = 1
  MaxFaults = 1
CHECK_DEADLOCK FALSE
INVARIANTS
  GivesUpOnlyWhenAllTried
