SPECIFICATION Spec
CONSTANTS
  o1 = o1
  o2 = o2
  OsOrder <- MCOsOrder
  Runs = {r1, r2}
  NoRow = NoRow
  MaxRelease = 2
  MaxPk = 2
  MaxFaults = 1
  MaxRequests = 2
PROPERTY EnabledIsDispatched
CHECK_DEADLOCK FALSE
