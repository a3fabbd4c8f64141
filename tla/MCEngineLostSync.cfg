\* No fault, no lost message.
SPECIFICATION Spec
CONSTANTS
  OrderIds = {o1, o2, o3, o4, o5}
  MaxFills = 3
  MaxEntries = 1
  MaxFlattens = 1
  MaxFaults = 0
  MaxUpdates = 1
  StopLevels = 2
  MaxQuantity = 1
  EntrySides <- MCLong
INVARIANTS
  PositionEventRequestsSync
