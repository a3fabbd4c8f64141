\* A position that opens and closes; one fault.
SPECIFICATION FairSpec
CONSTANTS
  OrderIds = {o1, o2, o3, o4}
  MaxFills = 2
  MaxEntries = 1
  MaxFlattens = 0
  MaxFaults = 1
  MaxUpdates = 1
  StopLevels = 1
  MaxQuantity = 1
  EntrySides <- MCLong
PROPERTIES
  CloseIsNoticed
  OrphansEnd
