\* An open position, a moved stop, a flatten that need not fill; one fault.
SPECIFICATION FairSpec
CONSTANTS
  OrderIds = {o1, o2, o3, o4}
  MaxFills = 1
  MaxEntries = 1
  MaxFlattens = 1
  MaxFaults = 1
  MaxUpdates = 1
  StopLevels = 2
  MaxQuantity = 1
  EntrySides <- MCLong
PROPERTIES
  UnprotectedIsCaught
