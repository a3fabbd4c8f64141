\* A position that opens, moves its stop, closes and may reverse; one fault.
SPECIFICATION Spec
CONSTANTS
  OrderIds = {o1, o2, o3, o4, o5}
  MaxFills = 3
  MaxEntries = 1
  MaxFlattens = 0
  MaxFaults = 1
  MaxUpdates = 1
  StopLevels = 2
  MaxQuantity = 1
  EntrySides <- MCLong
INVARIANTS
  TypeOK
  ExitsOpposeRecord
  RecordedExitsPending
  EntryWhileFlat
PROPERTY ClosedIsResolved
