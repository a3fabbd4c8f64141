\* Two kinds of rows; one fault, one restart, one use of replay-missing.
SPECIFICATION FairSpec
CONSTANTS
  events = events
  account_trades = account_trades
  KindOrder <- MCKindOrder
  CursorKinds <- MCCursorKinds
  BatchLimit = 1
  DrainLimit = 2
  ReplayLimit = 2
  MaxRows <- MCMaxRows
  MaxFaults = 1
  MaxRestarts = 1
  MaxReplays = 1
INVARIANTS
  TypeOK
  RowsKept
PROPERTIES
  EveryRowArrives
