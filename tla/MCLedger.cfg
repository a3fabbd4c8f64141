\* Three runs, three trades, two errors or crashes.
SPECIFICATION Spec
CONSTANTS
  Instants <- MCInstants
  SessionOffset <- MCSessionOffset
  Details = {d1, d2}
  NoTrade = NoTrade
  CaptureProvenance = TRUE
  MaxRuns = 3
  MaxTrades = 3
  MaxFaults = 2
INVARIANTS
  CountedOnce
  LiveTradesOnly
  EitherRecordSuffices
SYMMETRY MCSymmetry
CHECK_DEADLOCK FALSE
