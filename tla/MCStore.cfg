\* Two threads record, flush and stop, two workers may live; one statement fails.
SPECIFICATION FairSpec
CONSTANTS
  Callers = {c1, c2}
  MainThread = c2
  Workers = {w1, w2}
  NoThread = NoThread
  QueueMax = 1
  BatchSize = 2
  MaxRecords = 2
  MaxFaults = 1
  MaxStops = 1
INVARIANTS
  TypeOK
PROPERTIES
  LogKept
  EveryRecordWritten
CHECK_DEADLOCK FALSE
