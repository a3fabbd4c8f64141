SPECIFICATION Spec
CONSTANTS
  Pids = {p1, p2, p3}
  NoPid = NoPid
  Recognised <- MCAllRecognised
  MaxCommands = 3
  MaxKills = 1
  MaxOthers = 1
INVARIANTS
  PidFileNamesRuntime
  StopSaysTrue
PROPERTIES
  SignalsOnlyTraders
  OneRuntime
CHECK_DEADLOCK FALSE
SYMMETRY MCSymmetry
