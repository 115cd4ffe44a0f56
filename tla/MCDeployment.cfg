\* Three jobs on two versions, in all three regimes.
CONSTANTS
  Process = {p1, p2, p3}
  Runtime = {old, new}
  NoRuntime = NoRuntime
  NoProcess = NoProcess
  Regimes <- AllRegimes
SYMMETRY RuntimeSymmetry
SPECIFICATION Spec
CHECK_DEADLOCK FALSE
INVARIANTS
  ServedRemains
  QuietIsClean
  Custody
PROPERTIES
  OnlyTheCreatorRemoves
