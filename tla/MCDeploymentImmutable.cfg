\* One job at a time on one version; a job may be killed anywhere.
CONSTANTS
  Process = {p1, p2}
  Runtime = {old}
  NoRuntime = NoRuntime
  NoProcess = NoProcess
  Regimes <- AloneWithCrashes
SPECIFICATION Spec
CHECK_DEADLOCK FALSE
INVARIANTS
  ActiveIsImmutable
