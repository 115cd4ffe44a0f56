\* Two jobs side by side on one version; any call may fail.
CONSTANTS
  Process = {p1, p2}
  Runtime = {old}
  NoRuntime = NoRuntime
  NoProcess = NoProcess
  Regimes <- TogetherWithFailures
SPECIFICATION Spec
CHECK_DEADLOCK FALSE
INVARIANTS
  InstalledRemains
