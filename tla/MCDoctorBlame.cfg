\* One target, one upset.
CONSTANTS
  pane1 = pane1
  pane2 = pane2
  paneEmpty = paneEmpty
  firstmate = firstmate
  home = home
  home2 = home2
  elsewhere = elsewhere
  dirHome = dirHome
  dirElsewhere = dirElsewhere
  one = one
  two = two
  alpha = alpha
  beta = beta
  Pane = {pane1, pane2, paneEmpty}
  EmptyPane = paneEmpty
  NoPane = NoPane
  Kind = {firstmate}
  Spelling = {home, home2, elsewhere}
  Directory = {dirHome, dirElsewhere}
  NoDirectory = NoDirectory
  Canonical <- MCCanonical
  Absent = Absent
  Alias = {one, two}
  Session = {alpha}
  NotConfigured = NotConfigured
  Config <- OneTarget
  AgentList <- MCAgentList
  Nobody = Nobody
  MaxChanges = 0
  MaxUpsets = 1
SPECIFICATION Spec
CHECK_DEADLOCK FALSE
INVARIANTS
  IncompatibleWasHeard
