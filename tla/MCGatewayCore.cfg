\* Two operations of any of two kinds, one session, the world changes twice.
CONSTANTS
  op1 = op1
  op2 = op2
  pane1 = pane1
  pane2 = pane2
  paneEmpty = paneEmpty
  firstmate = firstmate
  shell = shell
  home = home
  home2 = home2
  elsewhere = elsewhere
  relative = relative
  dirHome = dirHome
  dirElsewhere = dirElsewhere
  one = one
  two = two
  herdr = herdr
  Op = {op1, op2}
  Alias = {one, two}
  Session = {herdr}
  Pane = {pane1, pane2, paneEmpty}
  EmptyPane = paneEmpty
  NoPane = NoPane
  Kind = {firstmate, shell}
  Spelling = {home, home2, elsewhere, relative}
  Directory = {dirHome, dirElsewhere}
  NoDirectory = NoDirectory
  Canonical <- MCCanonical
  Absent = Absent
  Config <- MCConfig
  MissingConfig = MissingConfig
  InvalidConfig = InvalidConfig
  NotConfigured = NotConfigured
  AgentList <- MCAgentList
  RemoteCode <- MCRemoteCode
  MayHaveTyped <- MCMayHaveTyped
  Request <- MCRequest
  HasProvider = {one}
  MaxChanges = 2
SYMMETRY OpSymmetry
SPECIFICATION Spec
CHECK_DEADLOCK FALSE
INVARIANTS
  AnswersAreHonest
  AtMostOnce
  MisdeliveryNeedsARace
PROPERTIES
  ImplementsPromptDelivery
