\* Lists of up to three agents; three spellings of the configured home.
\* Panes are interchangeable: no property names one.
CONSTANTS
  pane1 = pane1
  pane2 = pane2
  pane3 = pane3
  paneEmpty = paneEmpty
  firstmate = firstmate
  shell = shell
  home = home
  home2 = home2
  elsewhere = elsewhere
  relative = relative
  dirHome = dirHome
  dirElsewhere = dirElsewhere
  MaxAgents = 3
  Pane = {pane1, pane2, pane3, paneEmpty}
  EmptyPane = paneEmpty
  NoPane = NoPane
  Kind = {firstmate, shell}
  Spelling = {home, home2, elsewhere, relative}
  Directory = {dirHome, dirElsewhere}
  NoDirectory = NoDirectory
  Canonical <- MCCanonical
  Absent = Absent
  Session = {"herdr"}
  Configured <- MCConfigured
  Listable <- MCListable
SYMMETRY Symmetry
SPECIFICATION Spec
INVARIANTS
  OrderIsIrrelevant
  FoundWhereItWorks
PROPERTIES
  OthersNeverRedirect
