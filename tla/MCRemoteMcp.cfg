\* Two concurrent requests and a shutdown at any moment.
CONSTANTS
  first = first
  second = second
  operator = operator
  viewer = viewer
  stranger = stranger
  home = home
  lab = lab
  Request = {first, second}
  Principal = {operator, viewer, stranger}
  Alias = {home, lab}
  Policy <- MCPolicy
  MaxBody = 2
  Arrivals <- MCArrivals
SPECIFICATION FairSpec
CHECK_DEADLOCK FALSE
INVARIANTS
  OnlyAuthorised
  RefusalIsFinal
  NothingForTheGone
  Passage
PROPERTIES
  HandlersEnd
  
