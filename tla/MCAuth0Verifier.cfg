\* Two keys, two verifications and up to three editions.
CONSTANTS
  old = old
  new = new
  Key = {old, new}
  first = first
  second = second
  Verification = {first, second}
  Tokens <- MCTokens
  Signal = {"SIGTERM"}
  Edition <- MCEdition
  Editions = 3
  MaxBytes <- MCMaxBytes
SPECIFICATION FairSpec
CHECK_DEADLOCK FALSE
INVARIANTS
  FailsClosed
  WithdrawnKeysFade
  RotationIsSeen
PROPERTIES
  WaitsEnd
