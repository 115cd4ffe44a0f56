\* Up to three processes; a prompt of up to two bytes, an example of two pieces.
CONSTANTS
  first = first
  second = second
  third = third
  Process = {first, second, third}
  Text = {"", "raw", "semantic", "recent", "home", "0"}
  ReadSource = {"recent"}
  Count = {"0"}
  OutOfRange = {"0"}
  Invocations <- MCInvocations
  Limit = 2
  Chunk = 2
  Pieces = 2
SPECIFICATION FairSpec
CHECK_DEADLOCK FALSE
INVARIANTS
  PromptIsTheSource
  ExitsTellTheTruth
  OptionsCommute
PROPERTIES
  ReplacedOnlyByForce
  EveryCommandExits
