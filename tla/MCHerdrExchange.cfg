\* One call, every answer, every order of the handlers.
CONSTANTS
  Answer <- AllAnswers
SPECIFICATION Spec
CHECK_DEADLOCK FALSE
INVARIANTS
  Released
  Provenance
PROPERTIES
  KeepsThePromise
