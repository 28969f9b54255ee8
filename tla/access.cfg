SPECIFICATION Spec
CONSTANTS
  Attempts = {a1, a2}
  MaxFailures = 2
  Requests = {r1, r2}
  MaxLogins = 1
  MaxTokens = 1
CONSTRAINT SigningInOrUsing
SYMMETRY Alike
INVARIANTS
  TypeOK
  DoneOnce
  FailuresAreBounded
PROPERTIES
  RevokedStaysOut
