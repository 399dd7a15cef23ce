SPECIFICATION SurrealFairSpec
CONSTANTS
  Version = {a, b}
  Timestamp = {s, t}
  Request = {r1, r2, r3}
  Attempts = 2
  ResponseLost = TRUE
  NoRecord = NoRecord
  NamedOfBoth = {"imageVersion", "imageTimestamp"}
INVARIANTS
  CreatorsAreNotRefused
PROPERTIES
  SurrealImplementsRegistry
  EveryRequestAnswered
