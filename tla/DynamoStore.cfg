SPECIFICATION Spec
CONSTANTS
  Version = {a, b}
  Timestamp <- TwoSeconds
  Request = {r1, r2, r3}
  Attempts = 2
  ResponseLost = TRUE
  Contention = TRUE
  NoVersion = NoVersion
  NoTimestamp = NoTimestamp
INVARIANTS
  ItemsAgree
PROPERTIES
  ImplementsRegistry
