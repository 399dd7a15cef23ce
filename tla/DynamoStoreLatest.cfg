SPECIFICATION Spec
CONSTANTS
  Version = {a, b}
  Timestamp <- OneSecond
  Request = {r1,r2}
  Attempts = 1
  ResponseLost = FALSE
  Contention = FALSE
  NoVersion = NoVersion
  NoTimestamp = NoTimestamp
INVARIANT LatestIsNewest
