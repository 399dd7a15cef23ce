SPECIFICATION FairSpec
CONSTANTS
  Desired = 2
  Partitions = {0, 1, 3}
INVARIANTS
  SuccessIsRollout
  GivenUpIsOfThisWrite
  InPlaceIsNotLate
  WatchMissesNoWrite
PROPERTY EveryWaitEnds
