SPECIFICATION FairSpec
CONSTANTS
  o1 = o1
  o2 = o2
  o3 = o3
  o4 = o4
  o5 = o5
  r1 = r1
  r2 = r2
  Output = {o1, o2, o3, o4, o5}
  Repo = {r1, r2}
  RepoOf <- FiveRepoOf
  StageOf <- FiveStageOf
  StageCount = 3
  Position <- Order
  Concurrency = {1, 2}
  Predictions <- SplitStages
INVARIANTS
  NothingGeneratedLost
  GeneratedOnce
  WholeStagePushesNothing
  HeldFailureWaits
  WorkspaceQuiet
PROPERTIES
  ImplementsGate
  Answers
