SPECIFICATION Spec
CONSTANTS
  o1 = o1
  o2 = o2
  o3 = o3
  o4 = o4
  r1 = r1
  r2 = r2
  r3 = r3
  Output = {o1, o2, o3, o4}
  Repo = {r1, r2, r3}
  RepoOf <- ThreeRepoOf
  StageOf <- TwoStageOf
  StageCount = 2
  Position <- Order
  Concurrency = {1, 2}
INVARIANTS
  FailedGenerationPushesNothing
  PushOrder
  DoneMeansFollowed
  BackgroundGatesNothing
PROPERTY ImplementsGate
