SPECIFICATION FairPushSpec
CONSTANTS
  w1 = w1
  w2 = w2
  d1 = d1
  Writer = {w1, w2}
  Directory <- OneDirectory
  Stages = 2
  PerStage = 2
  PushAttempts = 2
  Retries = 1
  PolicyRefuses = TRUE
  ResponseLost = TRUE
INVARIANTS
  ReplaysOnlyUnpushed
PROPERTIES
  ImplementsLog
  EveryChangeAnswers
