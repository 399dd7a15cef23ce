SPECIFICATION CommentSpec
CONSTANTS
  d1 = d1
  d2 = d2
  Thread = {d1, d2}
  Retries = 1
  MaxTokens = 2
  PageSize = 1
  MaxPages = 3
  MaxComments = 3
  Deletions = 1
SYMMETRY Symmetry
INVARIANT RefusedIsReplaced
PROPERTIES
  SecondOnlyIfMissed
  NewestIsEdited
