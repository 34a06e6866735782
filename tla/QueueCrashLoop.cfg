\* A claim whose owner is lost, by a crash or by a re-fetch that fails.
SPECIFICATION Spec
CONSTANTS
  RawIds = {1}
  Workers = {w1, w2}
  Entities = {e1, e2}
  States <- MCOneState
  Rank <- MCOneRank
  Events <- MCOneStateEvents
  NoState = NoState
  NoEntity = NoEntity
  NoEvent = NoEvent
  MaxAttempts = 1
  BatchSize = 1
  MaxFaults = 1
  LeaseCoversProcessing = TRUE
  CommitAnswerReliable = TRUE
INVARIANT AttemptsBounded
CHECK_DEADLOCK FALSE
