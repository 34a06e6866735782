\* A lease runs out under a live worker; nothing else goes wrong.
SPECIFICATION Spec
CONSTANTS
  RawIds = {1}
  Workers = {w1, w2}
  Entities = {e1, e2}
  States <- MCOneState
  Rank <- MCOneRank
  Events <- MCOneStateEvents
  NoState = NoState
  NoEntity = NoEntity
  NoEvent = NoEvent
  MaxAttempts = 2
  BatchSize = 1
  MaxFaults = 0
  LeaseCoversProcessing = FALSE
  CommitAnswerReliable = TRUE
INVARIANT AppliedAtMostOnce
CHECK_DEADLOCK FALSE
