\* The answer to one COMMIT is lost; leases hold.
SPECIFICATION Spec
CONSTANTS
  RawIds = {1}
  Workers = {w1, w2}
  Entities = {e1, e2}
  States <- MCOneState
  Rank <- MCOneRank
  Events <- MCOneStateEvents
  NoState = NoState
  NoEntity = NoEntity
  NoEvent = NoEvent
  MaxAttempts = 2
  BatchSize = 1
  MaxFaults = 1
  LeaseCoversProcessing = TRUE
  CommitAnswerReliable = FALSE
INVARIANT SettleAtomic
CHECK_DEADLOCK FALSE
