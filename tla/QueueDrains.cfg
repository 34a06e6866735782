\* Every accepted webhook ends up settled, even with zombies, faults and replays.
SPECIFICATION FairReplaySpec
CONSTANTS
  RawIds = {1}
  Workers = {w1, w2}
  Entities = {e1, e2}
  States <- MCOneState
  Rank <- MCOneRank
  Events <- MCOneStateEvents
  NoState = NoState
  NoEntity = NoEntity
  NoEvent = NoEvent
  MaxAttempts = 2
  BatchSize = 1
  MaxFaults = 2
  MaxReplays = 1
  LeaseCoversProcessing = FALSE
  CommitAnswerReliable = FALSE
INVARIANTS NormalizedIsRecorded DeadOnlyWhenExhausted
PROPERTY QueueDrains
CHECK_DEADLOCK FALSE
