\* A replay after the LLM has learned to read a webhook; nothing goes wrong.
SPECIFICATION ReplaySpec
CONSTANTS
  RawIds = {1}
  Workers = {w1}
  Entities = {e1, e2}
  States <- MCStates
  Rank <- MCRank
  Events <- MCEvents
  NoState = NoState
  NoEntity = NoEntity
  NoEvent = NoEvent
  MaxAttempts = 2
  BatchSize = 1
  MaxFaults = 0
  MaxReplays = 1
  LeaseCoversProcessing = TRUE
  CommitAnswerReliable = TRUE
INVARIANT TablesFollowReading
CHECK_DEADLOCK FALSE
