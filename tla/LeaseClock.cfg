\* The default settings, if a statement takes 5 s, a settle 10 s and a pause of
\* the SDK 2 s at most.
SPECIFICATION ClockSpec
CONSTANTS
  RawIds = {1}
  Workers = {w1, w2}
  Entities = {e1}
  States <- MCOneState
  Rank <- MCOneRank
  Events <- MCOneStateEvents
  NoState = NoState
  NoEntity = NoEntity
  NoEvent = NoEvent
  MaxAttempts = 3
  BatchSize = 1
  MaxFaults = 1
  LeaseCoversProcessing = FALSE
  CommitAnswerReliable = TRUE
  Lease = 120
  LlmTimeout = 30
  MaxRetries = 2
  RetryPause = 2
  StatementTime = 5
  SettleTime = 10
SYMMETRY WorkerSymmetry
INVARIANT LeaseAheadOfJob
PROPERTIES ImplementsLeasedQueue RetriesAreSpaced
CHECK_DEADLOCK FALSE
