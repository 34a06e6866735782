\* Leases run out under live workers, commit answers get lost: what still holds.
SPECIFICATION Spec
CONSTANTS
  RawIds = {1, 2}
  Workers = {w1, w2}
  Entities = {e1}
  States <- MCStates
  Rank <- MCRank
  Events <- MCEvents
  NoState = NoState
  NoEntity = NoEntity
  NoEvent = NoEvent
  MaxAttempts = 2
  BatchSize = 1
  MaxFaults = 1
  LeaseCoversProcessing = FALSE
  CommitAnswerReliable = FALSE
SYMMETRY WorkerSymmetry
INVARIANTS HistoryUnique CurrentIsFurthest AdvancedMarksRecordHighs
PROPERTY ImplementsLedger
CHECK_DEADLOCK FALSE
