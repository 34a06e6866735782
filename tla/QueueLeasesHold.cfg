\* Leases outlast jobs and commit answers arrive: the documented guarantees,
\* and what the replay harness reports.
SPECIFICATION HarnessSpec
CONSTANTS
  s1 = s1
  s2 = s2
  s3 = s3
  e1 = e1
  e2 = e2
  RawIds = {1, 2, 3}
  Workers = {w1, w2}
  Entities = {e1, e2}
  States <- MCStates
  Rank <- MCRank
  Events <- MCSampleEvents
  NoState = NoState
  NoEntity = NoEntity
  NoEvent = NoEvent
  MaxAttempts = 2
  BatchSize = 2
  MaxFaults = 1
  LeaseCoversProcessing = TRUE
  CommitAnswerReliable = TRUE
  Samples = {s1, s2, s3}
  BodyOf <- MCBodyOf
  First = s1
  Limit = 2
  Shipments = {e1}
SYMMETRY WorkerSymmetry
INVARIANTS TypeOK ExclusiveProcessing SettleAtomic AppliedAtMostOnce AttemptsWithinBudget ViewExplained ReportIsFinal SanityChecks
PROPERTY SettledIsFinal
CHECK_DEADLOCK FALSE
