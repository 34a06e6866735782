\* Racing duplicates in two processes with pools that they can exhaust.
SPECIFICATION FairSpec
CONSTANTS
  Bodies = {b1}
  Processes = {p1, p2}
  Requests = {h1, h2, h3, h4}
  PoolSize = 2
  Nothing = Nothing
  MaxFaults = 1
INVARIANTS TypeOK AckedIsStored StallsNeedAnotherProcess
PROPERTIES ImplementsInbox SentGetsAcked
