\* Three connections, three settles: locks, unique keys and the ledger.
SPECIFICATION FairSpec
CONSTANTS
  Keys = {1, 2}
  RawIds = {1, 2, 3}
  Txs = {t1, t2, t3}
  Isolation = {"RR", "RC"}
  States <- MCStates
  Rank <- MCRank
  Events <- MCEvents
  Null = Null
  MaxSettles = 3
INVARIANTS TypeOK RowRetoldByHistory DeadlocksOnlyOnFirstEvents
PROPERTIES ImplementsLedger TransactionsEnd
CHECK_DEADLOCK FALSE
