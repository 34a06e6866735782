\* Up to four webhooks of one invoice, in every order and with re-deliveries.
SPECIFICATION Spec
CONSTANTS
  Keys = {1}
  RawIds = {1, 2, 3, 4}
  States <- MCStates
  Rank <- MCRank
  Events <- MCEvents
  Null = Null
INVARIANTS TypeOK StampsAreFirst MoneyIsFirst CurrentIsFirstOfItsRank
PROPERTY ImplementsLedger
