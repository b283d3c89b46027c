SPECIFICATION FairSpec
CONSTANTS
  RateMicroScale = 4
  Principals = {4, 5}
  Rates = {0, 4}
  Terms = {2}
  Prepayments = {2, 4}
  MaxRemaining = 6
  h1 = h1
  h2 = h2
  NoHandler = NoHandler
  Handlers = {h1, h2}
  Requests <- MCRequests
  Stored <- MCStored
  MaxCommits = 2
  MaxOutages = 1
INVARIANTS TypeOK StampsAreDense RowsAreAccountedFor AnswersAreStored ReadsAreSnapshots ServerErrorsAreKnown LoansAreCoherent
PROPERTIES ServesAtomically EveryLoanKeepsItsSpec EveryRequestGetsItsTurn
CHECK_DEADLOCK FALSE
