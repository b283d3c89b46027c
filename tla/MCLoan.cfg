SPECIFICATION FairSpec
CONSTANTS
  RateMicroScale = 4
  Principals = {9, 12}
  Rates = {0, 1}
  Terms = {1, 4}
  Prepayments = {2, 9}
  MaxRemaining = 8
INVARIANTS TypeOK DebtHasAPeriod LoadStateNeverFails TerminalMeansSettled PlanCollectsDebt NextPaymentIsPayable ReduceTermNeverRefused PaymentServicesDebt PlanNeverGrowsDebt
PROPERTIES SolvedTermIsBounded KeepsContract PayingSettles
CHECK_DEADLOCK FALSE
