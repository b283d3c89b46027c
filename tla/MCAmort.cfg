SPECIFICATION Spec
CONSTANTS
  RateMicroScale = 10
  Outstandings <- MCOutstandings
  Rates = {0, 1, 3}
  Periods <- MCPeriods
  Payments <- MCPayments
INVARIANTS
  PlansClose
  PaymentIsPresentValue
  TailAbsorbsRounding
  ReducedTermFitsPayment
  PlansHaveTheirShape
