SPECIFICATION Spec
CONSTANTS
  RateMicroScale = 10
  Outstandings = {7, 8}
  Rates = {0, 3}
  Periods <- MCPeriods
  Payments <- MCPayments
INVARIANTS FixedPaymentCoversInterest
