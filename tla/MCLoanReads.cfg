SPECIFICATION ReadsSpec
CONSTANTS
  RateMicroScale = 4
  Principals = {9}
  Rates = {0, 1}
  Terms = {3}
  Prepayments = {2, 9}
  MaxRemaining = 6
INVARIANTS CashflowErrsForward PayoffIsNextPaymentAndRest
PROPERTIES ProjectionOutlivesPayment PastBalancesMoveByPayments
CHECK_DEADLOCK FALSE
