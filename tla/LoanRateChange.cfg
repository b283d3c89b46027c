SPECIFICATION Spec
CONSTANTS
  RateMicroScale = 4
  Principals = {9}
  Rates = {0, 1}
  Terms = {3}
  Prepayments = {2, 9}
  MaxRemaining = 8
PROPERTIES RateChangeKeepsRemaining
CHECK_DEADLOCK FALSE
