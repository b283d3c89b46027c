SPECIFICATION Spec
CONSTANTS
  RateMicroScale = 4
  Principals = {9}
  Rates = {0}
  Terms = {6}
  Prepayments = {2, 9}
  MaxRemaining = 8
INVARIANTS HealthyHasNoDrift
CHECK_DEADLOCK FALSE
