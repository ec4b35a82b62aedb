SPECIFICATION FairSpec
CONSTANTS
  r1 = r1
  r2 = r2
  Runs = {r1, r2}
  MaxAttempts = 2
  MaxRequeues = 1
  MaxMishaps = 3
INVARIANTS
  SentOnce
PROPERTIES
  OutcomeStands
  DeliverySettles
