SPECIFICATION FairSpec
CONSTANTS
  c1 = c1
  c2 = c2
  Calls = {c1, c2}
  Loads <- TwoLoads
CHECK_DEADLOCK FALSE
INVARIANTS
  TypeOK
  InStep
  ResolvedStamped
PROPERTIES
  HeldForApproval
  ResolvedCloses
