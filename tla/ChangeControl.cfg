SPECIFICATION ChangeFairSpec
CONSTANTS
  c1 = c1
  c2 = c2
  v1 = v1
  v2 = v2
  Slots = {c1, c2}
  Approvals = {v1, v2}
  MaxFails = 1
CHECK_DEADLOCK FALSE
INVARIANTS
  ChangeTypeOK
  VotesCount
PROPERTIES
  VotesAdvance
