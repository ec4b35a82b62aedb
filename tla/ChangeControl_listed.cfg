SPECIFICATION ChangeSpec
CONSTANTS
  c1 = c1
  c2 = c2
  v1 = v1
  v2 = v2
  Slots = {c1}
  Approvals = {v1, v2}
  MaxFails = 0
CHECK_DEADLOCK FALSE
PROPERTIES
  ListedTransitionsOnly
