SPECIFICATION Spec
CONSTANTS
  a1 = a1
  a2 = a2
  m1 = m1
  c1 = c1
  c2 = c2
  desk = desk
  d1 = d1
  d2 = d2
  Agents = {a1}
  Managers = {m1}
  NoOne = NoOne
  Desk = desk
  Departments = {d1, d2}
  Members <- TwoTeams
  StaffStatuses = {"pending", "closed"}
  Calls = {c1, c2}
  MaxVersion = 5
  MaxReturns = 1
CHECK_DEADLOCK FALSE
SYMMETRY Same
INVARIANTS
  Concluded
  ReadIsCurrent
  WorkflowInv
PROPERTIES
  OneWinnerPerVisit
  HistoryKept
