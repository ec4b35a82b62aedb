SPECIFICATION Spec
CONSTANTS
  a1 = a1
  a2 = a2
  m1 = m1
  c1 = c1
  c2 = c2
  desk = desk
  d1 = d1
  d2 = d2
  Agents = {a1}
  Managers = {m1}
  NoOne = NoOne
  Desk = desk
  Departments = {d1}
  Members <- OneTeam
  StaffStatuses = {"open"}
  Calls = {c1}
  MaxVersion = 5
  MaxReturns = 0
CHECK_DEADLOCK FALSE
INVARIANTS
  ResolvedAwaitsConfirmation
