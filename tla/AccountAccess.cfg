SPECIFICATION Spec
CONSTANTS
  u1 = u1
  u2 = u2
  u3 = u3
  c1 = c1
  c2 = c2
  Users = {u1, u2}
  Founder = u1
  Calls = {c1, c2}
  MaxLinks = 3
SYMMETRY Same
CHECK_DEADLOCK FALSE
INVARIANTS
  AdminRemains
  ActiveHasPassword
PROPERTIES
  LinkSpent
