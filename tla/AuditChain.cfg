SPECIFICATION FairSpec
CONSTANTS
  c1 = c1
  c2 = c2
  t1 = t1
  t2 = t2
  e1 = e1
  e2 = e2
  e3 = e3
  Calls = {c1, c2}
  Tenants = {t1, t2}
  Entries = {e1, e2, e3}
  MaxAttempts = 4
  MaxEdits = 2
CHECK_DEADLOCK FALSE
INVARIANTS
  Linked
  EditFound
  RecordedOnce
PROPERTIES
  AppendEnds
  ImplementsLog
