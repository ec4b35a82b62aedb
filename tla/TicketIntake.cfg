SPECIFICATION FairSpec
CONSTANTS
  q1 = q1
  q2 = q2
  s1 = s1
  s2 = s2
  p1 = p1
  p2 = p2
  Callers = {q1, q2}
  Sweeps = {s1, s2}
  Payloads = {p1, p2}
  Loads <- ThreeLoads
  MaxAttempts = 3
CHECK_DEADLOCK FALSE
INVARIANTS
  TypeOK
  NotLost
  ReceivedOnce
  OneTicket
PROPERTIES
  IntakeCompletes
  CallbackSettles
