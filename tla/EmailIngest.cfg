SPECIFICATION FairSpec
CONSTANTS
  m1 = m1
  m2 = m2
  m3 = m3
  w1 = w1
  w2 = w2
  None = None
  Mails = {m1, m2, m3}
  Parent <- Thread
  Workers = {w1, w2}
  MaxMishaps = 1
CHECK_DEADLOCK FALSE
INVARIANTS
  IngestedOnce
  NoMailLost
PROPERTIES
  EveryMailRead
