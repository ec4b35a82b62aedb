SPECIFICATION FairSpec
CONSTANTS
  r1 = r1
  r2 = r2
  t1 = t1
  t2 = t2
  t3 = t3
  t4 = t4
  Runs = {r1, r2}
  Tokens = {t1, t2, t3, t4}
  None = None
  Last = 3
  MaxMishaps = 2
INVARIANTS
  OneHolder
  NoTicketSkipped
PROPERTIES
  FreshMeansComplete
  EveryTicketMonitored
