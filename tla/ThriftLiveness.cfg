CONSTANTS
  r1 = r1 r2 = r2 sweeper = sweeper
  s1 = s1 s2 = s2 o1 = o1 o2 = o2
  Requests = {r1}
  Sweeper = sweeper
  Sessions = {s1}
  Operations = {o1}
  None = None
  MaxSessions = 1
  MaxOperations = 1
  IdleTimeout = 2
  CompletedTtl = 1
  Drops = FALSE
SPECIFICATION FairSpec
PROPERTIES CompletedOperationsLeave
