CONSTANTS
  w1 = w1 w2 = w2
  p1 = p1 p2 = p2 t1 = t1
  s1 = s1 s2 = s2 s3 = s3
  Workers = {w1, w2}
  Principals = {p1}
  Names = {"c.s.t1"}
  Tables = {t1}
  TableOf <- OneSpelling
  Slots = {s1, s2, s3}
  None = None
  MaxEntries = 1
  Ttl = 2
  Skew = 1
  Lifetimes <- LongLifetime
  MaxInstant = 40
  Written = {}
  MaxVersion = 0
  MaxClock = 0
  Abandonment = FALSE
SPECIFICATION Spec
INVARIANTS CoalescedLoads
