CONSTANTS
  w1 = w1 w2 = w2
  p1 = p1 p2 = p2 t1 = t1
  s1 = s1 s2 = s2 s3 = s3
  Workers = {w1, w2}
  Principals = {p1, p2}
  Names = {"c.s.t1", "C.S.T1"}
  Tables = {t1}
  TableOf <- OneTable
  Slots = {s1, s2, s3}
  None = None
  MaxEntries = 1
  Ttl = 1
  Skew = 1
  Lifetimes <- ShortAndLong
  MaxInstant = 2
  Written = {t1}
  MaxVersion = 1
  MaxClock = 1
  Abandonment = TRUE
SPECIFICATION Spec
SYMMETRY Symmetry
VIEW CacheView
INVARIANTS TypeOK CapacityBound SingleFlight
PROPERTIES HitIsLive LoadingSlotStays ImplementsSnapshotReads
