SPECIFICATION Spec
CONSTANTS
  s1 = s1
  s2 = s2
  Streams = {s1, s2}
  Ordered = {s1}
  Reliable = {s1}
  Favoured = {}
  MaxRexmit = 1
  PoolSlots = 2
  PoolBytes = 3
  MaxBurst = 1
  LowQuota = 2
  Window = 2
  Reports = {2}
  SsnMod = 16
  MaxFrags = 2
  MaxTsn = 4
  MaxSacks = 1
  AllocOutcomes = {TRUE, FALSE}
  Lossy = TRUE
INVARIANTS
  PurgedForwarded
CHECK_DEADLOCK FALSE
