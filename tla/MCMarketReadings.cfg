SPECIFICATION MarketSpec
CONSTANTS
  q1 = q1
  q2 = q2
  w1 = w1
  w2 = w2
  Quants = {q1, q2}
  Catalysts = {c1}
  Threads = {w1, w2}
  Markets <- Courses
  TTL = 2
  MAX_RETRIES = 1
  MaxTime = 2
  Empty = Empty
INVARIANTS
  TypeOK
  MarketTypeOK
  StatusIsForced
PROPERTIES
  LostDataIsNeverSilent
  FiringIsRecent
  FailureIsNotShared
CHECK_DEADLOCK FALSE
SYMMETRY Interchangeable
