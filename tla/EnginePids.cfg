\* A gateway, which may be killed and started again, and litmoe stop.
CONSTANTS
  g1 = g1
  m1 = m1
  m2 = m2
  p1 = p1
  p2 = p2
  t1 = t1
  t2 = t2
  Gateway = {g1}
  Model = {m1, m2}
  Pid = {p1, p2}
  Thread = {t1, t2}
  None = none
  Blank = blank
  Reuse = TRUE
SPECIFICATION Spec
SYMMETRY Interchangeable
INVARIANTS
  Tracked
  LeftoversAreExpected
  StopReachesAll
\* Every number was used, and all is stopped.
CHECK_DEADLOCK FALSE
