\* An upstream error inside a stream of a restart-mode engine.
CONSTANTS
  r1 = r1
  r2 = r2
  r3 = r3
  s1 = s1
  s2 = s2
  one = one
  two = two
  p1 = p1
  p2 = p2
  three = three
  p3 = p3
  none = none
  Request = {r1, r2}
  Switcher = {s1}
  Startup = startup
  Shutdown = shutdown
  Model = {one}
  InitialModel = one
  Proc = {p1, p2}
  ModelOf <- TwoOfOne
  Cancellation <- OnlyRestart
  MaxQueueSize = 1
  CleanupCanFail = FALSE
  NoTask = none
  NoProc = none
  NoModel = none
SPECIFICATION Spec
INVARIANTS
  SeveredWorkIsStopped
\* The gateway stops: after shutdown nothing is enabled.
CHECK_DEADLOCK FALSE
