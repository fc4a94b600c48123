\* Liveness: two callers that come back forever, an explicit selection, the warm-up and the shutdown.
CONSTANTS
  r1 = r1
  r2 = r2
  r3 = r3
  s1 = s1
  s2 = s2
  one = one
  two = two
  p1 = p1
  p2 = p2
  three = three
  p3 = p3
  none = none
  Request = {r1, r2}
  Switcher = {s1}
  Startup = startup
  Shutdown = shutdown
  Model = {one, two}
  InitialModel = one
  Proc = {p1, p2}
  ModelOf <- OneProcEach
  Cancellation <- WarpAndCooperative
  MaxQueueSize = 1
  CleanupCanFail = FALSE
  NoTask = none
  NoProc = none
  NoModel = none
SPECIFICATION FairSpec
PROPERTIES
  AdmissionEnds
  LeaseEnds
  SwitchEnds
  ShutdownEnds
\* The gateway stops: after shutdown nothing is enabled.
CHECK_DEADLOCK FALSE
