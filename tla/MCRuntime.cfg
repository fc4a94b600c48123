\* Three callers, two explicit selections, one engine of each cancellation mode.
CONSTANTS
  r1 = r1
  r2 = r2
  r3 = r3
  s1 = s1
  s2 = s2
  one = one
  two = two
  three = three
  p1 = p1
  p2 = p2
  p3 = p3
  none = none
  Request = {r1, r2, r3}
  Switcher = {s1, s2}
  Startup = startup
  Shutdown = shutdown
  Model = {one, two, three}
  InitialModel = one
  Proc = {p1, p2, p3}
  ModelOf <- OneProcOfThree
  Cancellation <- EveryMode
  MaxQueueSize = 1
  CleanupCanFail = FALSE
  NoTask = none
  NoProc = none
  NoModel = none
SPECIFICATION Spec
SYMMETRY Callers
INVARIANTS
  TypeOK
  LockMatchesTasks
  OneOwnedProcess
  LeaseIsCurrent
  StateTellsTruth
  NothingAfterShutdown
  ReadyEngineIsQuiet
  QueueDepthIsExact
PROPERTIES
  ImplementsService
  LeasedEngineStays
\* The gateway stops: after shutdown nothing is enabled.
CHECK_DEADLOCK FALSE
