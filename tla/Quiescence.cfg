\* Calls in turn to an engine that is started again after a reset.
CONSTANTS
  Call = {c1, c2, c3}
  Build = {"patched", "other"}
  MaxPolls = 3
  MaxStarts = 3
  Nobody = nobody
SPECIFICATION Spec
INVARIANTS
  Quiescent
PROPERTIES
  WaitEnds
\* Every call was made, or the starts are used up.
CHECK_DEADLOCK FALSE
