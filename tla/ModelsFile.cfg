\* A gateway and two commands with one job each, for one file.
CONSTANTS
  llama = llama
  sonnet = sonnet
  g1 = g1
  c1 = c1
  c2 = c2
  Gateway = {g1}
  Command = {c1, c2}
  Model = {llama, sonnet}
  Engine <- MCEngine
  Ctx = {0, 1, 2}
  Legacy = {0, 2}
  Fit <- MCFit
  Name = {llama, sonnet}
  Claude = {sonnet}
  Picks <- MCPicks
  Jobs = 1
  Initially = 1
SPECIFICATION Spec
SYMMETRY Interchangeable
INVARIANTS
  FileValid
  NothingLost
PROPERTIES
  OnlyBadValuesChange
\* Commands end.
CHECK_DEADLOCK FALSE
