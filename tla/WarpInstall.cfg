\* Two runs, of one user or of two, that race, fail and are interrupted and killed.
CONSTANTS
  i1 = i1
  i2 = i2
  s1 = s1
  s2 = s2
  Installer = {i1, i2}
  Shard = {s1, s2}
  Nobody = nobody
  Blank = blank
SPECIFICATION Spec
SYMMETRY Interchangeable
INVARIANTS
  OneStage
  
  FinishedMeansFetched
\* Every run ends.
CHECK_DEADLOCK FALSE
