\* Two processes with two installs each, of two releases or a build, on a Mac or not.
CONSTANTS
  i1 = i1
  i2 = i2
  Tag = {1, 2}
  Command = {i1, i2}
  Runs = 2
  None = none
  Path = path
SPECIFICATION LlamaSpec
SYMMETRY Interchangeable
INVARIANTS
  InstalledIsUsed
PROPERTIES
  StartsTheInstalled
\* All installs have run.
CHECK_DEADLOCK FALSE
