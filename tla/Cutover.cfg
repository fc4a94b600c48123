\* Three runs of an installer one after the other, with errors, Ctrl-C and kills.
CONSTANTS
  i1 = i1
  i2 = i2
  i3 = i3
  Installer = {i1, i2, i3}
  Old = old
  Nothing = nothing
  Together = FALSE
  Escaping = FALSE
  Mishaps = 2
  Kills = TRUE
SPECIFICATION Spec
INVARIANTS
  AllOrNothing
  Recoverable
PROPERTIES
  ImplementsInstallation
\* Every run ends.
CHECK_DEADLOCK FALSE
