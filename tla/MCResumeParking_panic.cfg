SPECIFICATION Spec
CONSTANTS
  Losses = {101}
  Hellos = {2, 3}
  Scenes <- ShutdownScene
INVARIANT NoPanic
\* Every task ends.
CHECK_DEADLOCK FALSE
