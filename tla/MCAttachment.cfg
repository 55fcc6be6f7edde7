SPECIFICATION MCSpec
CONSTANTS
  Losses = {101}
  Hellos = {2, 3}
  Scenes <- MCScenes
  Window = 2
  MaxBytes = 2
  MaxContent = 2
  MaxFocus = 2
  MaxEpoch = 2
  MayLose = TRUE
  MaxEffects = 1
INVARIANTS
  OutputConsistent
  CredentialsConsistent
PROPERTIES
  ClaimSettledByItsHandshake
  
\* Every task ends, and the bounds end every output.
CHECK_DEADLOCK FALSE
