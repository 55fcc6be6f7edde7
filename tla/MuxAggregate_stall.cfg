SPECIFICATION FairSpec
CONSTANTS
  Child = {c1}
  Limit = 1
  MaxConn = 3
PROPERTIES
  TakenIsSettled
\* Everything may be closed.
CHECK_DEADLOCK FALSE
