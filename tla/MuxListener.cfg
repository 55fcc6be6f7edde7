SPECIFICATION FairSpec
CONSTANTS
  MaxId = 2
  QueueLimit = 1

  
PROPERTIES
  ListenerProgress
\* A closed or lost listener moves no more.
CHECK_DEADLOCK FALSE
