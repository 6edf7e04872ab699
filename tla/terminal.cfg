SPECIFICATION Spec
CONSTANTS
  w = 2
  h = 2
  Sessions <- TheSessions
  Keys = 2
INVARIANTS TypeOK 
 
CHECK_DEADLOCK FALSE
