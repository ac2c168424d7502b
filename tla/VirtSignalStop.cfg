\* A signal during an Update: does Stop return?
SPECIFICATION Spec
CONSTANTS
  m1 = m1
  m2 = m2
  r1 = r1
  Machines <- Here
  Local <- Here
  Requests <- AllRequests
  StopMayOverlap = TRUE
PROPERTIES
  StopReturns
CHECK_DEADLOCK FALSE
