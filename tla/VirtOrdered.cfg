SPECIFICATION Spec
CONSTANTS
  m1 = m1
  m2 = m2
  r1 = r1
  Machines <- Everywhere
  Local <- Here
  Requests <- Alike
  StopMayOverlap = FALSE
INVARIANTS
  TypeOK
  DivergesOnlyByFailure
  StopLeavesNoVM
  StopCleansUp
PROPERTIES
  ImplementsLifecycle
  CallsReturn
  StopReturns
