\* Stop may overlap Initialize and Update.  The system really may stop: see
\* VirtSignalStop.cfg.
SPECIFICATION SafeSpec
CONSTANTS
  m1 = m1
  m2 = m2
  r1 = r1
  Machines <- Here
  Local <- Here
  Requests <- AllRequests
  StopMayOverlap = TRUE
SYMMETRY Symmetry
VIEW WithoutHistory
INVARIANTS
  TeardownIsAlone
CHECK_DEADLOCK FALSE
