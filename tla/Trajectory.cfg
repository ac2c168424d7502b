\* With four writers at most, archives of one shell close them several times,
\* those of two shells and two timesteps never.  The emulation ends.
SPECIFICATION Spec
CONSTANTS
  Files <- MCFiles
  Probes <- MCProbes
  Shapes = {"p", "q"}
  MaxWriters = 4
  MaxSeconds = 30
INVARIANTS
  TypeOK
  ArchiveIsComplete
  ReplayFollows
  MachinesAreConfigured
  AddressesAreDistinct
  AddressesResolve
CHECK_DEADLOCK FALSE
