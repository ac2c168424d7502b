\* Does an archive of two shells hold what the serializer was given?
SPECIFICATION Spec
CONSTANTS
  Files <- TwoShells
  Probes = {0}
  Shapes = {"p"}
  MaxWriters = 4
  MaxSeconds = 30
INVARIANTS
  ArchiveRestores
CHECK_DEADLOCK FALSE
