\* Four satellites and two ground stations, one of which has one link only.
SPECIFICATION Spec
CONSTANTS
  Planes = 2
  PerPlane = 2
  NumGsts = 2
  OneLink = {4}
  IslBandwidth = 3
  GstBandwidth <- GroundBandwidth
  IslRange = 10
  GstRange <- GroundRange
  Threshold = 1
  Geometries <- Grounded
INVARIANTS
  TypeOK
  PathsAreShortest
  HostsAreCurrent
  FreshPathsAreShortest
