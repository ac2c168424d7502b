\* Six satellites whose links go up and down: does every path query end?
SPECIFICATION Spec
CONSTANTS
  Planes = 3
  PerPlane = 2
  NumGsts = 0
  OneLink = {}
  IslBandwidth = 3
  GstBandwidth <- GroundBandwidth
  IslRange = 10
  GstRange <- GroundRange
  Threshold = 1
  Geometries <- Crossing
INVARIANTS
  PathsEnd
