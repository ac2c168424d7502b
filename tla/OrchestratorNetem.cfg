\* One link each way, on the netem backend.
SPECIFICATION Spec
CONSTANTS
  a = a
  b = b
  r = r
  NoHop = NoHop
  Machines <- MCMachines
  Local <- MCLocal
  Pairs <- OnePair
  Latencies = {0, 1050}
  Bandwidths = {10, 20}
  Hops = {h}
  Backend = "netem"
  MaxFaulty = 2
INVARIANTS
  BlockedIsEnforced
  ShapeInSync
PROPERTIES
  ImplementsNetwork
