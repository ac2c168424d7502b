\* Two links of one source and the two back, on the eBPF backend.
SPECIFICATION Spec
CONSTANTS
  a = a
  b = b
  r = r
  NoHop = NoHop
  Machines <- MCMachines
  Local <- MCLocal
  Pairs <- MCPairs
  Latencies = {1050}
  Bandwidths = {10, 20}
  Hops = {h}
  Backend = "ebpf"
  MaxFaulty = 1
INVARIANTS
  TypeOK
  BlockedIsEnforced
  ShapeInSync
  ErrorsAreReported
  CrashNeedsFailedInit
PROPERTIES
  ImplementsNetwork
