\* Two hosts, two timesteps, two signals, one host whose connection is lost.
SPECIFICATION Spec
CONSTANTS
  NumHosts = 2
  LastStep = 1
  MaxSignals = 2
  MaxLost = 1
INVARIANTS
  TypeOK
  OneHandlerPerHost
  HostsInStep
PROPERTIES
  EveryHostIsStopped
  RunEnds
