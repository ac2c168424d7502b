--------------------------- MODULE MCOrchestrator ---------------------------
(* Two machines of this host and one of another, linked a-b and a-r.       *)
EXTENDS Orchestrator, TLC

CONSTANTS a, b, r
MCMachines == {a, b, r}
MCLocal == {a, b}
MCPairs == {<<a, b>>, <<a, r>>}
OnePair == {<<a, b>>}
=============================================================================
