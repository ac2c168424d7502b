------------------------------- MODULE Peering -------------------------------
(***************************************************************************)
(* The WireGuard peering of one host (pkg/peer) while its Init is served:  *)
(* InitPeering makes a peer of every other host, then RegisterMachine runs *)
(* Route for every machine of another host, all of them at the same time.  *)
(* `wg set peer` replaces the networks a peer is allowed, so each Route    *)
(* has to repeat those of the others; a peer's mutex orders them.  Virt    *)
(* takes a Route as one step of registration: this module is that step.    *)
(*                                                                         *)
(* The coordinator sends Init once, and in it every host that has a        *)
(* machine.  Stop may come at any time, from the signal handler of         *)
(* celestial.go.                                                           *)
(***************************************************************************)
CONSTANTS
  Peers,  \* the other hosts of the run
  Ids     \* the machines of a host

Nets == Peers \X Ids
HostOf(n) == n[1]

VARIABLES
  phase,        \* "peering", "routing", "done" or "failed": of server.Init
  device,       \* the WireGuard device is there
  peers,        \* p.peers: the hosts that InitPeering has made a peer
  allowedNets,  \* of each peer, in any order
  locked,       \* the peers whose mutex some Route holds
  at,           \* where the Route of a network has come to
  allowedCIDRs, \* the list it has made for wg
  allowed,      \* the networks WireGuard takes to and from each peer
  route         \* the kernel's route: a host, "none", or an "old" one

vars == <<phase, device, peers, allowedNets, locked, at, allowedCIDRs, allowed, route>>
routeVars == <<allowedNets, locked, at, allowedCIDRs, route>>

Steps == {"start", "listed", "set", "deleted", "routed", "error"}

Init ==
  /\ phase = "peering" /\ device = TRUE /\ peers = {}
  /\ allowedNets = [h \in Peers |-> {}]
  /\ locked = {}
  /\ at = [n \in Nets |-> "start"]
  /\ allowedCIDRs = [n \in Nets |-> {}]
  /\ allowed = [h \in Peers |-> {}]
  /\ route \in [Nets -> {"none", "old"}]

-----------------------------------------------------------------------------
(* InitPeering: the peer is set up without networks and its latency is     *)
(* measured; only then is it entered, and any error ends the Init.         *)
AddPeer(h) ==
  /\ phase = "peering" /\ h \notin peers /\ device
  /\ allowed' = [allowed EXCEPT ![h] = {}]
  /\ peers' = peers \union {h}
  /\ UNCHANGED <<phase, device, routeVars>>

PeeringFails ==
  /\ phase = "peering" /\ peers # Peers
  /\ phase' = "failed"
  /\ UNCHANGED <<device, peers, routeVars, allowed>>

BeginRoutes ==
  /\ phase = "peering" /\ peers = Peers
  /\ phase' = "routing"
  /\ UNCHANGED <<device, peers, routeVars, allowed>>

-----------------------------------------------------------------------------
(* Route, with the mutex of the peer held from its first step to its last. *)
Lock(n) ==
  /\ phase = "routing" /\ at[n] = "start"
  /\ HostOf(n) \in peers \ locked
  /\ locked' = locked \union {HostOf(n)}
  /\ allowedNets' = [allowedNets EXCEPT ![HostOf(n)] = @ \union {n}]
  /\ allowedCIDRs' = [allowedCIDRs EXCEPT ![n] = allowedNets[HostOf(n)] \union {n}]
  /\ at' = [at EXCEPT ![n] = "listed"]
  /\ UNCHANGED <<phase, device, peers, allowed, route>>

(* The deferred Unlock runs.                                               *)
Leave(n, step) ==
  /\ at' = [at EXCEPT ![n] = step]
  /\ locked' = locked \ {HostOf(n)}

(* A network belongs to one peer in WireGuard: it leaves any other.        *)
SetAllowed(n) ==
  /\ at[n] = "listed" /\ device
  /\ allowed' = [h \in Peers |-> IF h = HostOf(n) THEN allowedCIDRs[n]
                                 ELSE allowed[h] \ allowedCIDRs[n]]
  /\ at' = [at EXCEPT ![n] = "set"]
  /\ UNCHANGED <<phase, device, peers, allowedNets, locked, allowedCIDRs, route>>

(* `ip route del` may fail, and then nobody looks at its error.            *)
DeleteRoute(n) ==
  /\ at[n] = "set"
  /\ route' \in {route, [route EXCEPT ![n] = "none"]}
  /\ at' = [at EXCEPT ![n] = "deleted"]
  /\ UNCHANGED <<phase, device, peers, allowedNets, locked, allowedCIDRs, allowed>>

(* A route that is still there makes `ip route add` fail.                  *)
AddRoute(n) ==
  /\ at[n] = "deleted" /\ device /\ route[n] = "none"
  /\ route' = [route EXCEPT ![n] = HostOf(n)]
  /\ Leave(n, "routed")
  /\ UNCHANGED <<phase, device, peers, allowedNets, allowedCIDRs, allowed>>

RouteFails(n) ==
  /\ at[n] \in {"listed", "deleted"}
  /\ Leave(n, "error")
  /\ UNCHANGED <<phase, device, peers, allowedNets, allowedCIDRs, allowed, route>>

(* Initialize has waited for all of its goroutines.                        *)
EndRoutes ==
  /\ phase = "routing" /\ \A n \in Nets : at[n] \in {"routed", "error"}
  /\ phase' = IF \E n \in Nets : at[n] = "error" THEN "failed" ELSE "done"
  /\ UNCHANGED <<device, peers, routeVars, allowed>>

-----------------------------------------------------------------------------
(* Stop deletes the device, and the kernel the routes over it.             *)
Stop ==
  /\ device /\ device' = FALSE
  /\ allowed' = [h \in Peers |-> {}]
  /\ route' = [n \in Nets |-> IF route[n] = HostOf(n) THEN "none" ELSE route[n]]
  /\ UNCHANGED <<phase, peers, allowedNets, locked, at, allowedCIDRs>>

Ended == phase \in {"done", "failed"} /\ UNCHANGED vars

Route(n) == Lock(n) \/ SetAllowed(n) \/ DeleteRoute(n) \/ AddRoute(n) \/ RouteFails(n)

Next ==
  \/ \E h \in Peers : AddPeer(h)
  \/ PeeringFails \/ BeginRoutes
  \/ \E n \in Nets : Route(n)
  \/ EndRoutes \/ Stop \/ Ended

Spec == Init /\ [][Next]_vars
-----------------------------------------------------------------------------
(* Every variable has its type.                                            *)
TypeOK ==
  /\ phase \in {"peering", "routing", "done", "failed"}
  /\ device \in BOOLEAN /\ peers \subseteq Peers
  /\ allowedNets \in [Peers -> SUBSET Nets]
  /\ locked \subseteq Peers
  /\ at \in [Nets -> Steps]
  /\ allowedCIDRs \in [Nets -> SUBSET Nets]
  /\ allowed \in [Peers -> SUBSET Nets]
  /\ route \in [Nets -> Peers \union {"none", "old"}]

(* What Route has returned nil for stays: while the device is there, the   *)
(* network is allowed at the peer of its host and at no other, and routed  *)
(* there, whatever the Routes of other machines do or fail to do.          *)
RoutesAreKept ==
  device => \A n \in Nets : at[n] = "routed" =>
    /\ route[n] = HostOf(n)
    /\ \A h \in Peers : n \in allowed[h] <=> h = HostOf(n)

(* An Init that ends without an error has routed every remote machine.     *)
AllAreRouted ==
  phase = "done" /\ device =>
    \A n \in Nets : n \in allowed[HostOf(n)] /\ route[n] = HostOf(n)
=============================================================================
