---------------------------- MODULE PeeringProofs ----------------------------
(* Theorems about Peering, for any number of hosts and machines.           *)
EXTENDS Peering, TLAPS

Inside(n) == at[n] \in {"listed", "set", "deleted"}

(* The mutex of a peer is held by the one Route that is inside, so the     *)
(* list it has made is still the whole list when it is handed to wg.       *)
LockInv ==
  /\ phase = "peering" => \A n \in Nets : at[n] = "start"
  /\ phase = "done" => \A n \in Nets : at[n] = "routed"
  /\ \A n \in Nets : Inside(n) => HostOf(n) \in locked
  /\ \A m, n \in Nets : Inside(m) /\ Inside(n) /\ HostOf(m) = HostOf(n) => m = n
  /\ \A n \in Nets : at[n] = "listed" => allowedCIDRs[n] = allowedNets[HostOf(n)]

(* Lists only grow, and hold networks of their peer only.                  *)
ListInv ==
  /\ \A h \in Peers : \A n \in allowedNets[h] \union allowed[h] : HostOf(n) = h
  /\ \A m \in Nets : \A n \in allowedCIDRs[m] : HostOf(n) = HostOf(m)
  /\ \A n \in Nets : at[n] \in {"listed", "set", "deleted", "routed"} =>
       n \in allowedNets[HostOf(n)]

KeptInv ==
  device => \A n \in Nets :
    /\ at[n] \in {"set", "deleted", "routed"} => n \in allowed[HostOf(n)]
    /\ at[n] = "routed" => route[n] = HostOf(n)

Inv == LockInv /\ ListInv /\ KeptInv

LEMMA HostIsPeer == \A n \in Nets : HostOf(n) \in Peers
  BY DEF Nets, HostOf

LEMMA TypeStep == TypeOK /\ [Next]_vars => TypeOK'
  <1> SUFFICES ASSUME TypeOK, [Next]_vars PROVE TypeOK'
    OBVIOUS
  <1>1. CASE \E h \in Peers : AddPeer(h)
    BY <1>1 DEF AddPeer, TypeOK, routeVars
  <1>2. CASE PeeringFails \/ BeginRoutes \/ EndRoutes
    BY <1>2 DEF PeeringFails, BeginRoutes, EndRoutes, TypeOK, routeVars
  <1>3. ASSUME NEW n \in Nets, Lock(n) PROVE TypeOK'
    BY <1>3, HostIsPeer DEF Lock, TypeOK, Steps
  <1>4. ASSUME NEW n \in Nets, SetAllowed(n) PROVE TypeOK'
    BY <1>4, HostIsPeer DEF SetAllowed, TypeOK, Steps
  <1>5. ASSUME NEW n \in Nets, DeleteRoute(n) PROVE TypeOK'
    BY <1>5 DEF DeleteRoute, TypeOK, Steps
  <1>6. ASSUME NEW n \in Nets, AddRoute(n) \/ RouteFails(n) PROVE TypeOK'
    BY <1>6, HostIsPeer DEF AddRoute, RouteFails, Leave, TypeOK, Steps
  <1>7. CASE Stop
    BY <1>7, HostIsPeer DEF Stop, TypeOK
  <1>8. CASE Ended \/ UNCHANGED vars
    BY <1>8 DEF Ended, vars, TypeOK
  <1>9. QED BY <1>1, <1>2, <1>3, <1>4, <1>5, <1>6, <1>7, <1>8 DEF Next, Route

(* Every variable has its type.                                            *)
THEOREM TypeCorrect == Spec => []TypeOK
  <1>1. Init => TypeOK
    BY DEF Init, TypeOK, Steps
  <1>2. QED BY <1>1, TypeStep, PTL DEF Spec

LEMMA LockStep == TypeOK /\ LockInv /\ [Next]_vars => LockInv'
  <1> SUFFICES ASSUME TypeOK, LockInv, [Next]_vars PROVE LockInv'
    OBVIOUS
  <1>1. CASE \E h \in Peers : AddPeer(h)
    BY <1>1 DEF AddPeer, LockInv, Inside, routeVars
  <1>2. CASE PeeringFails \/ BeginRoutes
    BY <1>2 DEF PeeringFails, BeginRoutes, LockInv, Inside, routeVars
  <1>3. CASE EndRoutes
    BY <1>3 DEF EndRoutes, LockInv, Inside, routeVars
  <1>4. ASSUME NEW k \in Nets, Lock(k) PROVE LockInv'
    <2>1. /\ phase' = phase /\ phase = "routing" /\ HostOf(k) \notin locked
          /\ locked' = locked \union {HostOf(k)}
          /\ at' = [at EXCEPT ![k] = "listed"]
          /\ allowedNets' = [allowedNets EXCEPT ![HostOf(k)] = @ \union {k}]
          /\ allowedCIDRs' =
               [allowedCIDRs EXCEPT ![k] = allowedNets[HostOf(k)] \union {k}]
      BY <1>4 DEF Lock
    <2>2. \A n \in Nets : Inside(n) => HostOf(n) # HostOf(k)
      BY <2>1 DEF LockInv
    <2>3. \A n \in Nets : Inside(n)' <=> (n = k \/ Inside(n))
      BY <2>1 DEF Inside, TypeOK
    <2>4. ASSUME NEW n \in Nets, at'[n] = "listed"
          PROVE  allowedCIDRs'[n] = allowedNets'[HostOf(n)]
      <3>1. CASE n = k
        BY <2>1, <3>1, HostIsPeer DEF TypeOK
      <3>2. CASE n # k
        <4>1. at[n] = "listed" /\ HostOf(n) # HostOf(k)
          BY <2>1, <2>2, <2>4, <3>2 DEF TypeOK, Inside
        <4>2. QED BY <2>1, <3>2, <4>1, HostIsPeer DEF TypeOK, LockInv
      <3>3. QED BY <3>1, <3>2
    <2>5. QED BY <2>1, <2>2, <2>3, <2>4 DEF LockInv
  <1>5. ASSUME NEW k \in Nets, SetAllowed(k) \/ DeleteRoute(k) PROVE LockInv'
    <2>1. /\ phase' = phase /\ locked' = locked /\ Inside(k)
          /\ allowedNets' = allowedNets /\ allowedCIDRs' = allowedCIDRs
          /\ \E step \in {"set", "deleted"} : at' = [at EXCEPT ![k] = step]
      BY <1>5 DEF SetAllowed, DeleteRoute, Inside
    <2>2. \A n \in Nets : Inside(n)' <=> Inside(n)
      BY <2>1 DEF Inside, TypeOK
    <2>3. \A n \in Nets : at'[n] = "listed" => at[n] = "listed"
      BY <2>1 DEF TypeOK
    <2>4. phase # "peering" /\ phase # "done"
      BY <2>1 DEF LockInv, Inside
    <2>5. QED BY <2>1, <2>2, <2>3, <2>4 DEF LockInv
  <1>6. ASSUME NEW k \in Nets, AddRoute(k) \/ RouteFails(k) PROVE LockInv'
    <2>1. /\ phase' = phase /\ locked' = locked \ {HostOf(k)} /\ Inside(k)
          /\ allowedNets' = allowedNets /\ allowedCIDRs' = allowedCIDRs
          /\ \E step \in {"routed", "error"} : at' = [at EXCEPT ![k] = step]
      BY <1>6 DEF AddRoute, RouteFails, Leave, Inside
    <2>2. \A n \in Nets : Inside(n)' <=> (n # k /\ Inside(n))
      BY <2>1 DEF Inside, TypeOK
    <2>3. \A n \in Nets : at'[n] = "listed" => at[n] = "listed"
      BY <2>1 DEF TypeOK
    <2>4. phase # "peering" /\ phase # "done"
      BY <2>1 DEF LockInv, Inside
    <2>5. QED BY <2>1, <2>2, <2>3, <2>4 DEF LockInv
  <1>7. CASE Stop \/ Ended \/ UNCHANGED vars
    BY <1>7 DEF Stop, Ended, vars, LockInv, Inside
  <1>8. QED BY <1>1, <1>2, <1>3, <1>4, <1>5, <1>6, <1>7 DEF Next, Route

LEMMA ListStep == TypeOK /\ LockInv /\ ListInv /\ [Next]_vars => ListInv'
  <1> SUFFICES ASSUME TypeOK, LockInv, ListInv, [Next]_vars PROVE ListInv'
    OBVIOUS
  <1>1. ASSUME NEW h \in Peers, AddPeer(h) PROVE ListInv'
    BY <1>1 DEF AddPeer, ListInv, LockInv, TypeOK, routeVars
  <1>2. CASE PeeringFails \/ BeginRoutes \/ EndRoutes
    BY <1>2 DEF PeeringFails, BeginRoutes, EndRoutes, ListInv, routeVars
  <1>3. ASSUME NEW k \in Nets, Lock(k) PROVE ListInv'
    BY <1>3, HostIsPeer DEF Lock, ListInv, TypeOK
  <1>4. ASSUME NEW k \in Nets, SetAllowed(k) PROVE ListInv'
    <2>1. /\ allowed' = [h \in Peers |-> IF h = HostOf(k) THEN allowedCIDRs[k]
                                         ELSE allowed[h] \ allowedCIDRs[k]]
          /\ allowedNets' = allowedNets /\ allowedCIDRs' = allowedCIDRs
          /\ at[k] = "listed" /\ at' = [at EXCEPT ![k] = "set"]
      BY <1>4 DEF SetAllowed
    <2>2. \A h \in Peers : \A n \in allowedNets'[h] \union allowed'[h] : HostOf(n) = h
      BY <2>1 DEF ListInv
    <2>3. ASSUME NEW n \in Nets, at'[n] \in {"listed", "set", "deleted", "routed"}
          PROVE  n \in allowedNets'[HostOf(n)]
      BY <2>1, <2>3 DEF ListInv, TypeOK
    <2>4. QED BY <2>1, <2>2, <2>3 DEF ListInv
  <1>5. ASSUME NEW k \in Nets, DeleteRoute(k) PROVE ListInv'
    BY <1>5 DEF DeleteRoute, ListInv, TypeOK
  <1>6. ASSUME NEW k \in Nets, AddRoute(k) \/ RouteFails(k) PROVE ListInv'
    BY <1>6 DEF AddRoute, RouteFails, Leave, ListInv, TypeOK
  <1>7. CASE Stop
    BY <1>7 DEF Stop, ListInv
  <1>8. CASE Ended \/ UNCHANGED vars
    BY <1>8 DEF Ended, vars, ListInv
  <1>9. QED BY <1>1, <1>2, <1>3, <1>4, <1>5, <1>6, <1>7, <1>8 DEF Next, Route

LEMMA KeptStep ==
  TypeOK /\ LockInv /\ ListInv /\ KeptInv /\ [Next]_vars => KeptInv'
  <1> SUFFICES ASSUME TypeOK, LockInv, ListInv, KeptInv, [Next]_vars
               PROVE  KeptInv'
    OBVIOUS
  <1>1. ASSUME NEW h \in Peers, AddPeer(h) PROVE KeptInv'
    BY <1>1 DEF AddPeer, KeptInv, LockInv, routeVars
  <1>2. CASE PeeringFails \/ BeginRoutes \/ EndRoutes
    BY <1>2 DEF PeeringFails, BeginRoutes, EndRoutes, KeptInv, routeVars
  <1>3. ASSUME NEW k \in Nets, Lock(k) PROVE KeptInv'
    BY <1>3 DEF Lock, KeptInv, TypeOK
  <1>4. ASSUME NEW k \in Nets, SetAllowed(k) PROVE KeptInv'
    <2>1. /\ allowed' = [h \in Peers |-> IF h = HostOf(k) THEN allowedCIDRs[k]
                                         ELSE allowed[h] \ allowedCIDRs[k]]
          /\ device /\ at[k] = "listed" /\ at' = [at EXCEPT ![k] = "set"]
          /\ route' = route /\ allowedCIDRs[k] = allowedNets[HostOf(k)]
      BY <1>4 DEF SetAllowed, LockInv
    <2>2. ASSUME NEW n \in Nets, at'[n] \in {"set", "deleted", "routed"}
          PROVE  n \in allowed'[HostOf(n)]
      <3>1. CASE HostOf(n) = HostOf(k)
        <4>1. n \in allowedNets[HostOf(n)]
          BY <2>1, <2>2 DEF ListInv, TypeOK
        <4>2. QED BY <2>1, <3>1, <4>1, HostIsPeer
      <3>2. CASE HostOf(n) # HostOf(k)
        <4>1. n \in allowed[HostOf(n)]
          BY <2>1, <2>2, <3>2 DEF KeptInv, TypeOK
        <4>2. n \notin allowedCIDRs[k]
          BY <3>2 DEF ListInv
        <4>3. QED BY <2>1, <3>2, <4>1, <4>2, HostIsPeer
      <3>3. QED BY <3>1, <3>2
    <2>3. ASSUME NEW n \in Nets, at'[n] = "routed" PROVE route'[n] = HostOf(n)
      BY <2>1, <2>3 DEF KeptInv, TypeOK
    <2>4. QED BY <2>2, <2>3 DEF KeptInv
  <1>5. ASSUME NEW k \in Nets, DeleteRoute(k) PROVE KeptInv'
    BY <1>5 DEF DeleteRoute, KeptInv, TypeOK
  <1>6. ASSUME NEW k \in Nets, AddRoute(k) PROVE KeptInv'
    BY <1>6 DEF AddRoute, Leave, KeptInv, TypeOK
  <1>7. ASSUME NEW k \in Nets, RouteFails(k) PROVE KeptInv'
    BY <1>7 DEF RouteFails, Leave, KeptInv, TypeOK
  <1>8. CASE Stop
    BY <1>8 DEF Stop, KeptInv
  <1>9. CASE Ended \/ UNCHANGED vars
    BY <1>9 DEF Ended, vars, KeptInv
  <1>10. QED BY <1>1, <1>2, <1>3, <1>4, <1>5, <1>6, <1>7, <1>8, <1>9 DEF Next, Route

LEMMA InvHolds == Spec => [](TypeOK /\ Inv)
  <1>1. Init => Inv
    BY DEF Init, Inv, LockInv, ListInv, KeptInv, Inside
  <1>2. TypeOK /\ Inv /\ [Next]_vars => Inv'
    BY LockStep, ListStep, KeptStep DEF Inv
  <1>3. QED BY <1>1, <1>2, TypeCorrect, PTL DEF Spec

(* The mutex of a peer keeps every network that Route has returned nil for *)
(* allowed and routed, however many Routes run and fail next to it.        *)
THEOREM RoutesStay == Spec => []RoutesAreKept
  <1>1. TypeOK /\ Inv => RoutesAreKept
    <2> SUFFICES ASSUME TypeOK, Inv, device, NEW n \in Nets, at[n] = "routed"
                 PROVE  /\ route[n] = HostOf(n)
                        /\ \A h \in Peers : n \in allowed[h] <=> h = HostOf(n)
      BY DEF RoutesAreKept
    <2>1. route[n] = HostOf(n) /\ n \in allowed[HostOf(n)]
      BY DEF Inv, KeptInv
    <2>2. \A h \in Peers : n \in allowed[h] => h = HostOf(n)
      BY DEF Inv, ListInv
    <2>3. QED BY <2>1, <2>2
  <1>2. QED BY <1>1, InvHolds, PTL

(* An Init that ends without an error has routed every remote machine.     *)
THEOREM AllRouted == Spec => []AllAreRouted
  <1>1. TypeOK /\ Inv => AllAreRouted
    BY DEF Inv, LockInv, KeptInv, AllAreRouted
  <1>2. QED BY <1>1, InvHolds, PTL

==============================================================================
