----------------------------- MODULE ShellPaths -----------------------------
(***************************************************************************)
(* The paths of one satellite shell, from the geometry of a timestep to    *)
(* the answer of a host: celestial/shell.py computes the shortest path of  *)
(* every pair of nodes, reports the pairs that differ from what it last    *)
(* reported, a host enters them in its NetworkState in both directions,    *)
(* and path() of pkg/orchestrator follows the next hops it finds there.    *)
(*                                                                         *)
(* Distances are given in the microseconds that light takes for them.      *)
(* UpdateStream and Orchestrator are how a diff gets to NetworkState; here *)
(* every diff of a timestep has arrived before the next one.               *)
(***************************************************************************)
EXTENDS Integers, FiniteSets, SequencesExt

CONSTANTS
  Planes, PerPlane,  \* the satellites of the shell, in planes
  NumGsts,           \* the ground stations
  OneLink,           \* the ground stations of connection type ONE
  IslBandwidth,      \* isl_bandwidth_kbits
  GstBandwidth,      \* gts_bandwidth_kbits of every ground station
  IslRange,          \* max_isl_range
  GstRange,          \* max_stg_range of every ground station
  Threshold,         \* DELAY_UPDATE_THRESHOLD_US
  Geometries         \* distances along ISLs and to the ground, and the
                     \* satellites in the bounding box, of a timestep

NumSats == Planes * PerPlane
Sats == 0..(NumSats - 1)
Gsts == NumSats..(NumSats + NumGsts - 1)
Nodes == Sats \union Gsts

(* The +GRID: rings within the planes, and rings across them.              *)
InPlane == {{n + p * PerPlane, ((n + 1) % PerPlane) + p * PerPlane} :
              n \in 0..(PerPlane - 1), p \in 0..(Planes - 1)}
CrossPlane == {{n + p * PerPlane, n + ((p + 1) % Planes) * PerPlane} :
                 n \in 0..(PerPlane - 1), p \in 0..(Planes - 1)}
Links == {l \in InPlane \union CrossPlane : Cardinality(l) = 2}

ASSUME ShellAssumption ==
  /\ Planes \in Nat \ {0} /\ PerPlane \in Nat \ {0} /\ NumGsts \in Nat
  /\ OneLink \subseteq Gsts
  /\ IslBandwidth \in Nat /\ GstBandwidth \in [Gsts -> Nat]
  /\ IslRange \in Nat /\ GstRange \in [Gsts -> Nat] /\ Threshold \in Nat
  /\ Geometries \subseteq [isl : [Links -> Nat \ {0}], up : [Gsts -> [Sats -> Nat \ {0}]],
                      inBox : SUBSET Sats]

(* Distances are those of straight lines.                                  *)
ASSUME TriangleAssumption ==
  \A g \in Geometries, gst \in Gsts, s, t \in Sats :
    {s, t} \in Links => g.up[gst][s] <= g.isl[{s, t}] + g.up[gst][t]

(* The pairs of nodes whose entry of path_matrix is used.                  *)
Pairs == {p \in Nodes \X Nodes :
            /\ p[1] # p[2]
            /\ IF p[1] \in Gsts /\ p[2] \in Gsts THEN p[1] < p[2]
               ELSE p[1] \in Gsts \/ (p[2] \in Sats /\ p[1] < p[2])}

NoNode == -1
Inf == NumSats * IslRange + 1  \* np.inf: longer than any path
NoGeometry == [isl |-> << >>, up |-> << >>, inBox |-> {}]

VARIABLES
  geometry,  \* the geometry of the last timestep
  paths,     \* path_matrix
  sent,      \* curr_paths: every pair as it was last reported
  network,   \* NetworkState of a host
  active     \* the satellites that are ACTIVE in MachinesState of a host

vars == <<geometry, paths, sent, network, active>>
-----------------------------------------------------------------------------
(* _numba_update_paths: Floyd-Warshall, upper half and mirrored.           *)

Active(g, l) == l \in Links /\ g.isl[l] <= IslRange

Direct(g) ==
  [dist |-> [i \in Sats |-> [j \in Sats |->
               IF i = j THEN 0 ELSE IF Active(g, {i, j}) THEN g.isl[{i, j}] ELSE Inf]],
   next |-> [i \in Sats |-> [j \in Sats |->
               IF i = j \/ Active(g, {i, j}) THEN j ELSE NoNode]]]

Shorter(m, k, i, j) == m.dist[i][j] > m.dist[i][k] + m.dist[k][j]

(* Mutant: the mirrored entry gets the hop of its own target.              *)
ViaMutant(m, k) ==
  [dist |-> [i \in Sats |-> [j \in Sats |->
               IF Shorter(m, k, i, j) THEN m.dist[i][k] + m.dist[k][j] ELSE m.dist[i][j]]],
   next |-> [i \in Sats |-> [j \in Sats |->
               IF ~Shorter(m, k, i, j) THEN m.next[i][j]
               ELSE IF i < j THEN m.next[i][k] ELSE m.next[k][i]]]]

Via(m, k) ==
  [dist |-> [i \in Sats |-> [j \in Sats |->
               IF Shorter(m, k, i, j) THEN m.dist[i][k] + m.dist[k][j] ELSE m.dist[i][j]]],
   next |-> [i \in Sats |-> [j \in Sats |->
               IF Shorter(m, k, i, j) THEN m.next[i][k] ELSE m.next[i][j]]]]

Rounds(g) ==
  LET after[k \in 0..NumSats] == IF k = 0 THEN Direct(g) ELSE Via(after[k - 1], k - 1)
  IN after
FloydWarshall(g) == Rounds(g)[NumSats]

SatRoutes == [g \in Geometries |-> FloydWarshall(g)]

-----------------------------------------------------------------------------
(* The satellites a ground station has a link to, and the pairs with one.  *)

InView(g, gst) == {s \in Sats : g.up[gst][s] <= GstRange[gst]}

(* Of equally close satellites, a station with one link gets the last.     *)
Uplinks(g, gst) ==
  IF gst \in OneLink
  THEN {s \in InView(g, gst) :
          \A t \in InView(g, gst) : \/ g.up[gst][s] < g.up[gst][t]
                                    \/ g.up[gst][s] = g.up[gst][t] /\ t <= s}
  ELSE InView(g, gst)

ViaUplink(g, r, gst, s, up) == r.dist[s][up] + g.up[gst][up]

(* The first of the best uplinks for s, s itself if it is one.             *)
Candidates(g, r, gst, s) == {up \in Uplinks(g, gst) : r.dist[s][up] < Inf}
Best(g, r, gst, s) ==
  IF s \in Uplinks(g, gst) THEN s
  ELSE CHOOSE up \in Candidates(g, r, gst, s) :
         \A v \in Candidates(g, r, gst, s) :
           \/ ViaUplink(g, r, gst, s, up) < ViaUplink(g, r, gst, s, v)
           \/ ViaUplink(g, r, gst, s, up) = ViaUplink(g, r, gst, s, v) /\ up <= v

Between(g, r, g1, g2, c) == g.up[g1][c[1]] + r.dist[c[1]][c[2]] + g.up[g2][c[2]]
Connections(g, r, g1, g2) ==
  {c \in Uplinks(g, g1) \X Uplinks(g, g2) : r.dist[c[1]][c[2]] < Inf}
BestConnection(g, r, g1, g2) ==
  CHOOSE c \in Connections(g, r, g1, g2) :
    \A d \in Connections(g, r, g1, g2) :
      \/ Between(g, r, g1, g2, c) < Between(g, r, g1, g2, d)
      \/ /\ Between(g, r, g1, g2, c) = Between(g, r, g1, g2, d)
         /\ c[1] < d[1] \/ (c[1] = d[1] /\ c[2] <= d[2])

Min2(a, b) == IF a < b THEN a ELSE b

(* The delay of an inactive pair is unspecified by the code (inf as an     *)
(* integer); nothing compares or sends it but together with the activity.  *)
SatPath(r, i, j) ==
  [active |-> r.dist[i][j] < Inf, next |-> r.next[i][j], prev |-> r.next[j][i],
   delay |-> r.dist[i][j], bandwidth |-> IslBandwidth]

GstPathOver(g, r, gst, s, up, toGst) ==
  [active |-> TRUE, next |-> up, prev |-> toGst,
   delay |-> ViaUplink(g, r, gst, s, up),
   bandwidth |-> Min2(GstBandwidth[gst], IslBandwidth)]

(* Mutant: the satellite's next hop is the uplink itself.                  *)
GstPathMutant(g, r, gst, s, old) ==
  IF Candidates(g, r, gst, s) = {} THEN [old EXCEPT !.active = FALSE]
  ELSE LET up == Best(g, r, gst, s)
       IN GstPathOver(g, r, gst, s, up, IF up = s THEN gst ELSE up)

(* A pair without a connection keeps the rest of its old entry.            *)
GstPath(g, r, gst, s, old) ==
  IF Candidates(g, r, gst, s) = {} THEN [old EXCEPT !.active = FALSE]
  ELSE LET up == Best(g, r, gst, s)
       IN GstPathOver(g, r, gst, s, up, IF up = s THEN gst ELSE r.next[s][up])

(* bandwidth_kbits is assigned the delay.                                  *)
GroundPath(g, r, g1, g2, old) ==
  IF Connections(g, r, g1, g2) = {} THEN [old EXCEPT !.active = FALSE]
  ELSE LET c == BestConnection(g, r, g1, g2)
       IN [active |-> TRUE, next |-> c[1], prev |-> c[2],
           delay |-> Between(g, r, g1, g2, c), bandwidth |-> Between(g, r, g1, g2, c)]

UpdatePaths(g, r, old) ==
  [p \in Pairs |-> IF p[1] \in Sats THEN SatPath(r, p[1], p[2])
                   ELSE IF p[2] \in Sats THEN GstPath(g, r, p[1], p[2], old[p])
                   ELSE GroundPath(g, r, p[1], p[2], old[p])]

-----------------------------------------------------------------------------
(* _numba_get_link_diff.  prev_hop is not among what is compared.          *)
Abs(n) == IF n < 0 THEN -n ELSE n
Differs(p1, p2) ==
  \/ Abs(p1.delay - p2.delay) > Threshold
  \/ p1.active # p2.active
  \/ p1.bandwidth # p2.bandwidth
  \/ p1.next # p2.next

(* A host's entries: both directions of every pair, blocked to begin with, *)
(* with the zero MachineID, which is the first ground station's.           *)
Entries == {e \in Nodes \X Nodes : e[1] # e[2]}
ZeroID == NumSats
NewEntry == [blocked |-> TRUE, latency |-> 0, next |-> ZeroID]

(* Mutant: the next hop of a blocked pair is stored as well.               *)
ReceivedMutant(entry, path, hop) ==
  IF path.active THEN [blocked |-> FALSE, latency |-> path.delay, next |-> hop]
  ELSE [entry EXCEPT !.blocked = TRUE, !.next = hop]

(* The rest of an entry is left alone when the pair is blocked.            *)
Received(entry, path, hop) ==
  IF path.active THEN [blocked |-> FALSE, latency |-> path.delay, next |-> hop]
  ELSE [blocked |-> TRUE, latency |-> entry.latency, next |-> entry.next]

Opposite(p) == <<p[2], p[1]>>
Updated(n, diff, new) ==
  [e \in Entries |->
     IF e \in diff THEN Received(n[e], new[e], new[e].next)
     ELSE IF Opposite(e) \in diff
          THEN Received(n[e], new[Opposite(e)], new[Opposite(e)].prev)
     ELSE n[e]]

ZeroPath == [active |-> FALSE, next |-> 0, prev |-> 0, delay |-> 0, bandwidth |-> 0]

Init ==
  /\ geometry = NoGeometry
  /\ paths = [p \in Pairs |-> ZeroPath]
  /\ sent = [p \in Pairs |-> ZeroPath]
  /\ network = [e \in Entries |-> NewEntry]
  /\ active = {}

(* Mutant: the last timestep is what the new one is compared with.         *)
LinkDiffMutant(new) == {p \in Pairs : Differs(paths[p], new[p])}
LinkDiff(new) == {p \in Pairs : Differs(sent[p], new[p])}

(* Shell.step, and an Update of the host with its link_diff and nodes_diff: *)
(* in the latter are the satellites that entered or left the bounding box. *)
Step(g) ==
  LET new == UpdatePaths(g, SatRoutes[g], paths)
      diff == LinkDiff(new)
      entered == g.inBox \ geometry.inBox
      left == geometry.inBox \ g.inBox
  IN /\ geometry' = g /\ paths' = new
     /\ sent' = [p \in Pairs |-> IF p \in diff THEN new[p] ELSE sent[p]]
     /\ network' = Updated(network, diff, new)
     /\ active' = (active \ left) \union entered

Next == \E g \in Geometries : Step(g)

Spec == Init /\ [][Next]_vars
-----------------------------------------------------------------------------
(* path(a, b): where it is after k hops.  A hop without an entry is an     *)
(* error, and the end; if it has not ended after as many hops as there are *)
(* machines it is where it was before, and never ends.                     *)
Ends(a, b) == a = b \/ <<a, network[<<a, b>>].next>> \notin Entries
Walk(a, b) ==
  LET at[k \in 0..Cardinality(Nodes)] ==
        IF k = 0 THEN a
        ELSE IF Ends(at[k - 1], b) THEN at[k - 1] ELSE network[<<at[k - 1], b>>].next
  IN at
-----------------------------------------------------------------------------
PathType == [active : BOOLEAN, next : Nodes \union {NoNode}, prev : Nodes \union {NoNode},
             delay : Nat, bandwidth : Nat]
(* Every variable has its type; in particular no host ever has -1 for a    *)
(* next hop, which is what the shell has for pairs without a path.         *)
TypeOK ==
  /\ geometry \in Geometries \union {NoGeometry} /\ active \subseteq Sats
  /\ paths \in [Pairs -> PathType] /\ sent \in [Pairs -> PathType]
  /\ network \in [Entries -> [blocked : BOOLEAN, latency : Nat,
                              next : Nodes \union {ZeroID}]]

(* The delay of two satellites is that of the shortest simple path along   *)
(* active links, and both its ends are a first hop of such a path.         *)
SimplePaths ==
  {p \in SeqOf(Sats, NumSats) :
     Len(p) > 1 /\ IsInjective(p) /\ \A k \in 1..(Len(p) - 1) : {p[k], p[k + 1]} \in Links}
Lengths(g, p) ==
  LET upTo[k \in 0..(Len(p) - 1)] ==
        IF k = 0 THEN 0 ELSE upTo[k - 1] + g.isl[{p[k], p[k + 1]}]
  IN upTo
Length(g, p) == Lengths(g, p)[Len(p) - 1]
Shortest(g, i, j) ==
  LET found == {p \in SimplePaths : /\ p[1] = i /\ p[Len(p)] = j
                                    /\ \A k \in 1..(Len(p) - 1) : Active(g, {p[k], p[k + 1]})}
  IN {p \in found : \A q \in found : Length(g, p) <= Length(g, q)}
PathsAreShortest ==
  geometry # NoGeometry => \A i, j \in Sats : i < j =>
    LET best == Shortest(geometry, i, j)
        path == paths[<<i, j>>]
    IN /\ path.active <=> best # {}
       /\ path.active =>
            \E p, q \in best : /\ path.delay = Length(geometry, p)
                               /\ path.next = p[2] /\ path.prev = q[Len(q) - 1]

(* After every timestep a host runs the satellites in the bounding box and *)
(* has every pair as it is now: blocked or not, with the next hop from its *)
(* first node, and with a latency off by no more than the threshold,       *)
(* however many small changes there have been.                             *)
HostsAreCurrent ==
  geometry # NoGeometry =>
    /\ active = geometry.inBox
    /\ \A p \in Pairs :
         /\ network[p].blocked <=> ~paths[p].active
         /\ paths[p].active =>
              /\ network[p].next = paths[p].next
              /\ Abs(network[p].latency - paths[p].delay) <= Threshold
              /\ network[Opposite(p)].latency = network[p].latency
         /\ network[Opposite(p)].blocked <=> ~paths[p].active

(* While no reverse hop is stale, path() answers for every open pair with  *)
(* a chain of links that are up, as long as the delay of the pair.         *)
NothingStale ==
  \A p \in Pairs : paths[p].active => network[Opposite(p)].next = paths[p].prev
LinkIsUp(a, b) ==
  \/ a \in Sats /\ b \in Sats /\ Active(geometry, {a, b})
  \/ a \in Gsts /\ b \in Uplinks(geometry, a)
  \/ b \in Gsts /\ a \in Uplinks(geometry, b)
LinkLength(a, b) ==
  IF a \in Gsts THEN geometry.up[a][b]
  ELSE IF b \in Gsts THEN geometry.up[b][a] ELSE geometry.isl[{a, b}]
Travelled(at, b) ==
  LET upTo[k \in 0..Cardinality(Nodes)] ==
        IF k = 0 THEN 0
        ELSE IF at[k - 1] = b THEN upTo[k - 1]
        ELSE upTo[k - 1] + LinkLength(at[k - 1], at[k])
  IN upTo
DelayOf(e) == IF e \in Pairs THEN paths[e].delay ELSE paths[Opposite(e)].delay
FreshPathsAreShortest ==
  geometry # NoGeometry /\ NothingStale =>
    \A e \in Entries : ~network[e].blocked =>
      LET at == Walk(e[1], e[2])
      IN /\ at[Cardinality(Nodes)] = e[2]
         /\ \A k \in 1..Cardinality(Nodes) :
              at[k - 1] # e[2] => LinkIsUp(at[k - 1], at[k])
         /\ Travelled(at, e[2])[Cardinality(Nodes)] = DelayOf(e)

(* "GET /path/..." "Returns" (docs/runtime/http.md): path() comes to an    *)
(* end for every pair that is not blocked.                                 *)
PathsEnd ==
  \A e \in Entries : ~network[e].blocked =>
    Ends(Walk(e[1], e[2])[Cardinality(Nodes)], e[2])
=============================================================================
