-------------------------- MODULE ShellPathsProofs ---------------------------
(* Theorems about ShellPaths, for shells of any size, any geometries and   *)
(* any threshold.                                                          *)
EXTENDS ShellPaths, Induction, FiniteSetTheorems

LEMMA Sizes ==
  /\ NumSats \in Nat \ {0} /\ NumGsts \in Nat /\ Inf \in Nat /\ IslRange < Inf
  /\ \A n \in Sats : n \in Nat /\ n \notin Gsts
  /\ \A n \in Gsts : n \in Nat
  /\ NoNode \notin Nodes
  <1>1. NumSats \in Nat \ {0}
    BY ShellAssumption DEF NumSats
  <1>2. Inf \in Nat /\ IslRange < Inf
    <2>1. PICK n \in Nat : NumSats = n + 1
      BY <1>1
    <2>2. NumSats * IslRange = n * IslRange + IslRange /\ n * IslRange \in Nat
      BY <2>1, ShellAssumption
    <2>3. QED BY <2>2, ShellAssumption DEF Inf
  <1>3. QED BY <1>1, <1>2, ShellAssumption DEF Sats, Gsts, Nodes, NoNode

LEMMA GeometryTypes ==
  ASSUME NEW g \in Geometries
  PROVE  /\ \A l \in Links : g.isl[l] \in Nat \ {0}
         /\ \A gst \in Gsts, s \in Sats : g.up[gst][s] \in Nat \ {0}
         /\ g.inBox \subseteq Sats
  BY ShellAssumption

-----------------------------------------------------------------------------
(* Floyd-Warshall.  After k rounds no distance can be made shorter by way  *)
(* of one of the first k satellites, and the next hop of every pair with a *)
(* path is a link nearer to the other end.  What a path is need not be     *)
(* said until the rounds are over.                                         *)
Distances == [Sats -> [Sats -> 0..Inf]]
Hops == [Sats -> [Sats -> Sats \union {NoNode}]]
Nearer(g, m, i, j, n) ==
  n \in Sats /\ Active(g, {i, n}) /\ g.isl[{i, n}] + m.dist[n][j] <= m.dist[i][j]

MatrixInv(g, m, k) ==
  /\ m.dist \in Distances /\ m.next \in Hops
  /\ \A i \in Sats : m.dist[i][i] = 0
  /\ \A i, j \in Sats : m.dist[i][j] = m.dist[j][i]
  /\ \A i, j \in Sats : Active(g, {i, j}) => m.dist[i][j] <= g.isl[{i, j}]
  /\ \A i, j \in Sats, v \in Sats :
       v < k => m.dist[i][j] <= m.dist[i][v] + m.dist[v][j]
  /\ \A i, j \in Sats : i # j /\ m.dist[i][j] < Inf => Nearer(g, m, i, j, m.next[i][j])

LEMMA LinkLengths ==
  ASSUME NEW g \in Geometries, NEW l, Active(g, l)
  PROVE  g.isl[l] \in Nat \ {0} /\ g.isl[l] <= IslRange /\ g.isl[l] < Inf
  BY Sizes, GeometryTypes, ShellAssumption DEF Active

LEMMA SameLink ==
  ASSUME NEW g, NEW i, NEW j
  PROVE  (Active(g, {i, j}) <=> Active(g, {j, i})) /\ g.isl[{i, j}] = g.isl[{j, i}]
  <1>1. {i, j} = {j, i}
    OBVIOUS
  <1>2. QED BY <1>1, Zenon

LEMMA MatrixType ==
  ASSUME NEW S, NEW f, f = [i \in Sats |-> [j \in Sats |-> f[i][j]]],
         \A i, j \in Sats : f[i][j] \in S
  PROVE  f \in [Sats -> [Sats -> S]]
  <1>1. ASSUME NEW i \in Sats PROVE f[i] \in [Sats -> S]
    OBVIOUS
  <1>2. f = [i \in Sats |-> f[i]]
    OBVIOUS
  <1>3. QED BY <1>1, <1>2

LEMMA DirectInv ==
  ASSUME NEW g \in Geometries
  PROVE  MatrixInv(g, Direct(g), 0)
  <1> DEFINE m == Direct(g)
  <1>1. ASSUME NEW i \in Sats, NEW j \in Sats
        PROVE  /\ m.dist[i][j] = IF i = j THEN 0
                                 ELSE IF Active(g, {i, j}) THEN g.isl[{i, j}] ELSE Inf
               /\ m.next[i][j] = IF i = j \/ Active(g, {i, j}) THEN j ELSE NoNode
               /\ m.dist[i][j] \in 0..Inf /\ m.next[i][j] \in Sats \union {NoNode}
    BY Sizes, LinkLengths DEF Direct
  <1>2. m.dist \in Distances /\ m.next \in Hops
    <2>1. /\ m.dist = [i \in Sats |-> [j \in Sats |-> m.dist[i][j]]]
          /\ m.next = [i \in Sats |-> [j \in Sats |-> m.next[i][j]]]
      BY DEF Direct
    <2> HIDE DEF m
    <2>2. QED BY <1>1, <2>1, MatrixType DEF Distances, Hops
  <1> HIDE DEF m
  <1>3. ASSUME NEW i \in Sats, NEW j \in Sats PROVE m.dist[i][j] = m.dist[j][i]
    <2>1. (Active(g, {i, j}) <=> Active(g, {j, i})) /\ g.isl[{i, j}] = g.isl[{j, i}]
      BY SameLink
    <2>2. CASE i # j /\ Active(g, {i, j})
      BY <1>1, <2>1, <2>2
    <2>3. CASE i # j /\ ~Active(g, {i, j})
      <3>1. ~Active(g, {j, i})
        BY <2>1, <2>3, Zenon
      <3>2. m.dist[i][j] = Inf /\ m.dist[j][i] = Inf
        BY <1>1, <2>3, <3>1
      <3>3. QED BY <3>2
    <2>4. QED BY <2>2, <2>3
  <1>4. ASSUME NEW i \in Sats, NEW j \in Sats, Active(g, {i, j})
        PROVE  m.dist[i][j] <= g.isl[{i, j}]
    BY <1>1, <1>4, LinkLengths
  <1>5. ASSUME NEW i \in Sats, NEW j \in Sats, i # j, m.dist[i][j] < Inf
        PROVE  Nearer(g, m, i, j, m.next[i][j])
    <2>1. Active(g, {i, j}) /\ m.next[i][j] = j /\ m.dist[i][j] = g.isl[{i, j}]
      BY <1>1, <1>5, Sizes
    <2>2. m.dist[j][j] = 0
      BY <1>1
    <2>3. QED BY <2>1, <2>2, LinkLengths DEF Nearer
  <1>6. \A v \in Sats : ~(v < 0)
    BY Sizes
  <1>7. \A i \in Sats : m.dist[i][i] = 0
    BY <1>1
  <1>8. MatrixInv(g, m, 0)
    BY <1>2, <1>3, <1>4, <1>5, <1>6, <1>7 DEF MatrixInv
  <1>9. QED BY <1>8 DEF m

(* One round keeps what the rounds before it have reached.                 *)
LEMMA ViaInv ==
  ASSUME NEW g \in Geometries, NEW m, NEW k \in Sats, MatrixInv(g, m, k)
  PROVE  MatrixInv(g, Via(m, k), k + 1)
  <1> DEFINE n == Via(m, k)
  <1>1. /\ m.dist \in Distances /\ m.next \in Hops
        /\ \A i \in Sats : m.dist[i][i] = 0
        /\ \A i, j \in Sats : m.dist[i][j] = m.dist[j][i]
        /\ \A i, j, v \in Sats : v < k => m.dist[i][j] <= m.dist[i][v] + m.dist[v][j]
    BY DEF MatrixInv
  <1>2. \A i, j \in Sats : m.dist[i][j] \in 0..Inf /\ m.next[i][j] \in Sats \union {NoNode}
    BY <1>1 DEF Distances, Hops
  <1>3. ASSUME NEW i \in Sats, NEW j \in Sats
        PROVE  /\ n.dist[i][j] = IF Shorter(m, k, i, j) THEN m.dist[i][k] + m.dist[k][j]
                                 ELSE m.dist[i][j]
               /\ n.next[i][j] = IF Shorter(m, k, i, j) THEN m.next[i][k] ELSE m.next[i][j]
    BY DEF Via
  <1>4. /\ n.dist = [i \in Sats |-> [j \in Sats |-> n.dist[i][j]]]
        /\ n.next = [i \in Sats |-> [j \in Sats |-> n.next[i][j]]]
    BY DEF Via
  <1> HIDE DEF n
  (* The new distance is the smaller of the two.                           *)
  <1>5. ASSUME NEW i \in Sats, NEW j \in Sats
        PROVE  /\ n.dist[i][j] \in 0..Inf /\ n.next[i][j] \in Sats \union {NoNode}
               /\ n.dist[i][j] <= m.dist[i][j]
               /\ n.dist[i][j] <= m.dist[i][k] + m.dist[k][j]
               /\ \/ n.dist[i][j] = m.dist[i][j]
                  \/ n.dist[i][j] = m.dist[i][k] + m.dist[k][j]
    BY <1>2, <1>3, Sizes DEF Shorter
  <1>6. n.dist \in Distances /\ n.next \in Hops
    BY <1>4, <1>5, MatrixType DEF Distances, Hops
  <1>7. \A i \in Sats : n.dist[i][i] = 0
    BY <1>1, <1>5, Sizes
  <1>8. ASSUME NEW i \in Sats, NEW j \in Sats PROVE n.dist[i][j] = n.dist[j][i]
    BY <1>1, <1>2, <1>3 DEF Shorter
  <1>9. ASSUME NEW i \in Sats, NEW j \in Sats, Active(g, {i, j})
        PROVE  n.dist[i][j] <= g.isl[{i, j}]
    <2>1. m.dist[i][j] <= g.isl[{i, j}]
      BY <1>9 DEF MatrixInv
    <2>2. QED BY <1>2, <1>5, <1>9, <2>1, LinkLengths, Sizes
  <1>10. ASSUME NEW i \in Sats, NEW j \in Sats, NEW v \in Sats, v < k + 1
         PROVE  n.dist[i][j] <= n.dist[i][v] + n.dist[v][j]
    <2>1. /\ m.dist[i][j] \in Nat /\ m.dist[i][k] \in Nat /\ m.dist[k][j] \in Nat
          /\ m.dist[i][v] \in Nat /\ m.dist[v][j] \in Nat /\ m.dist[k][v] \in Nat
      BY <1>2, Sizes
    <2>2. m.dist[v][k] = m.dist[k][v]
      BY <1>1
    <2>3. CASE v = k
      <3>1. n.dist[i][k] = m.dist[i][k] /\ n.dist[k][j] = m.dist[k][j]
        BY <1>1, <1>3, <2>1 DEF Shorter
      <3>2. QED BY <1>5, <2>3, <3>1
    <2>4. CASE v # k
      <3>1. v < k
        BY <1>10, <2>4, Sizes
      <3>2. /\ m.dist[i][j] <= m.dist[i][v] + m.dist[v][j]
            /\ m.dist[i][k] <= m.dist[i][v] + m.dist[v][k]
            /\ m.dist[k][j] <= m.dist[k][v] + m.dist[v][j]
        BY <1>1, <3>1
      <3>3. /\ n.dist[i][j] <= m.dist[i][j]
            /\ n.dist[i][j] <= m.dist[i][k] + m.dist[k][j] /\ n.dist[i][j] \in Int
            /\ n.dist[i][v] = m.dist[i][v] \/ n.dist[i][v] = m.dist[i][k] + m.dist[k][v]
            /\ n.dist[v][j] = m.dist[v][j] \/ n.dist[v][j] = m.dist[v][k] + m.dist[k][j]
        BY <1>5, Sizes
      <3>4. QED BY <2>1, <2>2, <3>2, <3>3
    <2>5. QED BY <2>3, <2>4
  <1>11. ASSUME NEW i \in Sats, NEW j \in Sats, i # j, n.dist[i][j] < Inf
         PROVE  Nearer(g, n, i, j, n.next[i][j])
    <2>1. CASE ~Shorter(m, k, i, j)
      <3>1. n.dist[i][j] = m.dist[i][j] /\ n.next[i][j] = m.next[i][j]
        BY <1>3, <2>1
      <3>2. Nearer(g, m, i, j, m.next[i][j])
        BY <1>11, <3>1 DEF MatrixInv
      <3> DEFINE h == m.next[i][j]
      <3>3. /\ h \in Sats /\ Active(g, {i, h})
            /\ g.isl[{i, h}] + m.dist[h][j] <= m.dist[i][j] /\ g.isl[{i, h}] \in Nat
        BY <3>2, LinkLengths DEF Nearer
      <3>4. n.dist[h][j] <= m.dist[h][j] /\ n.dist[h][j] \in Nat
            /\ m.dist[h][j] \in Nat /\ m.dist[i][j] \in Nat
        BY <1>2, <1>5, <3>3, Sizes
      <3> HIDE DEF h
      <3>5. n.next[i][j] = h
        BY <3>1 DEF h
      <3>6. QED BY <3>1, <3>3, <3>4, <3>5 DEF Nearer
    <2>2. CASE Shorter(m, k, i, j)
      <3>1. /\ n.dist[i][j] = m.dist[i][k] + m.dist[k][j] /\ n.next[i][j] = m.next[i][k]
            /\ m.dist[i][k] + m.dist[k][j] < m.dist[i][j]
        BY <1>2, <1>3, <2>2, Sizes DEF Shorter
      <3>2. i # k /\ m.dist[i][k] < Inf
        BY <1>1, <1>2, <3>1, Sizes
      <3>3. Nearer(g, m, i, k, m.next[i][k])
        BY <3>2 DEF MatrixInv
      <3> DEFINE h == m.next[i][k]
      <3>4. /\ h \in Sats /\ Active(g, {i, h})
            /\ g.isl[{i, h}] + m.dist[h][k] <= m.dist[i][k] /\ g.isl[{i, h}] \in Nat
        BY <3>3, LinkLengths DEF Nearer
      <3>5. /\ n.dist[h][j] <= m.dist[h][k] + m.dist[k][j] /\ n.dist[h][j] \in Nat
            /\ m.dist[h][k] \in Nat /\ m.dist[k][j] \in Nat /\ m.dist[i][k] \in Nat
        BY <1>2, <1>5, <3>4, Sizes
      <3> HIDE DEF h
      <3>6. n.next[i][j] = h
        BY <3>1 DEF h
      <3>7. QED BY <3>1, <3>4, <3>5, <3>6 DEF Nearer
    <2>3. QED BY <2>1, <2>2
  <1>12. MatrixInv(g, n, k + 1)
    BY <1>6, <1>7, <1>8, <1>9, <1>10, <1>11 DEF MatrixInv
  <1>13. QED BY <1>12 DEF n

(* The rounds are what their recursion says: there is such a function.     *)
LEMMA RoundsEquation ==
  ASSUME NEW g \in Geometries
  PROVE  /\ Rounds(g)[0] = Direct(g)
         /\ \A k \in 1..NumSats : Rounds(g)[k] = Via(Rounds(g)[k - 1], k - 1)
  <1> DEFINE V == [dist : [Sats -> [Sats -> Nat]], next : Hops]
             step == [x \in V \X (1..NumSats) |-> Via(x[1], x[2] - 1)]
  <1>1. Direct(g) \in V
    <2>1. Direct(g).dist \in Distances /\ Direct(g).next \in Hops
      BY DirectInv DEF MatrixInv
    <2>2. Distances \subseteq [Sats -> [Sats -> Nat]]
      BY Sizes DEF Distances
    <2>3. Direct(g) = [dist |-> Direct(g).dist, next |-> Direct(g).next]
      BY DEF Direct
    <2>4. QED BY <2>1, <2>2, <2>3
  <1>2. ASSUME NEW m \in V, NEW k \in 1..NumSats PROVE Via(m, k - 1) \in V
    <2>1. k - 1 \in Sats
      BY Sizes DEF Sats
    <2>2. m.dist \in [Sats -> [Sats -> Nat]] /\ m.next \in Hops
      OBVIOUS
    <2> HIDE DEF V
    <2>3. Via(m, k - 1).dist \in [Sats -> [Sats -> Nat]]
      BY <2>1, <2>2 DEF Via
    <2>4. Via(m, k - 1).next \in Hops
      BY <2>1, <2>2 DEF Via, Hops
    <2>5. Via(m, k - 1) = [dist |-> Via(m, k - 1).dist, next |-> Via(m, k - 1).next]
      BY DEF Via
    <2>6. QED BY <2>3, <2>4, <2>5 DEF V
  <1>3. step \in [V \X (1..NumSats) -> V]
    BY <1>2
  <1>4. \A m \in V, k \in 1..NumSats : step[<<m, k>>] = Via(m, k - 1)
    OBVIOUS
  <1> HIDE DEF V, step
  <1>5. PICK f \in [0..NumSats -> V] : Follows(f, NumSats, Direct(g), step)
    <2>1. NumSats \in Nat
      BY Sizes
    <2>2. QED BY <1>1, <1>3, <2>1, Recursion, Zenon
  <1>6. f = [k \in 0..NumSats |-> IF k = 0 THEN Direct(g) ELSE Via(f[k - 1], k - 1)]
    <2>1. ASSUME NEW k \in 1..NumSats PROVE f[k] = Via(f[k - 1], k - 1)
      <3>1. f[k - 1] \in V
        BY <1>5, Sizes
      <3>2. QED BY <1>4, <1>5, <3>1 DEF Follows
    <2>2. \A k \in 0..NumSats : k = 0 \/ k \in 1..NumSats
      BY Sizes
    <2>3. QED BY <1>5, <2>1, <2>2 DEF Follows
  <1>7. Rounds(g) =
          [k \in 0..NumSats |-> IF k = 0 THEN Direct(g) ELSE Via(Rounds(g)[k - 1], k - 1)]
    BY <1>6, Zenon DEF Rounds
  <1>8. QED BY <1>7, Sizes

LEMMA FloydWarshallInv ==
  ASSUME NEW g \in Geometries
  PROVE  MatrixInv(g, FloydWarshall(g), NumSats)
  <1> DEFINE S == {k \in 0..NumSats : MatrixInv(g, Rounds(g)[k], k)}
  <1>1. 0 \in S
    BY RoundsEquation, DirectInv, Sizes
  <1>2. ASSUME NEW k \in 0..(NumSats - 1), k \in S PROVE k + 1 \in S
    <2>1. k \in Sats /\ k + 1 \in 1..NumSats /\ (k + 1) - 1 = k
      BY Sizes DEF Sats
    <2>2. Rounds(g)[k + 1] = Via(Rounds(g)[k], k)
      BY <2>1, RoundsEquation
    <2>3. MatrixInv(g, Via(Rounds(g)[k], k), k + 1)
      BY <1>2, <2>1, ViaInv
    <2>4. QED BY <2>1, <2>2, <2>3
  <1> HIDE DEF S
  <1>3. \A k \in 0..NumSats : k \in S
    BY <1>1, <1>2, Upwards, Sizes
  <1>4. NumSats \in S
    BY <1>3, Sizes
  <1>5. QED BY <1>4 DEF S, FloydWarshall

(* Distances form a metric.                                                *)
LEMMA Routes ==
  ASSUME NEW g \in Geometries, NEW r, r = SatRoutes[g]
  PROVE  /\ \A i, j \in Sats : /\ r.dist[i][j] \in 0..Inf
                               /\ r.next[i][j] \in Sats \union {NoNode}
                               /\ r.dist[i][j] = r.dist[j][i]
         /\ \A i \in Sats : r.dist[i][i] = 0
         /\ \A i, j \in Sats : Active(g, {i, j}) => r.dist[i][j] <= g.isl[{i, j}]
         /\ \A i, j, v \in Sats : r.dist[i][j] <= r.dist[i][v] + r.dist[v][j]
  <1>1. MatrixInv(g, r, NumSats)
    BY FloydWarshallInv DEF SatRoutes
  <1>2. \A v \in Sats : v < NumSats
    BY Sizes DEF Sats
  <1>3. QED BY <1>1, <1>2 DEF MatrixInv, Distances, Hops

(* In it the next hop of a pair lies on a shortest way.                    *)
LEMMA NextHop ==
  ASSUME NEW g \in Geometries, NEW r, r = SatRoutes[g], NEW i \in Sats, NEW j \in Sats,
         i # j, r.dist[i][j] < Inf, NEW n, n = r.next[i][j]
  PROVE  /\ n \in Sats /\ Active(g, {i, n})
         /\ g.isl[{i, n}] + r.dist[n][j] = r.dist[i][j]
  <1>1. MatrixInv(g, r, NumSats)
    BY FloydWarshallInv DEF SatRoutes
  <1>2. /\ n \in Sats /\ Active(g, {i, n})
        /\ g.isl[{i, n}] + r.dist[n][j] <= r.dist[i][j] /\ g.isl[{i, n}] \in Nat
    BY <1>1, LinkLengths DEF MatrixInv, Nearer
  <1>3. r.dist[i][n] <= g.isl[{i, n}] /\ r.dist[i][j] <= r.dist[i][n] + r.dist[n][j]
    BY <1>2, Routes
  <1>4. /\ r.dist[i][j] \in Nat /\ r.dist[i][n] \in Nat /\ r.dist[n][j] \in Nat
    BY <1>2, Routes, Sizes
  <1>5. QED BY <1>2, <1>3, <1>4

-----------------------------------------------------------------------------
(* Ground stations.  Where there is a choice there is a best one.          *)

LEMMA UplinkTypes ==
  ASSUME NEW g \in Geometries, NEW gst \in Gsts
  PROVE  /\ Uplinks(g, gst) \subseteq Sats
         /\ \A s \in Sats : g.up[gst][s] \in Nat \ {0}
  BY GeometryTypes DEF Uplinks, InView

(* The element of least weight, and of these the first.                    *)
LEMMA LightestFirst ==
  ASSUME NEW T, T \subseteq Nat, T # {}, NEW w \in [T -> Nat]
  PROVE  \E x \in T : \A y \in T : w[x] < w[y] \/ (w[x] = w[y] /\ x <= y)
  <1>1. {w[x] : x \in T} \subseteq Nat /\ {w[x] : x \in T} # {}
    OBVIOUS
  <1>2. PICK n \in {w[x] : x \in T} : \A m \in {w[x] : x \in T} : n <= m
    BY <1>1, LeastElement
  <1>3. {x \in T : w[x] = n} \subseteq Nat /\ {x \in T : w[x] = n} # {}
    OBVIOUS
  <1>4. PICK x \in {z \in T : w[z] = n} : \A y \in {z \in T : w[z] = n} : x <= y
    BY <1>3, LeastElement
  <1>5. ASSUME NEW y \in T PROVE w[x] < w[y] \/ (w[x] = w[y] /\ x <= y)
    <2>1. n <= w[y] /\ w[y] \in Nat /\ n \in Nat /\ w[x] = n
      BY <1>1, <1>2
    <2>2. w[y] = n => x <= y
      BY <1>4
    <2>3. QED BY <2>1, <2>2
  <1>6. QED BY <1>5

LEMMA BestUplink ==
  ASSUME NEW g \in Geometries, NEW r, r = SatRoutes[g], NEW gst \in Gsts, NEW s \in Sats,
         Candidates(g, r, gst, s) # {}, NEW up, up = Best(g, r, gst, s)
  PROVE  /\ up \in Candidates(g, r, gst, s)
         /\ s \in Uplinks(g, gst) => up = s
         /\ s \notin Uplinks(g, gst) =>
              \A v \in Candidates(g, r, gst, s) :
                ViaUplink(g, r, gst, s, up) <= ViaUplink(g, r, gst, s, v)
  <1> DEFINE T == Candidates(g, r, gst, s)
             w == [v \in T |-> ViaUplink(g, r, gst, s, v)]
  <1>1. T \subseteq Sats /\ T \subseteq Nat
    BY UplinkTypes, Sizes DEF Candidates
  <1>2. CASE s \in Uplinks(g, gst)
    <2>1. r.dist[s][s] = 0
      BY Routes
    <2>2. 0 < Inf
      BY Sizes, ShellAssumption
    <2>3. QED BY <1>2, <2>1, <2>2 DEF Best, Candidates
  <1>3. CASE s \notin Uplinks(g, gst)
    <2>1. ASSUME NEW v \in T PROVE ViaUplink(g, r, gst, s, v) \in Nat
      <3>1. v \in Sats
        BY <1>1
      <3>2. r.dist[s][v] \in Nat /\ g.up[gst][v] \in Nat
        BY <3>1, Routes, Sizes, UplinkTypes
      <3>3. QED BY <3>2 DEF ViaUplink
    <2>2. w \in [T -> Nat] /\ \A v \in T : w[v] = ViaUplink(g, r, gst, s, v)
      BY <2>1
    <2> HIDE DEF w
    <2>3. \E x \in T : \A y \in T : w[x] < w[y] \/ (w[x] = w[y] /\ x <= y)
      BY <1>1, <2>2, LightestFirst
    <2>4. up = CHOOSE x \in T : \A v \in T :
                 \/ ViaUplink(g, r, gst, s, x) < ViaUplink(g, r, gst, s, v)
                 \/ ViaUplink(g, r, gst, s, x) = ViaUplink(g, r, gst, s, v) /\ x <= v
      BY <1>3, Zenon DEF Best
    <2>5. \E x \in T : \A v \in T :
            \/ ViaUplink(g, r, gst, s, x) < ViaUplink(g, r, gst, s, v)
            \/ ViaUplink(g, r, gst, s, x) = ViaUplink(g, r, gst, s, v) /\ x <= v
      BY <2>2, <2>3
    <2> HIDE DEF T
    <2>6. up \in T /\ \A v \in T :
            \/ ViaUplink(g, r, gst, s, up) < ViaUplink(g, r, gst, s, v)
            \/ ViaUplink(g, r, gst, s, up) = ViaUplink(g, r, gst, s, v) /\ up <= v
      BY <2>4, <2>5, Zenon
    <2>7. \A v \in T : ViaUplink(g, r, gst, s, up) <= ViaUplink(g, r, gst, s, v)
      BY <2>1, <2>6
    <2>8. QED BY <1>3, <2>6, <2>7 DEF T
  <1>4. QED BY <1>2, <1>3

LEMMA BestOfConnections ==
  ASSUME NEW g \in Geometries, NEW r, r = SatRoutes[g], NEW g1 \in Gsts, NEW g2 \in Gsts,
         Connections(g, r, g1, g2) # {}, NEW c, c = BestConnection(g, r, g1, g2)
  PROVE  /\ c \in Connections(g, r, g1, g2)
         /\ \A d \in Connections(g, r, g1, g2) :
              Between(g, r, g1, g2, c) <= Between(g, r, g1, g2, d)
  <1> DEFINE T == Connections(g, r, g1, g2)
             B(d) == Between(g, r, g1, g2, d)
  <1>1. ASSUME NEW d \in T PROVE d[1] \in Sats /\ d[2] \in Sats /\ d[1] \in Nat /\ d[2] \in Nat
    BY UplinkTypes, Sizes DEF Connections
  <1>2. ASSUME NEW d \in T PROVE B(d) \in Nat
    <2>1. r.dist[d[1]][d[2]] \in Nat /\ g.up[g1][d[1]] \in Nat /\ g.up[g2][d[2]] \in Nat
      BY <1>1, Routes, Sizes, UplinkTypes
    <2>2. QED BY <2>1 DEF Between
  <1> HIDE DEF T, B
  <1>3. PICK x \in T : \A d \in T : B(x) <= B(d)
    <2>1. {B(d) : d \in T} \subseteq Nat /\ {B(d) : d \in T} # {}
      BY <1>2 DEF T
    <2>2. PICK n \in {B(d) : d \in T} : \A m \in {B(d) : d \in T} : n <= m
      BY <2>1, LeastElement
    <2>3. QED BY <2>2
  <1>4. PICK y \in T : B(y) = B(x) /\ \A d \in T : B(d) = B(x) => y[1] <= d[1]
    <2> DEFINE F == {d[1] : d \in {z \in T : B(z) = B(x)}}
    <2>1. F \subseteq Nat /\ F # {}
      BY <1>1
    <2>2. PICK n \in F : \A m \in F : n <= m
      BY <2>1, LeastElement
    <2>3. QED BY <2>2
  <1>5. PICK z \in T : /\ B(z) = B(x) /\ z[1] = y[1]
                       /\ \A d \in T : B(d) = B(x) /\ d[1] = y[1] => z[2] <= d[2]
    <2> DEFINE F == {d[2] : d \in {u \in T : B(u) = B(x) /\ u[1] = y[1]}}
    <2>1. F \subseteq Nat /\ F # {}
      BY <1>1, <1>4
    <2>2. PICK n \in F : \A m \in F : n <= m
      BY <2>1, LeastElement
    <2>3. QED BY <2>2
  <1> DEFINE Before(u, d) == \/ B(u) < B(d)
                             \/ B(u) = B(d) /\ (u[1] < d[1] \/ (u[1] = d[1] /\ u[2] <= d[2]))
  <1>6. ASSUME NEW d \in T PROVE Before(z, d)
    <2>1. B(z) \in Nat /\ B(d) \in Nat /\ B(z) <= B(d)
      BY <1>2, <1>3, <1>5
    <2>2. B(z) = B(d) => z[1] <= d[1] /\ (z[1] = d[1] => z[2] <= d[2])
      BY <1>4, <1>5
    <2>3. z[1] \in Nat /\ d[1] \in Nat
      BY <1>1
    <2>4. QED BY <2>1, <2>2, <2>3
  <1>7. c = CHOOSE u \in T : \A d \in T : Before(u, d)
    BY Zenon DEF BestConnection, T, B
  <1> HIDE DEF Before
  <1>8. c \in T /\ \A d \in T : Before(c, d)
    BY <1>6, <1>7, Zenon
  <1>9. \A d \in T : B(c) <= B(d)
    BY <1>2, <1>8 DEF Before
  <1>10. QED BY <1>8, <1>9 DEF T, B

-----------------------------------------------------------------------------
(* A pair stands for two entries, its own and that of the way back.        *)
LEMMA PairEntries ==
  ASSUME NEW p \in Pairs
  PROVE  p \in Entries /\ Opposite(p) \in Entries /\ Opposite(p) \notin Pairs
         /\ Opposite(Opposite(p)) = p
  <1>1. PICK i \in Nodes, j \in Nodes : p = <<i, j>>
    BY DEF Pairs
  <1>2. p \in Entries /\ Opposite(p) \in Entries /\ Opposite(Opposite(p)) = p
    BY <1>1 DEF Pairs, Entries, Opposite
  <1>3. Opposite(p) \notin Pairs
    BY <1>1, Sizes DEF Pairs, Opposite, Nodes
  <1>4. QED BY <1>2, <1>3

(* There are three kinds of pairs.                                         *)
LEMMA PairKinds ==
  ASSUME NEW p \in Pairs
  PROVE  /\ p = <<p[1], p[2]>> /\ p[1] # p[2]
         /\ \/ p[1] \in Sats /\ p[2] \in Sats /\ p[1] < p[2]
            \/ p[1] \in Gsts /\ p[2] \in Sats
            \/ p[1] \in Gsts /\ p[2] \in Gsts /\ p[1] < p[2]
  BY Sizes DEF Pairs, Nodes

-----------------------------------------------------------------------------
(* Every pair of a timestep has its type, and those that are active have   *)
(* nodes for hops: -1 stays with the pairs that are not.                   *)
Usable(path) ==
  path \in PathType /\ (path.active => path.next \in Nodes /\ path.prev \in Nodes)

LEMMA UsablePath ==
  ASSUME NEW a \in BOOLEAN, NEW n \in Nodes \union {NoNode}, NEW v \in Nodes \union {NoNode},
         NEW d \in Nat, NEW b \in Nat, a => n \in Nodes /\ v \in Nodes
  PROVE  Usable([active |-> a, next |-> n, prev |-> v, delay |-> d, bandwidth |-> b])
  BY DEF Usable, PathType

LEMMA SatPathUsable ==
  ASSUME NEW g \in Geometries, NEW r, r = SatRoutes[g], NEW i \in Sats, NEW j \in Sats, i # j
  PROVE  Usable(SatPath(r, i, j))
  <1>1. /\ r.dist[i][j] \in 0..Inf /\ r.dist[i][j] = r.dist[j][i]
        /\ r.next[i][j] \in Sats \union {NoNode} /\ r.next[j][i] \in Sats \union {NoNode}
    BY Routes
  <1>2. r.dist[i][j] < Inf => r.next[i][j] \in Sats /\ r.next[j][i] \in Sats
    BY <1>1, NextHop
  <1> DEFINE a == r.dist[i][j] < Inf
  <1>3. a \in BOOLEAN
    OBVIOUS
  <1>4. /\ r.next[i][j] \in Nodes \union {NoNode} /\ r.next[j][i] \in Nodes \union {NoNode}
        /\ r.dist[i][j] \in Nat /\ IslBandwidth \in Nat
        /\ a => r.next[i][j] \in Nodes /\ r.next[j][i] \in Nodes
    BY <1>1, <1>2, Sizes, ShellAssumption DEF Nodes
  <1>5. SatPath(r, i, j) = [active |-> a, next |-> r.next[i][j], prev |-> r.next[j][i],
                            delay |-> r.dist[i][j], bandwidth |-> IslBandwidth]
    BY Zenon DEF SatPath
  <1> HIDE DEF a
  <1>6. QED BY <1>3, <1>4, <1>5, UsablePath

LEMMA RoutedPaths ==
  ASSUME NEW g \in Geometries, NEW old \in [Pairs -> PathType], NEW p \in Pairs
  PROVE  Usable(UpdatePaths(g, SatRoutes[g], old)[p])
  <1> DEFINE r == SatRoutes[g]
             new == UpdatePaths(g, r, old)
  <1> USE DEF PathType
  <1>1. CASE p[1] \in Sats /\ p[2] \in Sats
    <2>1. new[p] = SatPath(r, p[1], p[2])
      BY <1>1 DEF UpdatePaths
    <2>2. QED BY <1>1, <2>1, SatPathUsable, PairKinds
  <1>2. CASE p[1] \in Gsts /\ p[2] \in Sats
    <2>1. new[p] = GstPath(g, r, p[1], p[2], old[p])
      BY <1>2, Sizes DEF UpdatePaths
    <2>2. CASE Candidates(g, r, p[1], p[2]) = {}
      BY <2>1, <2>2 DEF GstPath, Usable
    <2>3. CASE Candidates(g, r, p[1], p[2]) # {}
      <3> DEFINE up == Best(g, r, p[1], p[2])
                 back == IF up = p[2] THEN p[1] ELSE r.next[p[2]][up]
      <3>1. new[p] = GstPathOver(g, r, p[1], p[2], up, back)
        BY <2>1, <2>3 DEF GstPath
      <3>2. up \in Candidates(g, r, p[1], p[2])
        BY <1>2, <2>3, BestUplink
      <3>3. up \in Sats /\ r.dist[p[2]][up] \in Nat /\ r.dist[p[2]][up] < Inf
            /\ g.up[p[1]][up] \in Nat
        BY <1>2, <3>2, UplinkTypes, Routes, Sizes DEF Candidates
      <3>4. back \in Nodes
        BY <1>2, <3>3, NextHop DEF Nodes
      <3>5. ViaUplink(g, r, p[1], p[2], up) \in Nat
        BY <3>3 DEF ViaUplink
      <3>6. Min2(GstBandwidth[p[1]], IslBandwidth) \in Nat
        BY <1>2, ShellAssumption DEF Min2
      <3> HIDE DEF up, back, r, new
      <3>7. Usable(new[p])
        BY <3>1, <3>3, <3>4, <3>5, <3>6 DEF GstPathOver, Usable, Nodes
      <3>8. QED BY <3>7 DEF new, r
    <2>4. QED BY <2>2, <2>3
  <1>3. CASE p[1] \in Gsts /\ p[2] \in Gsts
    <2>1. new[p] = GroundPath(g, r, p[1], p[2], old[p])
      BY <1>3, Sizes DEF UpdatePaths
    <2>2. CASE Connections(g, r, p[1], p[2]) = {}
      BY <2>1, <2>2 DEF GroundPath, Usable
    <2>3. CASE Connections(g, r, p[1], p[2]) # {}
      <3> DEFINE c == BestConnection(g, r, p[1], p[2])
                 d == Between(g, r, p[1], p[2], c)
      <3>1. new[p] = [active |-> TRUE, next |-> c[1], prev |-> c[2],
                      delay |-> d, bandwidth |-> d]
        BY <2>1, <2>3 DEF GroundPath
      <3>2. c \in Connections(g, r, p[1], p[2])
        BY <1>3, <2>3, BestOfConnections
      <3>3. /\ c[1] \in Sats /\ c[2] \in Sats
            /\ g.up[p[1]][c[1]] \in Nat /\ g.up[p[2]][c[2]] \in Nat
        BY <1>3, <3>2, UplinkTypes DEF Connections
      <3>4. r.dist[c[1]][c[2]] \in Nat
        BY <3>3, Routes, Sizes
      <3>5. d \in Nat
        BY <3>3, <3>4 DEF Between
      <3> HIDE DEF c, d, r, new
      <3>6. Usable(new[p])
        BY <3>1, <3>3, <3>5 DEF Usable, Nodes
      <3>7. QED BY <3>6 DEF new, r
    <2>4. QED BY <2>2, <2>3
  <1>4. QED BY <1>1, <1>2, <1>3, PairKinds

LEMMA ReceivedType ==
  ASSUME NEW entry \in [blocked : BOOLEAN, latency : Nat, next : Nodes \union {ZeroID}],
         NEW path, Usable(path), NEW hop, path.active => hop \in Nodes
  PROVE  Received(entry, path, hop) \in
           [blocked : BOOLEAN, latency : Nat, next : Nodes \union {ZeroID}]
  BY DEF Received, Usable, PathType

LEMMA TypeStep == TypeOK /\ [Next]_vars => TypeOK'
  <1> SUFFICES ASSUME TypeOK, [Next]_vars PROVE TypeOK'
    OBVIOUS
  <1>1. ASSUME NEW g \in Geometries, Step(g) PROVE TypeOK'
    <2> DEFINE new == UpdatePaths(g, SatRoutes[g], paths)
               diff == LinkDiff(new)
    <2>1. /\ geometry' = g /\ paths' = new
          /\ sent' = [p \in Pairs |-> IF p \in diff THEN new[p] ELSE sent[p]]
          /\ network' = Updated(network, diff, new)
          /\ active' = (active \ (geometry.inBox \ g.inBox))
                         \union (g.inBox \ geometry.inBox)
      BY <1>1 DEF Step
    <2>2. \A p \in Pairs : Usable(new[p])
      BY RoutedPaths DEF TypeOK
    <2>3. new = [p \in Pairs |-> new[p]]
      BY DEF UpdatePaths
    <2>4. diff \subseteq Pairs
      BY DEF LinkDiff
    <2> HIDE DEF new, diff
    <2>5. new \in [Pairs -> PathType]
      BY <2>2, <2>3 DEF Usable
    <2>6. sent' \in [Pairs -> PathType]
      BY <2>1, <2>5 DEF TypeOK
    <2>7. active' \subseteq Sats
      BY <2>1, GeometryTypes DEF TypeOK
    <2> DEFINE E == [blocked : BOOLEAN, latency : Nat, next : Nodes \union {ZeroID}]
    <2>8. ASSUME NEW e \in Entries
          PROVE  /\ e \in diff => Received(network[e], new[e], new[e].next) \in E
                 /\ Opposite(e) \in diff =>
                      Received(network[e], new[Opposite(e)], new[Opposite(e)].prev) \in E
      <3>1. network[e] \in E
        BY DEF TypeOK
      <3>2. \A p \in diff :
              /\ Usable(new[p])
              /\ new[p].active => new[p].next \in Nodes /\ new[p].prev \in Nodes
        BY <2>2, <2>4 DEF Usable
      <3>3. QED BY <3>1, <3>2, ReceivedType
    <2>9. network' \in [Entries -> E]
      BY <2>1, <2>8 DEF Updated, TypeOK
    <2>10. QED BY <2>1, <2>5, <2>6, <2>7, <2>9 DEF TypeOK
  <1>2. CASE UNCHANGED vars
    BY <1>2 DEF vars, TypeOK
  <1>3. QED BY <1>1, <1>2 DEF Next

(* Every variable has its type, in whatever order geometries follow each   *)
(* other; so no host ever has -1 for a next hop.                           *)
THEOREM TypeCorrect == Spec => []TypeOK
  <1>1. Init => TypeOK
    <2>1. ZeroPath \in PathType
      BY Sizes DEF PathType, ZeroPath, Nodes, Sats
    <2>2. NewEntry \in [blocked : BOOLEAN, latency : Nat, next : Nodes \union {ZeroID}]
      BY DEF NewEntry
    <2>3. QED BY <2>1, <2>2 DEF Init, TypeOK
  <1>2. QED BY <1>1, TypeStep, PTL DEF Spec

-----------------------------------------------------------------------------
(* What a host has of a pair is what was last reported of it, and that is  *)
(* still right to the threshold.                                           *)
ReportedInv ==
  /\ active = geometry.inBox
  /\ \A p \in Pairs :
       /\ ~Differs(sent[p], paths[p])
       /\ network[p].blocked <=> ~sent[p].active
       /\ network[Opposite(p)].blocked <=> ~sent[p].active
       /\ sent[p].active =>
            /\ network[p].next = sent[p].next
            /\ network[p].latency = sent[p].delay
            /\ network[Opposite(p)].latency = sent[p].delay

LEMMA SameDoesNotDiffer ==
  ASSUME NEW path, path.delay \in Nat
  PROVE  ~Differs(path, path)
  BY ShellAssumption DEF Differs, Abs

LEMMA ReportedStep ==
  TypeOK /\ TypeOK' /\ ReportedInv /\ [Next]_vars => ReportedInv'
  <1> SUFFICES ASSUME TypeOK, TypeOK', ReportedInv, [Next]_vars PROVE ReportedInv'
    OBVIOUS
  <1>1. ASSUME NEW g \in Geometries, Step(g) PROVE ReportedInv'
    <2> DEFINE new == UpdatePaths(g, SatRoutes[g], paths)
               diff == LinkDiff(new)
    <2>1. /\ geometry' = g /\ paths' = new
          /\ sent' = [p \in Pairs |-> IF p \in diff THEN new[p] ELSE sent[p]]
          /\ network' = Updated(network, diff, new)
          /\ active' = (active \ (geometry.inBox \ g.inBox))
                         \union (g.inBox \ geometry.inBox)
      BY <1>1 DEF Step
    <2>2. active' = geometry'.inBox
      BY <2>1 DEF ReportedInv
    <2>3. diff = {p \in Pairs : Differs(sent[p], new[p])}
      BY DEF LinkDiff
    <2> HIDE DEF new, diff
    <2>4. ASSUME NEW p \in Pairs
          PROVE  /\ ~Differs(sent'[p], paths'[p])
                 /\ network'[p].blocked <=> ~sent'[p].active
                 /\ network'[Opposite(p)].blocked <=> ~sent'[p].active
                 /\ sent'[p].active =>
                      /\ network'[p].next = sent'[p].next
                      /\ network'[p].latency = sent'[p].delay
                      /\ network'[Opposite(p)].latency = sent'[p].delay
      <3>1. /\ p \in Entries /\ Opposite(p) \in Entries /\ Opposite(p) \notin Pairs
            /\ Opposite(Opposite(p)) = p
        BY PairEntries
      <3>2. CASE p \in diff
        <4>1. sent'[p] = new[p] /\ paths'[p] = new[p]
          BY <2>1, <3>2
        <4>2. paths'[p].delay \in Nat
          BY DEF TypeOK, PathType
        <4>3. /\ network'[p] = Received(network[p], new[p], new[p].next)
              /\ network'[Opposite(p)] =
                   Received(network[Opposite(p)], new[p], new[p].prev)
          BY <2>1, <2>3, <3>1, <3>2 DEF Updated
        <4>4. ~Differs(sent'[p], paths'[p])
          BY <4>1, <4>2, SameDoesNotDiffer
        <4>5. QED BY <4>1, <4>3, <4>4 DEF Received
      <3>3. CASE p \notin diff
        <4>1. sent'[p] = sent[p] /\ ~Differs(sent[p], new[p])
          BY <2>1, <2>3, <3>3
        <4>2. network'[p] = network[p] /\ network'[Opposite(p)] = network[Opposite(p)]
          BY <2>1, <2>3, <3>1, <3>3 DEF Updated
        <4>3. QED BY <2>1, <4>1, <4>2 DEF ReportedInv
      <3>4. QED BY <3>2, <3>3
    <2>5. QED BY <2>2, <2>4 DEF ReportedInv
  <1>2. CASE UNCHANGED vars
    BY <1>2 DEF vars, ReportedInv, Differs
  <1>3. QED BY <1>1, <1>2 DEF Next

(* However many timesteps have left a pair out of their diffs because it   *)
(* changed too little, a host has every pair to the threshold.             *)
THEOREM HostsStayCurrent == Spec => []HostsAreCurrent
  <1>1. Init => ReportedInv
    <2> SUFFICES ASSUME Init PROVE ReportedInv
      OBVIOUS
    <2>1. ~Differs(ZeroPath, ZeroPath)
      <3>1. ZeroPath.delay \in Nat
        BY DEF ZeroPath
      <3>2. QED BY <3>1, SameDoesNotDiffer
    <2>2. \A p \in Pairs : /\ sent[p] = ZeroPath /\ paths[p] = ZeroPath
                           /\ network[p] = NewEntry /\ network[Opposite(p)] = NewEntry
      BY PairEntries DEF Init
    <2>3. ~ZeroPath.active /\ NewEntry.blocked
      BY DEF ZeroPath, NewEntry
    <2>4. active = geometry.inBox
      BY DEF Init, NoGeometry
    <2>5. QED BY <2>1, <2>2, <2>3, <2>4 DEF ReportedInv
  <1>2. TypeOK /\ ReportedInv => HostsAreCurrent
    <2> SUFFICES ASSUME TypeOK, ReportedInv, NEW p \in Pairs
                 PROVE  /\ network[p].blocked <=> ~paths[p].active
                        /\ paths[p].active =>
                             /\ network[p].next = paths[p].next
                             /\ Abs(network[p].latency - paths[p].delay) <= Threshold
                             /\ network[Opposite(p)].latency = network[p].latency
                        /\ network[Opposite(p)].blocked <=> ~paths[p].active
      BY DEF HostsAreCurrent, ReportedInv
    <2>1. /\ sent[p].delay \in Nat /\ paths[p].delay \in Nat
          /\ sent[p].active \in BOOLEAN /\ paths[p].active \in BOOLEAN
      BY DEF TypeOK, PathType
    <2>2. ~Differs(sent[p], paths[p])
      BY DEF ReportedInv
    <2>3. /\ sent[p].active <=> paths[p].active
          /\ sent[p].next = paths[p].next
          /\ Abs(sent[p].delay - paths[p].delay) <= Threshold
      <3>1. sent[p].active <=> paths[p].active
        BY <2>1, <2>2, Zenon DEF Differs
      <3>2. Abs(sent[p].delay - paths[p].delay) <= Threshold
        BY <2>1, <2>2, ShellAssumption DEF Differs, Abs
      <3>3. QED BY <2>2, <3>1, <3>2 DEF Differs
    <2>4. QED BY <2>3 DEF ReportedInv
  <1>3. QED BY <1>1, <1>2, ReportedStep, TypeCorrect, PTL DEF Spec

-----------------------------------------------------------------------------
(* Chains of n satellites with active links, and their lengths.            *)
Chain(g, n, p) ==
  /\ n \in Nat \ {0} /\ p \in [1..n -> Sats]
  /\ \A k \in 1..(n - 1) : Active(g, {p[k], p[k + 1]})

LinkOf(g, p, k) == g.isl[{p[k], p[k + 1]}]

LEMMA LengthsEquation ==
  ASSUME NEW g \in Geometries, NEW n, NEW p, Chain(g, n, p)
  PROVE  /\ Length(g, p) = Lengths(g, p)[n - 1]
         /\ \A k \in 0..(n - 1) : Lengths(g, p)[k] \in Nat
         /\ Lengths(g, p)[0] = 0
         /\ \A k \in 1..(n - 1) :
              /\ Lengths(g, p)[k] = Lengths(g, p)[k - 1] + LinkOf(g, p, k)
              /\ LinkOf(g, p, k) \in Nat
  <1> DEFINE link(k) == LinkOf(g, p, k)
             step == [x \in Nat \X (1..(n - 1)) |-> x[1] + link(x[2])]
  <1>1. n - 1 \in Nat /\ Len(p) = n
    BY LenOfFunction DEF Chain
  <1>2. \A k \in 1..(n - 1) : link(k) \in Nat
    BY LinkLengths DEF Chain, LinkOf
  <1> HIDE DEF link
  <1>3. step \in [Nat \X (1..(n - 1)) -> Nat]
    BY <1>2
  <1>4. \A m \in Nat, k \in 1..(n - 1) : step[<<m, k>>] = m + link(k)
    OBVIOUS
  <1> HIDE DEF step
  <1>5. PICK f \in [0..(n - 1) -> Nat] : Follows(f, n - 1, 0, step)
    <2>1. 0 \in Nat
      OBVIOUS
    <2>2. QED BY <1>1, <1>3, <2>1, Recursion, Zenon
  <1>6. f = [k \in 0..(n - 1) |-> IF k = 0 THEN 0 ELSE f[k - 1] + link(k)]
    <2>1. ASSUME NEW k \in 1..(n - 1) PROVE f[k] = f[k - 1] + link(k)
      <3>1. f[k - 1] \in Nat
        BY <1>1, <1>5
      <3>2. QED BY <1>4, <1>5, <3>1 DEF Follows
    <2>2. \A k \in 0..(n - 1) : k = 0 \/ k \in 1..(n - 1)
      BY <1>1
    <2>3. QED BY <1>5, <2>1, <2>2 DEF Follows
  <1>7. Lengths(g, p) =
          [k \in 0..(n - 1) |-> IF k = 0 THEN 0 ELSE Lengths(g, p)[k - 1] + link(k)]
    BY <1>1, <1>6, Zenon DEF Lengths, link, LinkOf
  <1> DEFINE L == Lengths(g, p)
  <1>8. L[0] = 0 /\ \A k \in 1..(n - 1) : L[k] = L[k - 1] + link(k)
    BY <1>1, <1>7
  <1> HIDE DEF L
  <1>9. \A k \in 0..(n - 1) : L[k] \in Nat
    <2> DEFINE S == {k \in 0..(n - 1) : L[k] \in Nat}
    <2>1. 0 \in S
      BY <1>1, <1>8
    <2>2. ASSUME NEW k \in 0..((n - 1) - 1), k \in S PROVE k + 1 \in S
      <3>1. k + 1 \in 1..(n - 1) /\ (k + 1) - 1 = k
        BY <1>1
      <3>2. L[k + 1] = L[k] + link(k + 1)
        BY <1>8, <3>1
      <3>3. QED BY <1>2, <2>2, <3>1, <3>2
    <2> HIDE DEF S
    <2>3. \A k \in 0..(n - 1) : k \in S
      BY <1>1, <2>1, <2>2, Upwards
    <2>4. QED BY <2>3 DEF S
  <1>10. QED BY <1>1, <1>2, <1>8, <1>9 DEF Length, L, link

(* No chain is shorter than the distance of its ends, and none is as long  *)
(* as Inf.                                                                 *)
LEMMA NoChainIsShorter ==
  ASSUME NEW g \in Geometries, NEW r, r = SatRoutes[g], NEW n, NEW p, Chain(g, n, p)
  PROVE  /\ r.dist[p[1]][p[n]] <= Length(g, p)
         /\ Length(g, p) <= (n - 1) * IslRange
  <1> DEFINE L == Lengths(g, p)
             S == {k \in 0..(n - 1) : r.dist[p[1]][p[k + 1]] <= L[k] /\ L[k] <= k * IslRange}
  <1>1. n \in Nat \ {0} /\ n - 1 \in Nat /\ \A k \in 1..n : p[k] \in Sats
    BY DEF Chain
  <1>2. 0 \in S
    <2>1. p[1] \in Sats
      BY <1>1
    <2>2. r.dist[p[1]][p[1]] = 0 /\ L[0] = 0
      BY <2>1, Routes, LengthsEquation
    <2>3. QED BY <1>1, <2>2, ShellAssumption
  <1>3. ASSUME NEW k \in 0..((n - 1) - 1), k \in S PROVE k + 1 \in S
    <2> DEFINE a == p[1]
               b == p[k + 1]
               c == p[k + 2]
               d == LinkOf(g, p, k + 1)
    <2>1. k + 1 \in 1..(n - 1) /\ k \in 0..(n - 1) /\ (k + 1) - 1 = k /\ (k + 1) + 1 = k + 2
      BY <1>1
    <2>2. a \in Sats /\ b \in Sats /\ c \in Sats
      BY <1>1, <2>1
    <2>3. Active(g, {b, c})
      BY <2>1 DEF Chain
    <2>4. L[k + 1] = L[k] + d /\ L[k] \in Nat
      BY <2>1, LengthsEquation
    <2>5. d \in Nat /\ d <= IslRange /\ r.dist[b][c] <= d
      <3>1. d = g.isl[{b, c}]
        BY <2>1 DEF LinkOf
      <3>2. QED BY <2>2, <2>3, <3>1, Routes, LinkLengths
    <2>6. /\ r.dist[a][c] <= r.dist[a][b] + r.dist[b][c]
          /\ r.dist[a][c] \in Nat /\ r.dist[a][b] \in Nat /\ r.dist[b][c] \in Nat
      BY <2>2, Routes, Sizes
    <2>7. r.dist[a][b] <= L[k] /\ L[k] <= k * IslRange
      BY <1>3
    <2> HIDE DEF a, b, c, d, L
    <2>8. r.dist[a][c] <= L[k + 1]
      BY <2>4, <2>5, <2>6, <2>7
    <2>9. L[k + 1] <= (k + 1) * IslRange
      <3>1. (k + 1) * IslRange = k * IslRange + IslRange /\ k * IslRange \in Nat
        BY ShellAssumption
      <3>2. QED BY <2>4, <2>5, <2>7, <3>1, ShellAssumption
    <2>10. QED BY <2>1, <2>8, <2>9 DEF a, c
  <1> HIDE DEF S
  <1>4. \A k \in 0..(n - 1) : k \in S
    BY <1>1, <1>2, <1>3, Upwards
  <1>5. n - 1 \in S /\ (n - 1) + 1 = n
    BY <1>1, <1>4
  <1>6. QED BY <1>5, LengthsEquation DEF S

(* A chain read from its other end.                                        *)
Reversed(n, p) == [k \in 1..n |-> p[n + 1 - k]]

LEMMA ReversedChain ==
  ASSUME NEW g \in Geometries, NEW n, NEW p, Chain(g, n, p)
  PROVE  Chain(g, n, Reversed(n, p)) /\ Length(g, Reversed(n, p)) = Length(g, p)
  <1> DEFINE q == Reversed(n, p)
             L == Lengths(g, p)
             M == Lengths(g, q)
             S == {k \in 0..(n - 1) : M[k] + L[(n - 1) - k] = L[n - 1]}
  <1>1. n \in Nat \ {0} /\ \A k \in 1..n : p[k] \in Sats /\ q[k] = p[n + 1 - k]
    BY DEF Chain, Reversed
  <1>2. Chain(g, n, q)
    <2>1. q \in [1..n -> Sats]
      BY <1>1 DEF Reversed
    <2>2. ASSUME NEW k \in 1..(n - 1) PROVE Active(g, {q[k], q[k + 1]})
      <3>1. n - k \in 1..(n - 1) /\ (n - k) + 1 = n + 1 - k /\ n + 1 - (k + 1) = n - k
        BY <1>1
      <3>2. q[k] = p[(n - k) + 1] /\ q[k + 1] = p[n - k]
        BY <1>1, <3>1
      <3>3. Active(g, {p[n - k], p[(n - k) + 1]})
        BY <3>1 DEF Chain
      <3>4. QED BY <3>2, <3>3, SameLink, Zenon
    <2>3. QED BY <1>1, <2>1, <2>2 DEF Chain
  <1>3. 0 \in S
    BY <1>1, <1>2, LengthsEquation
  <1>4. ASSUME NEW k \in 0..((n - 1) - 1), k \in S PROVE k + 1 \in S
    <2> DEFINE u == (n - 1) - k
    <2>1. /\ k + 1 \in 1..(n - 1) /\ (k + 1) - 1 = k /\ u \in 1..(n - 1)
          /\ u - 1 = (n - 1) - (k + 1) /\ u - 1 \in 0..(n - 1) /\ k \in 0..(n - 1)
          /\ k + 1 \in 0..(n - 1) /\ n - 1 \in 0..(n - 1)
          /\ n + 1 - (k + 1) = u + 1 /\ n + 1 - ((k + 1) + 1) = u
      BY <1>1
    <2>2. M[k + 1] = M[k] + LinkOf(g, q, k + 1)
      BY <1>2, <2>1, LengthsEquation
    <2>3. L[u] = L[u - 1] + LinkOf(g, p, u)
      BY <2>1, LengthsEquation
    <2>4. q[k + 1] = p[u + 1] /\ q[(k + 1) + 1] = p[u]
      BY <1>1, <2>1
    <2>5. LinkOf(g, q, k + 1) = LinkOf(g, p, u)
      BY <2>4, SameLink, Zenon DEF LinkOf
    <2>6. LinkOf(g, p, u) \in Nat
      BY <2>1, LengthsEquation
    <2>7. M[k] \in Nat /\ L[u] \in Nat /\ L[u - 1] \in Nat /\ L[n - 1] \in Nat
      BY <1>2, <2>1, LengthsEquation
    <2>8. M[k] + L[u] = L[n - 1]
      BY <1>4
    <2> HIDE DEF L, M, q
    <2>9. M[k + 1] + L[u - 1] = L[n - 1]
      BY <2>2, <2>3, <2>5, <2>6, <2>7, <2>8
    <2>10. QED BY <2>1, <2>9
  <1> HIDE DEF S
  <1>5. \A k \in 0..(n - 1) : k \in S
    <2>1. n - 1 \in Nat
      BY <1>1
    <2>2. QED BY <2>1, <1>3, <1>4, Upwards
  <1>6. M[n - 1] + L[0] = L[n - 1] /\ L[0] = 0 /\ M[n - 1] \in Nat
    <2>1. n - 1 \in S /\ (n - 1) - (n - 1) = 0 /\ n - 1 \in 0..(n - 1)
      BY <1>1, <1>5
    <2>2. QED BY <1>2, <2>1, LengthsEquation DEF S
  <1>7. Length(g, q) = M[n - 1] /\ Length(g, p) = L[n - 1]
    BY <1>2, LengthsEquation
  <1>8. QED BY <1>2, <1>6, <1>7

(* A simple chain from i to j as long as their distance, with no node      *)
(* farther from i than j is, and with the hop of j towards i at its end.   *)
Realises(g, r, n, p, i, j) ==
  /\ Chain(g, n, p) /\ p[1] = i /\ p[n] = j
  /\ \A k, l \in 1..n : p[k] = p[l] => k = l
  /\ Length(g, p) = r.dist[i][j]
  /\ \A k \in 1..n : r.dist[i][p[k]] <= r.dist[i][j]
  /\ i # j => n > 1 /\ p[n - 1] = r.next[j][i]

LEMMA TrivialChain ==
  ASSUME NEW g \in Geometries, NEW r, r = SatRoutes[g], NEW i \in Sats
  PROVE  Realises(g, r, 1, [k \in 1..1 |-> i], i, i)
  <1> DEFINE p == [k \in 1..1 |-> i]
  <1>1. p \in [1..1 -> Sats] /\ p[1] = i /\ \A k \in 1..1 : k = 1
    OBVIOUS
  <1> HIDE DEF p
  <1>2. Chain(g, 1, p)
    BY <1>1 DEF Chain
  <1>3. Length(g, p) = 0
    BY <1>2, LengthsEquation
  <1>4. r.dist[i][i] = 0
    BY Routes
  <1>5. Realises(g, r, 1, p, i, i)
    BY <1>1, <1>2, <1>3, <1>4 DEF Realises
  <1>6. QED BY <1>5 DEF p

(* One more link at the end.                                               *)
Extended(n, p, j) == [k \in 1..(n + 1) |-> IF k = n + 1 THEN j ELSE p[k]]

LEMMA ExtendedChain ==
  ASSUME NEW g \in Geometries, NEW n, NEW p, Chain(g, n, p), NEW j \in Sats,
         Active(g, {p[n], j})
  PROVE  /\ Chain(g, n + 1, Extended(n, p, j))
         /\ \A k \in 1..n : Extended(n, p, j)[k] = p[k]
         /\ Extended(n, p, j)[n + 1] = j
         /\ Length(g, Extended(n, p, j)) = Length(g, p) + g.isl[{p[n], j}]
  <1> DEFINE q == Extended(n, p, j)
             L == Lengths(g, p)
             M == Lengths(g, q)
             S == {k \in 0..(n - 1) : M[k] = L[k]}
  <1>1. n \in Nat \ {0} /\ (\A k \in 1..n : p[k] \in Sats) /\ (n + 1) - 1 = n
    BY DEF Chain
  <1>2. (\A k \in 1..n : q[k] = p[k]) /\ q[n + 1] = j
    BY <1>1 DEF Extended
  <1>3. Chain(g, n + 1, q)
    <2>1. q \in [1..(n + 1) -> Sats]
      BY <1>1 DEF Extended
    <2>2. ASSUME NEW k \in 1..n PROVE Active(g, {q[k], q[k + 1]})
      <3>1. CASE k = n
        BY <1>1, <1>2, <3>1
      <3>2. CASE k # n
        <4>1. k \in 1..(n - 1) /\ k + 1 \in 1..n
          BY <1>1, <3>2
        <4>2. Active(g, {p[k], p[k + 1]}) /\ q[k] = p[k] /\ q[k + 1] = p[k + 1]
          BY <1>2, <4>1 DEF Chain
        <4>3. QED BY <4>2
      <3>3. QED BY <3>1, <3>2
    <2>3. QED BY <1>1, <2>1, <2>2 DEF Chain
  <1>4. 0 \in S
    BY <1>1, <1>3, LengthsEquation
  <1>5. ASSUME NEW k \in 0..((n - 1) - 1), k \in S PROVE k + 1 \in S
    <2>1. k + 1 \in 1..(n - 1) /\ k + 1 \in 1..n /\ (k + 1) - 1 = k /\ (k + 1) + 1 \in 1..n
          /\ k + 1 \in 1..((n + 1) - 1) /\ k + 1 \in 0..(n - 1)
      BY <1>1
    <2>2. M[k + 1] = M[k] + LinkOf(g, q, k + 1)
      BY <1>3, <2>1, LengthsEquation
    <2>3. L[k + 1] = L[k] + LinkOf(g, p, k + 1)
      BY <2>1, LengthsEquation
    <2>4. q[k + 1] = p[k + 1] /\ q[(k + 1) + 1] = p[(k + 1) + 1]
      BY <1>2, <2>1
    <2>5. LinkOf(g, q, k + 1) = LinkOf(g, p, k + 1)
      BY <2>4 DEF LinkOf
    <2>6. M[k] = L[k]
      BY <1>5
    <2>7. QED BY <2>1, <2>2, <2>3, <2>5, <2>6
  <1> HIDE DEF S
  <1>6. M[n - 1] = L[n - 1]
    <2>1. n - 1 \in Nat
      BY <1>1
    <2>2. \A k \in 0..(n - 1) : k \in S
      BY <2>1, <1>4, <1>5, Upwards
    <2>3. QED BY <2>1, <2>2 DEF S
  <1>7. M[n] = M[n - 1] + g.isl[{p[n], j}]
    <2>1. n \in 1..((n + 1) - 1) /\ n \in 1..n
      BY <1>1
    <2>2. M[n] = M[n - 1] + LinkOf(g, q, n)
      BY <1>3, <2>1, LengthsEquation
    <2>3. QED BY <1>2, <2>1, <2>2 DEF LinkOf
  <1>8. Length(g, q) = M[n] /\ Length(g, p) = L[n - 1]
    BY <1>1, <1>3, LengthsEquation
  <1>9. QED BY <1>2, <1>3, <1>6, <1>7, <1>8

LEMMA ShortestChainExists ==
  ASSUME NEW g \in Geometries, NEW r, r = SatRoutes[g],
         NEW i \in Sats, NEW j \in Sats, r.dist[i][j] < Inf
  PROVE  \E n, p : Realises(g, r, n, p, i, j)
  <1> DEFINE Within(d) == \A v \in Sats : r.dist[i][v] <= d /\ r.dist[i][v] < Inf =>
                            \E n, p : Realises(g, r, n, p, i, v)
             S == {d \in 0..Inf : Within(d)}
  <1>1. \A u, v \in Sats : r.dist[u][v] \in Nat /\ r.dist[u][v] = r.dist[v][u]
    BY Routes, Sizes
  <1>2. ASSUME NEW d \in 0..Inf, \A v \in Sats : r.dist[i][v] < d /\ r.dist[i][v] < Inf =>
                                    \E n, p : Realises(g, r, n, p, i, v),
               NEW v \in Sats, r.dist[i][v] <= d, r.dist[i][v] < Inf
        PROVE  \E n, p : Realises(g, r, n, p, i, v)
    <2>1. CASE v = i
      BY <2>1, TrivialChain
    <2>2. CASE v # i
      <3>0. PICK h : h = r.next[v][i]
        OBVIOUS
      <3> DEFINE w == g.isl[{v, h}]
      <3>1. h \in Sats /\ Active(g, {v, h}) /\ w + r.dist[h][i] = r.dist[v][i]
        <4>1. v # i /\ r.dist[v][i] < Inf
          BY <1>1, <1>2, <2>2
        <4>2. QED BY <3>0, <4>1, NextHop
      <3>2. w \in Nat \ {0}
        BY <3>1, LinkLengths
      <3> HIDE DEF w
      <3>3. r.dist[i][h] < r.dist[i][v] /\ r.dist[i][h] + w = r.dist[i][v]
        BY <1>1, <3>1, <3>2
      <3>4. r.dist[i][h] < d /\ r.dist[i][h] < Inf
        BY <1>1, <1>2, <3>1, <3>3, Sizes
      <3>5. PICK n, p : Realises(g, r, n, p, i, h)
        BY <1>2, <3>1, <3>4
      <3> DEFINE q == Extended(n, p, v)
      <3>6. /\ Chain(g, n, p) /\ p[1] = i /\ p[n] = h /\ Length(g, p) = r.dist[i][h]
            /\ \A k, l \in 1..n : p[k] = p[l] => k = l
            /\ \A k \in 1..n : r.dist[i][p[k]] <= r.dist[i][h]
        BY <3>5 DEF Realises
      <3>7. n \in Nat \ {0} /\ \A k \in 1..n : p[k] \in Sats
        BY <3>6 DEF Chain
      <3>8. Active(g, {p[n], v}) /\ g.isl[{p[n], v}] = w
        BY <3>1, <3>6, SameLink, Zenon DEF w
      <3>9. /\ Chain(g, n + 1, q) /\ (\A k \in 1..n : q[k] = p[k]) /\ q[n + 1] = v
            /\ Length(g, q) = Length(g, p) + w
        BY <3>6, <3>8, ExtendedChain
      <3> HIDE DEF q
      <3>10. \A k \in 1..n : p[k] # v
        <4>1. ASSUME NEW k \in 1..n, p[k] = v PROVE FALSE
          <5>1. r.dist[i][p[k]] <= r.dist[i][h]
            BY <3>6
          <5>2. r.dist[i][v] <= r.dist[i][h] /\ r.dist[i][v] \in Nat /\ r.dist[i][h] \in Nat
            BY <1>1, <3>1, <4>1, <5>1
          <5>3. QED BY <3>3, <5>2
        <4>2. QED BY <4>1
      <3>11. \A k \in 1..(n + 1) : k \in 1..n \/ k = n + 1
        BY <3>7
      <3>12. \A k, l \in 1..(n + 1) : q[k] = q[l] => k = l
        BY <3>6, <3>9, <3>10, <3>11
      <3>13. ASSUME NEW k \in 1..(n + 1) PROVE r.dist[i][q[k]] <= r.dist[i][v]
        <4>1. CASE k = n + 1
          BY <1>1, <3>9, <4>1
        <4>2. CASE k \in 1..n
          <5>1. r.dist[i][p[k]] <= r.dist[i][h] /\ p[k] \in Sats /\ q[k] = p[k]
            BY <3>6, <3>7, <3>9, <4>2
          <5>2. r.dist[i][p[k]] \in Nat /\ r.dist[i][h] \in Nat /\ r.dist[i][v] \in Nat
            BY <1>1, <3>1, <5>1
          <5>3. QED BY <3>3, <5>1, <5>2
        <4>3. QED BY <3>11, <4>1, <4>2
      <3>14. q[1] = i
        BY <3>6, <3>7, <3>9
      <3>15. (n + 1) - 1 = n /\ n + 1 > 1 /\ q[n] = h
        BY <3>6, <3>7, <3>9
      <3>16. Length(g, q) = r.dist[i][v]
        BY <3>3, <3>6, <3>9
      <3>17. Realises(g, r, n + 1, q, i, v)
        BY <3>0, <3>9, <3>12, <3>13, <3>14, <3>15, <3>16 DEF Realises
      <3>18. QED BY <3>17
    <2>3. QED BY <2>1, <2>2
  <1>3. 0 \in S
    <2>1. \A v \in Sats : ~(r.dist[i][v] < 0)
      BY <1>1
    <2>2. 0 \in 0..Inf
      BY Sizes
    <2>3. Within(0)
      BY <1>2, <2>1, <2>2
    <2>4. QED BY <2>2, <2>3
  <1>4. ASSUME NEW d \in 0..(Inf - 1), d \in S PROVE d + 1 \in S
    <2>1. d + 1 \in 0..Inf
      BY Sizes
    <2>2. \A v \in Sats : r.dist[i][v] < d + 1 => r.dist[i][v] <= d
      BY <1>1
    <2>3. Within(d)
      BY <1>4
    <2>4. \A v \in Sats : r.dist[i][v] < d + 1 /\ r.dist[i][v] < Inf =>
            \E n, p : Realises(g, r, n, p, i, v)
      BY <2>2, <2>3
    <2>5. Within(d + 1)
      BY <1>2, <2>1, <2>4
    <2>6. QED BY <2>1, <2>5
  <1> HIDE DEF S
  <1>5. \A d \in 0..Inf : d \in S
    BY <1>3, <1>4, Upwards, Sizes
  <1>6. r.dist[i][j] \in 0..Inf
    BY Routes
  <1>7. Within(r.dist[i][j])
    BY <1>5, <1>6 DEF S
  <1>8. QED BY <1>1, <1>7

(* A simple chain visits every satellite once at most.                     *)
LEMMA SimpleIsShort ==
  ASSUME NEW n \in Nat, NEW p \in [1..n -> Sats], \A k, l \in 1..n : p[k] = p[l] => k = l
  PROVE  n <= NumSats
  <1>1. NumSats \in Nat /\ Sats = 0..(NumSats - 1)
    BY Sizes DEF Sats
  <1>2. IsFiniteSet(Sats) /\ Cardinality(Sats) <= NumSats
    <2>1. 0 \in Int /\ NumSats - 1 \in Int
      BY <1>1
    <2>2. /\ IsFiniteSet(0..(NumSats - 1))
          /\ Cardinality(0..(NumSats - 1)) =
               IF 0 > NumSats - 1 THEN 0 ELSE (NumSats - 1) - 0 + 1
      BY <2>1, FS_Interval
    <2>3. QED BY <1>1, <2>2
  <1>3. IsFiniteSet(1..n) /\ Cardinality(1..n) = n
    <2>1. IsFiniteSet(1..n) /\ Cardinality(1..n) = IF 1 > n THEN 0 ELSE n - 1 + 1
      BY FS_Interval
    <2>2. QED BY <2>1
  <1>4. ~(Cardinality(Sats) < Cardinality(1..n))
    BY <1>2, <1>3, FS_PigeonHole
  <1>5. Cardinality(Sats) \in Nat
    BY <1>2, FS_CardinalityType
  <1>6. QED BY <1>1, <1>2, <1>3, <1>4, <1>5

(* What Floyd-Warshall computes for two satellites is what Shortest says.  *)
Found(g, i, j) ==
  {p \in SimplePaths : /\ p[1] = i /\ p[Len(p)] = j
                       /\ \A k \in 1..(Len(p) - 1) : Active(g, {p[k], p[k + 1]})}

LEMMA FoundIsChain ==
  ASSUME NEW g \in Geometries, NEW i, NEW j, NEW p \in Found(g, i, j)
  PROVE  /\ Chain(g, Len(p), p) /\ p[1] = i /\ p[Len(p)] = j
         /\ \A k, l \in 1..Len(p) : p[k] = p[l] => k = l
  <1>1. /\ p \in SeqOf(Sats, NumSats) /\ Len(p) > 1 /\ IsInjective(p)
        /\ p[1] = i /\ p[Len(p)] = j
        /\ \A k \in 1..(Len(p) - 1) : Active(g, {p[k], p[k + 1]})
    BY DEF Found, SimplePaths
  <1>2. PICK n \in 0..NumSats : p \in [1..n -> Sats]
    BY <1>1 DEF SeqOf
  <1>3. n \in Nat /\ Len(p) = n
    BY <1>2, LenOfFunction, Sizes
  <1>4. QED BY <1>1, <1>2, <1>3 DEF Chain, IsInjective

LEMMA ChainIsFound ==
  ASSUME NEW g \in Geometries, NEW n, NEW p, Chain(g, n, p), n > 1,
         \A k, l \in 1..n : p[k] = p[l] => k = l
  PROVE  p \in Found(g, p[1], p[n]) /\ Len(p) = n
  <1>1. n \in Nat /\ p \in [1..n -> Sats]
    BY DEF Chain
  <1>2. n <= NumSats /\ NumSats \in Nat
    BY <1>1, SimpleIsShort, Sizes
  <1>3. Len(p) = n
    BY <1>1, LenOfFunction
  <1>4. p \in SeqOf(Sats, NumSats)
    <2>1. n \in 0..NumSats
      BY <1>1, <1>2
    <2>2. QED BY <1>1, <2>1 DEF SeqOf
  <1>5. IsInjective(p)
    BY <1>1 DEF IsInjective
  <1>6. \A k \in 1..(n - 1) : Active(g, {p[k], p[k + 1]})
    BY DEF Chain
  <1>7. \A k \in 1..(n - 1) : {p[k], p[k + 1]} \in Links
    BY <1>6, Zenon DEF Active
  <1>8. QED BY <1>3, <1>4, <1>5, <1>6, <1>7 DEF Found, SimplePaths

LEMMA RoutesAreShortest ==
  ASSUME NEW g \in Geometries, NEW r, r = SatRoutes[g],
         NEW i \in Sats, NEW j \in Sats, i # j
  PROVE  /\ r.dist[i][j] < Inf <=> Shortest(g, i, j) # {}
         /\ r.dist[i][j] < Inf =>
              \E p, q \in Shortest(g, i, j) :
                /\ r.dist[i][j] = Length(g, p)
                /\ r.next[i][j] = p[2] /\ r.next[j][i] = q[Len(q) - 1]
  <1>1. Shortest(g, i, j) =
          {p \in Found(g, i, j) : \A q \in Found(g, i, j) : Length(g, p) <= Length(g, q)}
    BY DEF Shortest, Found
  <1>2. r.dist[i][j] \in Nat /\ r.dist[i][j] = r.dist[j][i] /\ Inf \in Nat
    BY Routes, Sizes
  <1>3. ASSUME NEW p \in Found(g, i, j)
        PROVE  r.dist[i][j] <= Length(g, p) /\ r.dist[i][j] < Inf
    <2> DEFINE n == Len(p)
    <2>1. Chain(g, n, p) /\ p[1] = i /\ p[n] = j
      BY FoundIsChain
    <2>2. r.dist[i][j] <= Length(g, p) /\ Length(g, p) <= (n - 1) * IslRange
      BY <2>1, NoChainIsShorter
    <2>3. n \in Nat \ {0} /\ n <= NumSats
      BY <2>1, FoundIsChain, SimpleIsShort DEF Chain
    <2>4. Length(g, p) \in Nat
      <3>1. n - 1 \in 0..(n - 1)
        BY <2>3
      <3>2. QED BY <2>1, <3>1, LengthsEquation
    <2> HIDE DEF n
    <2>5. (n - 1) * IslRange < Inf
      <3>1. PICK m \in Nat : NumSats = (n - 1) + m
        <4>1. NumSats \in Nat /\ NumSats - (n - 1) \in Nat
          BY <2>3, Sizes
        <4>2. QED BY <2>3, <4>1
      <3>2. n - 1 \in Nat
        BY <2>3
      <3> DEFINE u == n - 1
      <3> HIDE DEF u
      <3>3. NumSats * IslRange = u * IslRange + m * IslRange
            /\ m * IslRange \in Nat /\ u * IslRange \in Nat
        BY <3>1, <3>2, ShellAssumption DEF u
      <3>4. QED BY <3>3 DEF Inf, u
    <2>6. (n - 1) * IslRange \in Int
      BY <2>3, ShellAssumption
    <2>7. QED BY <1>2, <2>2, <2>4, <2>5, <2>6
  <1>4. ASSUME r.dist[i][j] < Inf
        PROVE  \E q \in Found(g, i, j) :
                 Length(g, q) = r.dist[i][j] /\ q[Len(q) - 1] = r.next[j][i]
    <2>1. PICK n, q : Realises(g, r, n, q, i, j)
      BY <1>4, ShortestChainExists
    <2>2. /\ Chain(g, n, q) /\ q[1] = i /\ q[n] = j /\ n > 1 /\ q[n - 1] = r.next[j][i]
          /\ \A k, l \in 1..n : q[k] = q[l] => k = l
          /\ Length(g, q) = r.dist[i][j]
      BY <2>1 DEF Realises
    <2>3. q \in Found(g, i, j) /\ Len(q) = n
      BY <2>2, ChainIsFound
    <2>4. QED BY <2>2, <2>3
  <1>5. ASSUME r.dist[i][j] < Inf
        PROVE  \E p \in Found(g, i, j) : Length(g, p) = r.dist[i][j] /\ p[2] = r.next[i][j]
    <2>1. PICK n, q : Realises(g, r, n, q, j, i)
      BY <1>2, <1>5, ShortestChainExists
    <2> DEFINE p == Reversed(n, q)
    <2>2. /\ Chain(g, n, q) /\ q[1] = j /\ q[n] = i /\ n > 1 /\ q[n - 1] = r.next[i][j]
          /\ \A k, l \in 1..n : q[k] = q[l] => k = l
          /\ Length(g, q) = r.dist[i][j]
      BY <1>2, <2>1 DEF Realises
    <2>3. n \in Nat
      BY <2>2 DEF Chain
    <2>4. Chain(g, n, p) /\ Length(g, p) = r.dist[i][j]
      BY <2>2, ReversedChain
    <2>5. \A k \in 1..n : n + 1 - k \in 1..n /\ p[k] = q[n + 1 - k]
      BY <2>3 DEF Reversed
    <2>6. p[1] = i /\ p[n] = j /\ p[2] = r.next[i][j]
      <3>1. n + 1 - 1 = n /\ n + 1 - n = 1 /\ n + 1 - 2 = n - 1 /\ 1 \in 1..n
            /\ n \in 1..n /\ 2 \in 1..n
        BY <2>2, <2>3
      <3>2. QED BY <2>2, <2>5, <3>1
    <2> HIDE DEF p
    <2>7. \A k, l \in 1..n : p[k] = p[l] => k = l
      <3>1. ASSUME NEW k \in 1..n, NEW l \in 1..n, p[k] = p[l] PROVE k = l
        <4>1. n + 1 - k = n + 1 - l
          BY <2>2, <2>5, <3>1
        <4>2. QED BY <2>3, <4>1
      <3>2. QED BY <3>1
    <2>8. p \in Found(g, i, j)
      BY <2>2, <2>4, <2>6, <2>7, ChainIsFound
    <2>9. QED BY <2>4, <2>6, <2>8
  <1>6. CASE r.dist[i][j] < Inf
    <2>1. PICK p \in Found(g, i, j) : Length(g, p) = r.dist[i][j] /\ p[2] = r.next[i][j]
      BY <1>5, <1>6
    <2>2. PICK q \in Found(g, i, j) :
            Length(g, q) = r.dist[i][j] /\ q[Len(q) - 1] = r.next[j][i]
      BY <1>4, <1>6
    <2>3. p \in Shortest(g, i, j) /\ q \in Shortest(g, i, j)
      BY <1>1, <1>3, <2>1, <2>2
    <2>4. QED BY <1>6, <2>1, <2>2, <2>3
  <1>7. CASE ~(r.dist[i][j] < Inf)
    BY <1>1, <1>3, <1>7
  <1>8. QED BY <1>6, <1>7

(* path_matrix is what the last geometry makes of some earlier one.        *)
RoutedInv ==
  geometry # NoGeometry =>
    /\ geometry \in Geometries
    /\ \E old \in [Pairs -> PathType] :
         paths = UpdatePaths(geometry, SatRoutes[geometry], old)

LEMMA RoutedAlways == Spec => []RoutedInv
  <1>1. Init => RoutedInv
    BY DEF Init, RoutedInv
  <1>2. TypeOK /\ RoutedInv /\ [Next]_vars => RoutedInv'
    <2> SUFFICES ASSUME TypeOK, RoutedInv, [Next]_vars PROVE RoutedInv'
      OBVIOUS
    <2>1. ASSUME NEW g \in Geometries, Step(g) PROVE RoutedInv'
      <3>1. geometry' = g /\ paths' = UpdatePaths(g, SatRoutes[g], paths)
        BY <2>1 DEF Step
      <3>2. paths \in [Pairs -> PathType]
        BY DEF TypeOK
      <3>3. QED BY <3>1, <3>2 DEF RoutedInv
    <2>2. CASE UNCHANGED vars
      BY <2>2 DEF vars, RoutedInv
    <2>3. QED BY <2>1, <2>2 DEF Next
  <1>3. QED BY <1>1, <1>2, TypeCorrect, PTL DEF Spec

(* In every state the delay and both hops of two satellites are those of   *)
(* shortest simple paths, and there is none if there is no such path.      *)
THEOREM PathsShortest == Spec => []PathsAreShortest
  <1>1. RoutedInv => PathsAreShortest
    <2> SUFFICES ASSUME RoutedInv, geometry # NoGeometry,
                        NEW i \in Sats, NEW j \in Sats, i < j
                 PROVE  LET best == Shortest(geometry, i, j)
                            path == paths[<<i, j>>]
                        IN /\ path.active <=> best # {}
                           /\ path.active =>
                                \E p, q \in best :
                                  /\ path.delay = Length(geometry, p)
                                  /\ path.next = p[2] /\ path.prev = q[Len(q) - 1]
      BY Zenon DEF PathsAreShortest
    <2>0. PICK g \in Geometries : g = geometry
      BY DEF RoutedInv
    <2>1. PICK r, old : r = SatRoutes[g] /\ paths = UpdatePaths(g, r, old)
      BY <2>0 DEF RoutedInv
    <2>2. <<i, j>> \in Pairs /\ i # j
      BY Sizes DEF Pairs, Nodes
    <2>3. paths[<<i, j>>] = SatPath(r, i, j)
      BY <2>1, <2>2 DEF UpdatePaths
    <2> DEFINE path == paths[<<i, j>>]
               best == Shortest(g, i, j)
    <2>4. /\ path.active <=> r.dist[i][j] < Inf
          /\ path.delay = r.dist[i][j] /\ path.next = r.next[i][j]
          /\ path.prev = r.next[j][i]
      <3> DEFINE a == r.dist[i][j] < Inf
      <3>1. path = [active |-> a, next |-> r.next[i][j], prev |-> r.next[j][i],
                    delay |-> r.dist[i][j], bandwidth |-> IslBandwidth]
        BY <2>3 DEF SatPath
      <3> HIDE DEF a, path
      <3>2. /\ path.active = a /\ path.delay = r.dist[i][j]
            /\ path.next = r.next[i][j] /\ path.prev = r.next[j][i]
        BY <3>1
      <3>3. path.active <=> a
        BY <3>2, Zenon
      <3>4. QED BY <3>2, <3>3, Zenon DEF a
    <2>5. /\ r.dist[i][j] < Inf <=> best # {}
          /\ r.dist[i][j] < Inf =>
               \E p, q \in best :
                 /\ r.dist[i][j] = Length(g, p)
                 /\ r.next[i][j] = p[2] /\ r.next[j][i] = q[Len(q) - 1]
      BY <2>1, <2>2, RoutesAreShortest
    <2> HIDE DEF path, best
    <2>6. /\ path.active <=> best # {}
          /\ path.active =>
               \E p, q \in best : /\ path.delay = Length(g, p)
                                  /\ path.next = p[2] /\ path.prev = q[Len(q) - 1]
      BY <2>4, <2>5
    <2>7. QED BY <2>0, <2>6 DEF path, best
  <1>2. QED BY <1>1, RoutedAlways, PTL

-----------------------------------------------------------------------------
(* A link from a satellite that has a path leads to another that has one:  *)
(* a shortest chain with one more link is simple, unless the satellite is  *)
(* on it already.                                                          *)
LEMMA NeighbourHasPath ==
  ASSUME NEW g \in Geometries, NEW r, r = SatRoutes[g],
         NEW i \in Sats, NEW v \in Sats, NEW j \in Sats,
         r.dist[i][v] < Inf, Active(g, {v, j})
  PROVE  r.dist[i][j] < Inf
  <1>1. PICK n, p : Realises(g, r, n, p, i, v)
    BY ShortestChainExists
  <1>2. /\ Chain(g, n, p) /\ p[1] = i /\ p[n] = v
        /\ \A k, l \in 1..n : p[k] = p[l] => k = l
        /\ \A k \in 1..n : r.dist[i][p[k]] <= r.dist[i][v]
    BY <1>1 DEF Realises
  <1>3. n \in Nat \ {0} /\ \A k \in 1..n : p[k] \in Sats
    BY <1>2 DEF Chain
  <1>4. r.dist[i][j] \in Nat /\ r.dist[i][v] \in Nat /\ Inf \in Nat
    BY Routes, Sizes
  <1>5. CASE \E k \in 1..n : p[k] = j
    BY <1>2, <1>4, <1>5
  <1>6. CASE \A k \in 1..n : p[k] # j
    <2> DEFINE q == Extended(n, p, j)
    <2>1. /\ Chain(g, n + 1, q) /\ (\A k \in 1..n : q[k] = p[k]) /\ q[n + 1] = j
      BY <1>2, ExtendedChain
    <2>2. q \in [1..(n + 1) -> Sats]
      BY <2>1 DEF Chain
    <2> HIDE DEF q
    <2>3. \A k \in 1..(n + 1) : k \in 1..n \/ k = n + 1
      BY <1>3
    <2>4. \A k, l \in 1..(n + 1) : q[k] = q[l] => k = l
      BY <1>2, <1>6, <2>1, <2>3
    <2>5. n + 1 <= NumSats
      BY <1>3, <2>2, <2>4, SimpleIsShort
    <2>6. r.dist[i][j] <= Length(g, q) /\ Length(g, q) <= n * IslRange
      <3>1. q[1] = i /\ (n + 1) - 1 = n
        BY <1>2, <1>3, <2>1
      <3>2. QED BY <2>1, <3>1, NoChainIsShorter
    <2>7. Length(g, q) \in Nat
      <3>1. (n + 1) - 1 \in 0..((n + 1) - 1)
        BY <1>3
      <3>2. QED BY <2>1, <3>1, LengthsEquation
    <2>8. n * IslRange < Inf /\ n * IslRange \in Nat
      <3>1. PICK m \in Nat : NumSats = n + m
        <4>1. NumSats \in Nat /\ NumSats - n \in Nat
          BY <1>3, <2>5, Sizes
        <4>2. QED BY <1>3, <4>1
      <3>2. NumSats * IslRange = n * IslRange + m * IslRange
            /\ m * IslRange \in Nat /\ n * IslRange \in Nat
        BY <1>3, <3>1, ShellAssumption
      <3>3. QED BY <3>2 DEF Inf
    <2>9. QED BY <1>4, <2>6, <2>7, <2>8
  <1>7. QED BY <1>5, <1>6

(* No way over other satellites to the ground is shorter than the direct   *)
(* one, whether or not there is a link for that.                           *)
LEMMA StraightDown ==
  ASSUME NEW g \in Geometries, NEW r, r = SatRoutes[g], NEW gst \in Gsts,
         NEW s \in Sats, NEW t \in Sats, r.dist[s][t] < Inf
  PROVE  g.up[gst][s] <= r.dist[s][t] + g.up[gst][t]
  <1> DEFINE Below(v) == g.up[gst][v] <= r.dist[v][t] + g.up[gst][t]
             S == {d \in 0..Inf : \A v \in Sats :
                     r.dist[v][t] <= d /\ r.dist[v][t] < Inf => Below(v)}
  <1>1. \A u, v \in Sats : r.dist[u][v] \in Nat
    BY Routes, Sizes
  <1>2. \A v \in Sats : g.up[gst][v] \in Nat
    BY UplinkTypes
  <1>3. ASSUME NEW d \in 0..Inf, NEW v \in Sats, r.dist[v][t] <= d, r.dist[v][t] < Inf,
               \A u \in Sats : r.dist[u][t] < d /\ r.dist[u][t] < Inf => Below(u)
        PROVE  Below(v)
    <2>1. CASE v = t
      BY <1>1, <1>2, <2>1
    <2>2. CASE v # t
      <3>1. PICK h : h = r.next[v][t]
        OBVIOUS
      <3> DEFINE w == g.isl[{v, h}]
      <3>2. h \in Sats /\ Active(g, {v, h}) /\ w + r.dist[h][t] = r.dist[v][t]
        BY <1>3, <2>2, <3>1, NextHop
      <3>3. w \in Nat \ {0}
        BY <3>2, LinkLengths
      <3>4. g.up[gst][v] <= w + g.up[gst][h]
        <4>1. {v, h} \in Links
          BY <3>2, Zenon DEF Active
        <4>2. QED BY <3>2, <4>1, TriangleAssumption, Zenon
      <3> HIDE DEF w
      <3>5. r.dist[h][t] < d /\ r.dist[h][t] < Inf
        BY <1>1, <1>3, <3>2, <3>3, Sizes
      <3>6. g.up[gst][h] <= r.dist[h][t] + g.up[gst][t]
        BY <1>3, <3>2, <3>5
      <3>7. g.up[gst][v] \in Nat /\ g.up[gst][h] \in Nat /\ r.dist[h][t] \in Nat
            /\ g.up[gst][t] \in Nat
        BY <1>1, <1>2, <3>2
      <3>8. QED BY <3>2, <3>3, <3>4, <3>6, <3>7
    <2>3. QED BY <2>1, <2>2
  <1> HIDE DEF Below
  <1>4. 0 \in S
    <2>1. 0 \in 0..Inf /\ \A u \in Sats : ~(r.dist[u][t] < 0)
      BY <1>1, Sizes
    <2>2. QED BY <1>3, <2>1
  <1>5. ASSUME NEW d \in 0..(Inf - 1), d \in S PROVE d + 1 \in S
    <2>1. d + 1 \in 0..Inf
      BY Sizes
    <2>2. \A u \in Sats : r.dist[u][t] < d + 1 => r.dist[u][t] <= d
      BY <1>1
    <2>3. QED BY <1>3, <1>5, <2>1, <2>2
  <1> HIDE DEF S
  <1>6. \A d \in 0..Inf : d \in S
    BY <1>4, <1>5, Upwards, Sizes
  <1>7. r.dist[s][t] \in S /\ r.dist[s][t] <= r.dist[s][t]
    BY <1>1, <1>6, Routes
  <1>8. Below(s)
    BY <1>7 DEF S
  <1>9. QED BY <1>8 DEF Below

(* So the best uplink of a satellite is the nearest of all its candidates, *)
(* also where the code takes the satellite itself without comparing.       *)
LEMMA BestIsNearest ==
  ASSUME NEW g \in Geometries, NEW r, r = SatRoutes[g], NEW gst \in Gsts, NEW s \in Sats,
         NEW v \in Candidates(g, r, gst, s), NEW up, up = Best(g, r, gst, s)
  PROVE  /\ up \in Candidates(g, r, gst, s)
         /\ ViaUplink(g, r, gst, s, up) <= ViaUplink(g, r, gst, s, v)
  <1>1. Candidates(g, r, gst, s) # {}
    OBVIOUS
  <1>2. up \in Candidates(g, r, gst, s)
    BY <1>1, BestUplink
  <1>3. CASE s \in Uplinks(g, gst)
    <2>1. up = s
      BY <1>1, <1>3, BestUplink
    <2>2. v \in Sats /\ r.dist[s][v] < Inf
      BY UplinkTypes DEF Candidates
    <2>3. g.up[gst][s] <= r.dist[s][v] + g.up[gst][v]
      BY <2>2, StraightDown
    <2>4. r.dist[s][s] = 0 /\ g.up[gst][s] \in Nat
      BY Routes, UplinkTypes
    <2>5. QED BY <1>2, <2>1, <2>3, <2>4 DEF ViaUplink
  <1>4. CASE s \notin Uplinks(g, gst)
    BY <1>1, <1>2, <1>4, BestUplink
  <1>5. QED BY <1>3, <1>4

-----------------------------------------------------------------------------
(* What the entries of a host should be, one for each direction of a pair. *)
IsOpen(e) == IF e \in Pairs THEN paths[e].active ELSE paths[Opposite(e)].active
HopOf(e) == IF e \in Pairs THEN paths[e].next ELSE paths[Opposite(e)].prev

RoutedBy(g, r) ==
  /\ g \in Geometries /\ geometry = g /\ r = SatRoutes[g]
  /\ \E old \in [Pairs -> PathType] : paths = UpdatePaths(g, r, old)

LEMMA SatEntry ==
  ASSUME NEW g, NEW r, RoutedBy(g, r), NEW i \in Sats, NEW j \in Sats, i # j
  PROVE  /\ IsOpen(<<i, j>>) <=> r.dist[i][j] < Inf
         /\ DelayOf(<<i, j>>) = r.dist[i][j] /\ HopOf(<<i, j>>) = r.next[i][j]
  <1>1. ASSUME NEW u \in Sats, NEW v \in Sats, u < v
        PROVE  /\ <<u, v>> \in Pairs
               /\ paths[<<u, v>>].active <=> r.dist[u][v] < Inf
               /\ paths[<<u, v>>].delay = r.dist[u][v]
               /\ paths[<<u, v>>].next = r.next[u][v]
               /\ paths[<<u, v>>].prev = r.next[v][u]
    <2> DEFINE a == r.dist[u][v] < Inf
               path == paths[<<u, v>>]
    <2>1. <<u, v>> \in Pairs
      BY <1>1, Sizes DEF Pairs, Nodes
    <2>2. path = [active |-> a, next |-> r.next[u][v], prev |-> r.next[v][u],
                  delay |-> r.dist[u][v], bandwidth |-> IslBandwidth]
      BY <2>1 DEF RoutedBy, UpdatePaths, SatPath
    <2> HIDE DEF a, path
    <2>3. /\ path.active = a /\ path.delay = r.dist[u][v]
          /\ path.next = r.next[u][v] /\ path.prev = r.next[v][u]
      BY <2>2
    <2>4. path.active <=> a
      BY <2>3, Zenon
    <2>5. QED BY <2>1, <2>3, <2>4, Zenon DEF a, path
  <1>2. r.dist[i][j] = r.dist[j][i]
    BY Routes DEF RoutedBy
  <1>3. CASE i < j
    BY <1>1, <1>3 DEF IsOpen, DelayOf, HopOf
  <1>4. CASE j < i
    <2>1. <<j, i>> \in Pairs /\ Opposite(<<j, i>>) = <<i, j>> /\ Opposite(<<i, j>>) = <<j, i>>
      BY <1>1, <1>4 DEF Opposite
    <2>2. <<i, j>> \notin Pairs
      BY <2>1, PairEntries
    <2>3. QED BY <1>1, <1>2, <1>4, <2>1, <2>2 DEF IsOpen, DelayOf, HopOf
  <1>5. i < j \/ j < i
    BY Sizes
  <1>6. QED BY <1>3, <1>4, <1>5

(* The entries of a ground station and a satellite.                        *)
GstEntries(g, r, gst, s, up) ==
  /\ IsOpen(<<gst, s>>) <=> Candidates(g, r, gst, s) # {}
  /\ IsOpen(<<s, gst>>) <=> Candidates(g, r, gst, s) # {}
  /\ Candidates(g, r, gst, s) # {} =>
       /\ DelayOf(<<gst, s>>) = ViaUplink(g, r, gst, s, up)
       /\ DelayOf(<<s, gst>>) = ViaUplink(g, r, gst, s, up)
       /\ HopOf(<<gst, s>>) = up
       /\ HopOf(<<s, gst>>) = IF up = s THEN gst ELSE r.next[s][up]

LEMMA GstEntry ==
  ASSUME NEW g, NEW r, RoutedBy(g, r), NEW gst \in Gsts, NEW s \in Sats,
         NEW up, up = Best(g, r, gst, s)
  PROVE  GstEntries(g, r, gst, s, up)
  <1> DEFINE p == <<gst, s>>
             e == <<s, gst>>
  <1>1. p \in Pairs /\ e \notin Pairs /\ Opposite(e) = p
    <2>1. p \in Pairs
      BY Sizes DEF Pairs, Nodes
    <2>2. Opposite(p) = e /\ Opposite(e) = p
      BY DEF Opposite
    <2>3. QED BY <2>1, <2>2, PairEntries
  <1>2. PICK old \in [Pairs -> PathType] : paths = UpdatePaths(g, r, old)
    BY DEF RoutedBy
  <1>3. paths[p] = GstPath(g, r, gst, s, old[p])
    BY <1>1, <1>2, Sizes DEF UpdatePaths
  <1>4. /\ (IsOpen(p) <=> paths[p].active) /\ (IsOpen(e) <=> paths[p].active)
        /\ DelayOf(p) = paths[p].delay /\ DelayOf(e) = paths[p].delay
        /\ HopOf(p) = paths[p].next /\ HopOf(e) = paths[p].prev
    <2> HIDE DEF p, e
    <2>1. QED BY <1>1, Zenon DEF IsOpen, DelayOf, HopOf
  <1>5. old[p] \in PathType
    BY <1>1
  <1> HIDE DEF p, e
  <1>6. CASE Candidates(g, r, gst, s) = {}
    <2>1. paths[p].active = FALSE
      BY <1>3, <1>5, <1>6 DEF GstPath, PathType
    <2>2. QED BY <1>4, <1>6, <2>1 DEF p, e, GstEntries
  <1>7. CASE Candidates(g, r, gst, s) # {}
    <2> DEFINE back == IF up = s THEN gst ELSE r.next[s][up]
    <2>1. paths[p] = GstPathOver(g, r, gst, s, up, back)
      BY <1>3, <1>7 DEF GstPath
    <2> HIDE DEF back
    <2>2. /\ paths[p].active = TRUE /\ paths[p].next = up /\ paths[p].prev = back
          /\ paths[p].delay = ViaUplink(g, r, gst, s, up)
      BY <2>1 DEF GstPathOver
    <2>3. QED BY <1>4, <1>7, <2>2 DEF p, e, back, GstEntries
  <1>8. QED BY <1>6, <1>7

(* Those of two ground stations, in the order of their pair.               *)
GroundEntries(g, r, g1, g2, c) ==
  /\ IsOpen(<<g1, g2>>) <=> Connections(g, r, g1, g2) # {}
  /\ IsOpen(<<g2, g1>>) <=> Connections(g, r, g1, g2) # {}
  /\ Connections(g, r, g1, g2) # {} =>
       /\ DelayOf(<<g1, g2>>) = Between(g, r, g1, g2, c)
       /\ DelayOf(<<g2, g1>>) = Between(g, r, g1, g2, c)
       /\ HopOf(<<g1, g2>>) = c[1] /\ HopOf(<<g2, g1>>) = c[2]

LEMMA GroundEntry ==
  ASSUME NEW g, NEW r, RoutedBy(g, r), NEW g1 \in Gsts, NEW g2 \in Gsts, g1 < g2,
         NEW c, c = BestConnection(g, r, g1, g2)
  PROVE  GroundEntries(g, r, g1, g2, c)
  <1> DEFINE p == <<g1, g2>>
             e == <<g2, g1>>
  <1>1. p \in Pairs /\ e \notin Pairs /\ Opposite(e) = p
    <2>1. p \in Pairs
      BY Sizes DEF Pairs, Nodes
    <2>2. Opposite(p) = e /\ Opposite(e) = p
      BY DEF Opposite
    <2>3. QED BY <2>1, <2>2, PairEntries
  <1>2. PICK old \in [Pairs -> PathType] : paths = UpdatePaths(g, r, old)
    BY DEF RoutedBy
  <1>3. paths[p] = GroundPath(g, r, g1, g2, old[p])
    BY <1>1, <1>2, Sizes DEF UpdatePaths
  <1>4. /\ (IsOpen(p) <=> paths[p].active) /\ (IsOpen(e) <=> paths[p].active)
        /\ DelayOf(p) = paths[p].delay /\ DelayOf(e) = paths[p].delay
        /\ HopOf(p) = paths[p].next /\ HopOf(e) = paths[p].prev
    <2> HIDE DEF p, e
    <2>1. QED BY <1>1, Zenon DEF IsOpen, DelayOf, HopOf
  <1>5. old[p] \in PathType
    BY <1>1
  <1> HIDE DEF p, e
  <1>6. CASE Connections(g, r, g1, g2) = {}
    <2>1. paths[p].active = FALSE
      BY <1>3, <1>5, <1>6 DEF GroundPath, PathType
    <2>2. QED BY <1>4, <1>6, <2>1 DEF p, e, GroundEntries
  <1>7. CASE Connections(g, r, g1, g2) # {}
    <2> DEFINE d == Between(g, r, g1, g2, c)
    <2>1. paths[p] = [active |-> TRUE, next |-> c[1], prev |-> c[2],
                      delay |-> d, bandwidth |-> d]
      BY <1>3, <1>7 DEF GroundPath
    <2> HIDE DEF d
    <2>2. /\ paths[p].active = TRUE /\ paths[p].next = c[1] /\ paths[p].prev = c[2]
          /\ paths[p].delay = d
      BY <2>1
    <2>3. QED BY <1>4, <1>7, <2>2 DEF p, e, d, GroundEntries
  <1>8. QED BY <1>6, <1>7

(* What is left of the way from x to b.                                    *)
Left(x, b) == IF x = b THEN 0 ELSE DelayOf(<<x, b>>)

(* The next hop of an open entry is over a link that is up, and the delay  *)
(* from there is shorter by the length of that link.                       *)
GoesOn(a, b, h) ==
  /\ h \in Nodes /\ LinkIsUp(a, h) /\ LinkLength(a, h) \in Nat \ {0}
  /\ h # b => IsOpen(<<h, b>>)
  /\ DelayOf(<<a, b>>) = LinkLength(a, h) + Left(h, b)

LEMMA SatToSat ==
  ASSUME NEW g, NEW r, RoutedBy(g, r), NEW a \in Sats, NEW b \in Sats, a # b,
         IsOpen(<<a, b>>), NEW h, h = HopOf(<<a, b>>)
  PROVE  GoesOn(a, b, h)
  <1>1. /\ r.dist[a][b] < Inf /\ DelayOf(<<a, b>>) = r.dist[a][b] /\ h = r.next[a][b]
        /\ g \in Geometries /\ geometry = g /\ r = SatRoutes[g]
    <2>1. /\ IsOpen(<<a, b>>) <=> r.dist[a][b] < Inf
          /\ DelayOf(<<a, b>>) = r.dist[a][b] /\ HopOf(<<a, b>>) = r.next[a][b]
      BY SatEntry
    <2>2. QED BY <2>1 DEF RoutedBy
  <1> DEFINE w == g.isl[{a, h}]
  <1>2. h \in Sats /\ Active(g, {a, h}) /\ w + r.dist[h][b] = r.dist[a][b]
    BY <1>1, NextHop
  <1>3. w \in Nat \ {0}
    BY <1>1, <1>2, LinkLengths
  <1>4. LinkIsUp(a, h)
    BY <1>1, <1>2, Zenon DEF LinkIsUp
  <1>5. LinkLength(a, h) = w
    <2>1. a \notin Gsts /\ h \notin Gsts
      BY <1>2, Sizes
    <2>2. QED BY <1>1, <2>1, Zenon DEF LinkLength
  <1>6. r.dist[h][b] \in Nat /\ r.dist[a][b] \in Nat
    BY <1>1, <1>2, Routes, Sizes
  <1> HIDE DEF w
  <1>7. Left(h, b) = r.dist[h][b] /\ (h # b => IsOpen(<<h, b>>))
    <2>1. CASE h = b
      BY <1>1, <2>1, Routes DEF Left
    <2>2. CASE h # b
      <3>1. r.dist[h][b] < Inf
        BY <1>1, <1>2, <1>3, <1>6, Sizes
      <3>2. /\ IsOpen(<<h, b>>) <=> r.dist[h][b] < Inf
            /\ DelayOf(<<h, b>>) = r.dist[h][b]
        BY <1>2, <2>2, SatEntry
      <3>3. QED BY <2>2, <3>1, <3>2 DEF Left
    <2>3. QED BY <2>1, <2>2
  <1>8. h \in Nodes
    BY <1>2 DEF Nodes
  <1>9. QED BY <1>1, <1>2, <1>3, <1>4, <1>5, <1>7, <1>8 DEF GoesOn

LEMMA GstToSat ==
  ASSUME NEW g, NEW r, RoutedBy(g, r), NEW a \in Gsts, NEW b \in Sats,
         IsOpen(<<a, b>>), NEW h, h = HopOf(<<a, b>>)
  PROVE  GoesOn(a, b, h)
  <1>1. g \in Geometries /\ geometry = g /\ r = SatRoutes[g]
    BY DEF RoutedBy
  <1>2. PICK up : up = Best(g, r, a, b)
    OBVIOUS
  <1>3. /\ Candidates(g, r, a, b) # {} /\ h = up
        /\ DelayOf(<<a, b>>) = r.dist[b][up] + g.up[a][up]
    <2>1. GstEntries(g, r, a, b, up)
      BY <1>2, GstEntry
    <2>2. QED BY <2>1 DEF GstEntries, ViaUplink
  <1>4. up \in Candidates(g, r, a, b)
    BY <1>1, <1>2, <1>3, BestUplink
  <1>5. h \in Sats /\ h \in Uplinks(g, a) /\ r.dist[b][h] < Inf
    BY <1>1, <1>3, <1>4, UplinkTypes DEF Candidates
  <1>6. g.up[a][h] \in Nat \ {0} /\ r.dist[b][h] \in Nat /\ r.dist[b][h] = r.dist[h][b]
    BY <1>1, <1>5, UplinkTypes, Routes, Sizes
  <1>7. LinkIsUp(a, h) /\ LinkLength(a, h) = g.up[a][h]
    BY <1>1, <1>5 DEF LinkIsUp, LinkLength
  <1>8. Left(h, b) = r.dist[b][h] /\ (h # b => IsOpen(<<h, b>>))
    <2>1. CASE h = b
      BY <1>1, <2>1, Routes DEF Left
    <2>2. CASE h # b
      <3>1. /\ IsOpen(<<h, b>>) <=> r.dist[h][b] < Inf
            /\ DelayOf(<<h, b>>) = r.dist[h][b]
        BY <1>5, <2>2, SatEntry
      <3>2. QED BY <1>5, <1>6, <2>2, <3>1 DEF Left
    <2>3. QED BY <2>1, <2>2
  <1>9. h \in Nodes
    BY <1>5 DEF Nodes
  <1>10. QED BY <1>3, <1>6, <1>7, <1>8, <1>9 DEF GoesOn

(* The hop of a satellite towards the best uplink need not have the same   *)
(* best uplink, but one that is as near.                                   *)
LEMMA SatToGst ==
  ASSUME NEW g, NEW r, RoutedBy(g, r), NEW a \in Sats, NEW b \in Gsts,
         IsOpen(<<a, b>>), NEW h, h = HopOf(<<a, b>>)
  PROVE  GoesOn(a, b, h)
  <1>1. g \in Geometries /\ geometry = g /\ r = SatRoutes[g] /\ a \notin Gsts
    BY Sizes DEF RoutedBy
  <1>2. PICK up : up = Best(g, r, b, a)
    OBVIOUS
  <1>3. /\ Candidates(g, r, b, a) # {} /\ h = IF up = a THEN b ELSE r.next[a][up]
        /\ DelayOf(<<a, b>>) = ViaUplink(g, r, b, a, up)
    <2>1. GstEntries(g, r, b, a, up)
      BY <1>2, GstEntry
    <2>2. QED BY <2>1 DEF GstEntries
  <1>4. up \in Candidates(g, r, b, a)
    BY <1>1, <1>2, <1>3, BestUplink
  <1>5. up \in Sats /\ up \in Uplinks(g, b) /\ r.dist[a][up] < Inf
    BY <1>1, <1>4, UplinkTypes DEF Candidates
  <1>6. \A v \in Sats : g.up[b][v] \in Nat \ {0}
    BY <1>1, UplinkTypes
  <1>7. CASE up = a
    <2>1. h = b
      BY <1>3, <1>7
    <2>2. LinkIsUp(a, h) /\ LinkLength(a, h) = g.up[b][a]
      BY <1>1, <1>5, <1>7, <2>1 DEF LinkIsUp, LinkLength
    <2>3. r.dist[a][a] = 0
      BY <1>1, Routes
    <2>4. DelayOf(<<a, b>>) = g.up[b][a]
      BY <1>3, <1>6, <1>7, <2>3 DEF ViaUplink
    <2>5. h \in Nodes /\ Left(h, b) = 0
      BY <2>1 DEF Nodes, Left
    <2>6. QED BY <1>6, <2>1, <2>2, <2>4, <2>5 DEF GoesOn
  <1>8. CASE up # a
    <2> DEFINE w == g.isl[{a, h}]
    <2>1. h \in Sats /\ Active(g, {a, h}) /\ w + r.dist[h][up] = r.dist[a][up]
      <3>1. h = r.next[a][up]
        BY <1>3, <1>8
      <3>2. QED BY <1>1, <1>5, <1>8, <3>1, NextHop
    <2>2. w \in Nat \ {0}
      BY <1>1, <2>1, LinkLengths
    <2>3. h # b /\ h \notin Gsts /\ h \in Nodes
      BY <2>1, Sizes DEF Nodes
    <2>4. LinkIsUp(a, h)
      BY <1>1, <2>1, Zenon DEF LinkIsUp
    <2>5. LinkLength(a, h) = w
      BY <1>1, <2>3, Zenon DEF LinkLength
    <2>6. r.dist[h][a] <= w
      <3>1. r.dist[a][h] <= w /\ r.dist[a][h] = r.dist[h][a]
        BY <1>1, <2>1, Routes
      <3>2. QED BY <3>1
    <2>7. Active(g, {h, a})
      BY <2>1, SameLink, Zenon
    <2> HIDE DEF w
    <2>8. \A u, v \in Sats : r.dist[u][v] \in Nat
      BY <1>1, Routes, Sizes
    <2>9. up \in Candidates(g, r, b, h)
      <3>1. r.dist[h][up] < Inf
        BY <1>5, <2>1, <2>2, <2>8, Sizes
      <3>2. QED BY <1>5, <3>1 DEF Candidates
    <2>10. PICK un : un = Best(g, r, b, h)
      OBVIOUS
    <2>11. /\ un \in Candidates(g, r, b, h)
           /\ ViaUplink(g, r, b, h, un) <= ViaUplink(g, r, b, h, up)
      BY <1>1, <2>1, <2>9, <2>10, BestIsNearest
    <2>12. un \in Sats /\ un \in Uplinks(g, b) /\ r.dist[h][un] < Inf
      BY <1>1, <2>11, UplinkTypes DEF Candidates
    <2>13. un \in Candidates(g, r, b, a)
      <3>1. r.dist[un][h] < Inf
        BY <1>1, <2>1, <2>12, Routes
      <3>2. r.dist[un][a] < Inf
        BY <1>1, <2>1, <2>7, <2>12, <3>1, NeighbourHasPath
      <3>3. r.dist[a][un] < Inf
        BY <1>1, <2>12, <3>2, Routes
      <3>4. QED BY <2>12, <3>3 DEF Candidates
    <2>14. ViaUplink(g, r, b, a, up) <= ViaUplink(g, r, b, a, un)
      BY <1>1, <1>2, <2>13, BestIsNearest
    <2>15. r.dist[a][un] <= r.dist[a][h] + r.dist[h][un] /\ r.dist[a][h] = r.dist[h][a]
      BY <1>1, <2>1, <2>12, Routes
    <2>16. ViaUplink(g, r, b, a, up) = w + ViaUplink(g, r, b, h, un)
      <3>1. /\ g.up[b][up] \in Nat /\ g.up[b][un] \in Nat
            /\ r.dist[h][up] \in Nat /\ r.dist[a][up] \in Nat /\ r.dist[a][un] \in Nat
            /\ r.dist[h][un] \in Nat /\ r.dist[h][a] \in Nat /\ r.dist[a][h] \in Nat
        BY <1>5, <1>6, <2>1, <2>8, <2>12
      <3>2. QED BY <2>1, <2>2, <2>6, <2>11, <2>14, <2>15, <3>1 DEF ViaUplink
    <2>17. IsOpen(<<h, b>>) /\ DelayOf(<<h, b>>) = ViaUplink(g, r, b, h, un)
      <3>1. GstEntries(g, r, b, h, un)
        BY <2>1, <2>10, GstEntry
      <3>2. QED BY <2>9, <3>1 DEF GstEntries
    <2>18. QED BY <1>3, <2>2, <2>3, <2>4, <2>5, <2>16, <2>17 DEF GoesOn, Left
  <1>9. QED BY <1>7, <1>8

(* Up to h, with the nearest way down from there.                          *)
LEMMA UpTo ==
  ASSUME NEW g, NEW r, RoutedBy(g, r), NEW a \in Gsts, NEW b \in Gsts, a # b,
         NEW h \in Uplinks(g, a), NEW u \in Candidates(g, r, b, h),
         \A v \in Candidates(g, r, b, h) : ViaUplink(g, r, b, h, u) <= ViaUplink(g, r, b, h, v),
         DelayOf(<<a, b>>) = g.up[a][h] + ViaUplink(g, r, b, h, u)
  PROVE  GoesOn(a, b, h)
  <1>1. g \in Geometries /\ geometry = g /\ r = SatRoutes[g]
    BY DEF RoutedBy
  <1>2. h \in Sats /\ h \notin Gsts /\ h # b /\ h \in Nodes /\ g.up[a][h] \in Nat \ {0}
    BY <1>1, UplinkTypes, Sizes DEF Nodes
  <1>3. PICK un : un = Best(g, r, b, h)
    OBVIOUS
  <1>4. /\ un \in Candidates(g, r, b, h)
        /\ ViaUplink(g, r, b, h, un) <= ViaUplink(g, r, b, h, u)
    BY <1>1, <1>2, <1>3, BestIsNearest
  <1>5. ASSUME NEW v \in Candidates(g, r, b, h) PROVE ViaUplink(g, r, b, h, v) \in Nat
    <2>1. v \in Sats
      BY <1>1, UplinkTypes DEF Candidates
    <2>2. r.dist[h][v] \in Nat /\ g.up[b][v] \in Nat
      BY <1>1, <1>2, <2>1, Routes, Sizes, UplinkTypes
    <2>3. QED BY <2>2 DEF ViaUplink
  <1>6. ViaUplink(g, r, b, h, un) = ViaUplink(g, r, b, h, u)
    BY <1>4, <1>5
  <1>7. IsOpen(<<h, b>>) /\ DelayOf(<<h, b>>) = ViaUplink(g, r, b, h, u)
    <2>1. GstEntries(g, r, b, h, un)
      BY <1>2, <1>3, GstEntry
    <2>2. QED BY <1>4, <1>6, <2>1 DEF GstEntries
  <1>8. LinkIsUp(a, h) /\ LinkLength(a, h) = g.up[a][h]
    BY <1>1 DEF LinkIsUp, LinkLength
  <1>9. QED BY <1>2, <1>7, <1>8 DEF GoesOn, Left

LEMMA GstToGst ==
  ASSUME NEW g, NEW r, RoutedBy(g, r), NEW g1 \in Gsts, NEW g2 \in Gsts, g1 < g2
  PROVE  /\ IsOpen(<<g1, g2>>) => GoesOn(g1, g2, HopOf(<<g1, g2>>))
         /\ IsOpen(<<g2, g1>>) => GoesOn(g2, g1, HopOf(<<g2, g1>>))
  <1>1. g \in Geometries /\ geometry = g /\ r = SatRoutes[g] /\ g1 # g2
    BY Sizes DEF RoutedBy
  <1>2. PICK c : c = BestConnection(g, r, g1, g2)
    OBVIOUS
  <1>3. GroundEntries(g, r, g1, g2, c)
    BY <1>2, GroundEntry
  <1>4. CASE Connections(g, r, g1, g2) = {}
    BY <1>3, <1>4 DEF GroundEntries
  <1>5. CASE Connections(g, r, g1, g2) # {}
    <2>1. /\ c \in Connections(g, r, g1, g2)
          /\ \A d \in Connections(g, r, g1, g2) :
               Between(g, r, g1, g2, c) <= Between(g, r, g1, g2, d)
      BY <1>1, <1>2, <1>5, BestOfConnections
    <2>2. PICK x \in Uplinks(g, g1), y \in Uplinks(g, g2) : c = <<x, y>> /\ r.dist[x][y] < Inf
      BY <2>1 DEF Connections
    <2>3. x \in Sats /\ y \in Sats
      BY <1>1, UplinkTypes
    <2>4. \A u, v \in Sats : /\ r.dist[u][v] \in Nat /\ r.dist[u][v] = r.dist[v][u]
                             /\ g.up[g1][u] \in Nat /\ g.up[g2][u] \in Nat
      BY <1>1, Routes, Sizes, UplinkTypes
    <2>5. /\ DelayOf(<<g1, g2>>) = g.up[g1][x] + r.dist[x][y] + g.up[g2][y]
          /\ DelayOf(<<g2, g1>>) = g.up[g1][x] + r.dist[x][y] + g.up[g2][y]
          /\ HopOf(<<g1, g2>>) = x /\ HopOf(<<g2, g1>>) = y
      BY <1>3, <1>5, <2>2 DEF GroundEntries, Between
    <2>6. \A v \in Uplinks(g, g1), w \in Uplinks(g, g2) : r.dist[v][w] < Inf =>
            g.up[g1][x] + r.dist[x][y] + g.up[g2][y] <= g.up[g1][v] + r.dist[v][w] + g.up[g2][w]
      <3>1. ASSUME NEW v \in Uplinks(g, g1), NEW w \in Uplinks(g, g2), r.dist[v][w] < Inf
            PROVE  g.up[g1][x] + r.dist[x][y] + g.up[g2][y]
                     <= g.up[g1][v] + r.dist[v][w] + g.up[g2][w]
        <4>1. <<v, w>> \in Connections(g, r, g1, g2)
          BY <3>1 DEF Connections
        <4>2. Between(g, r, g1, g2, <<x, y>>) <= Between(g, r, g1, g2, <<v, w>>)
          BY <2>1, <2>2, <4>1
        <4>3. QED BY <4>2 DEF Between
      <3>2. QED BY <3>1
    <2>7. GoesOn(g1, g2, x)
      <3>1. y \in Candidates(g, r, g2, x)
        BY <2>2 DEF Candidates
      <3>2. ASSUME NEW v \in Candidates(g, r, g2, x)
            PROVE  ViaUplink(g, r, g2, x, y) <= ViaUplink(g, r, g2, x, v)
        <4>1. v \in Uplinks(g, g2) /\ v \in Sats /\ r.dist[x][v] < Inf
          BY <1>1, UplinkTypes DEF Candidates
        <4>2. g.up[g1][x] + r.dist[x][y] + g.up[g2][y]
                <= g.up[g1][x] + r.dist[x][v] + g.up[g2][v]
          BY <2>6, <4>1
        <4>3. QED BY <2>3, <2>4, <4>1, <4>2 DEF ViaUplink
      <3>3. DelayOf(<<g1, g2>>) = g.up[g1][x] + ViaUplink(g, r, g2, x, y)
        BY <2>3, <2>4, <2>5 DEF ViaUplink
      <3>4. QED BY <1>1, <3>1, <3>2, <3>3, UpTo
    <2>8. GoesOn(g2, g1, y)
      <3>1. x \in Candidates(g, r, g1, y)
        BY <2>2, <2>3, <2>4 DEF Candidates
      <3>2. ASSUME NEW v \in Candidates(g, r, g1, y)
            PROVE  ViaUplink(g, r, g1, y, x) <= ViaUplink(g, r, g1, y, v)
        <4>1. v \in Uplinks(g, g1) /\ v \in Sats /\ r.dist[y][v] < Inf
          BY <1>1, UplinkTypes DEF Candidates
        <4>2. r.dist[v][y] = r.dist[y][v] /\ r.dist[x][y] = r.dist[y][x]
          BY <2>3, <2>4, <4>1
        <4>3. g.up[g1][x] + r.dist[x][y] + g.up[g2][y]
                <= g.up[g1][v] + r.dist[v][y] + g.up[g2][y]
          BY <2>6, <4>1, <4>2
        <4>4. QED BY <2>3, <2>4, <4>1, <4>2, <4>3 DEF ViaUplink
      <3>3. DelayOf(<<g2, g1>>) = g.up[g2][y] + ViaUplink(g, r, g1, y, x)
        BY <2>3, <2>4, <2>5 DEF ViaUplink
      <3>4. QED BY <1>1, <3>1, <3>2, <3>3, UpTo
    <2>9. QED BY <2>5, <2>7, <2>8
  <1>6. QED BY <1>4, <1>5

LEMMA EveryHop ==
  ASSUME NEW g, NEW r, RoutedBy(g, r), NEW a \in Nodes, NEW b \in Nodes, a # b,
         IsOpen(<<a, b>>)
  PROVE  GoesOn(a, b, HopOf(<<a, b>>))
  <1>1. a \in Sats \/ a \in Gsts
    BY DEF Nodes
  <1>2. b \in Sats \/ b \in Gsts
    BY DEF Nodes
  <1>3. CASE a \in Sats /\ b \in Sats
    BY <1>3, SatToSat
  <1>4. CASE a \in Gsts /\ b \in Sats
    BY <1>4, GstToSat
  <1>5. CASE a \in Sats /\ b \in Gsts
    BY <1>5, SatToGst
  <1>6. CASE a \in Gsts /\ b \in Gsts
    <2>1. a < b \/ b < a
      BY <1>6, Sizes
    <2>2. QED BY <1>6, <2>1, GstToGst
  <1>7. QED BY <1>1, <1>2, <1>3, <1>4, <1>5, <1>6

-----------------------------------------------------------------------------
(* What path() does.  A host has every entry as it should be.              *)
LEMMA HostEntries ==
  ASSUME TypeOK, HostsAreCurrent, NothingStale, geometry # NoGeometry, NEW e \in Entries
  PROVE  /\ network[e].blocked <=> ~IsOpen(e)
         /\ IsOpen(e) => network[e].next = HopOf(e)
         /\ DelayOf(e) \in Nat
  <1>1. CASE e \in Pairs
    <2>1. network[e].blocked <=> ~paths[e].active
      BY <1>1 DEF HostsAreCurrent
    <2>2. paths[e].active => network[e].next = paths[e].next
      BY <1>1 DEF HostsAreCurrent
    <2>3. paths[e].delay \in Nat
      BY <1>1 DEF TypeOK, PathType
    <2>4. QED BY <1>1, <2>1, <2>2, <2>3, Zenon DEF IsOpen, HopOf, DelayOf
  <1>2. CASE e \notin Pairs
    <2> DEFINE p == Opposite(e)
    <2>1. p \in Pairs /\ Opposite(p) = e
      <3>1. PICK i \in Nodes, j \in Nodes : e = <<i, j>> /\ i # j
        BY DEF Entries
      <3>2. p = <<j, i>> /\ Opposite(p) = e
        BY <3>1 DEF Opposite
      <3>3. QED BY <1>2, <3>1, <3>2, Sizes DEF Pairs, Nodes
    <2>2. network[e].blocked <=> ~paths[p].active
      <3> HIDE DEF p
      <3>1. network[Opposite(p)].blocked <=> ~paths[p].active
        BY <2>1 DEF HostsAreCurrent
      <3>2. QED BY <2>1, <3>1, Zenon
    <2>3. paths[p].active => network[e].next = paths[p].prev
      <3> HIDE DEF p
      <3>1. paths[p].active => network[Opposite(p)].next = paths[p].prev
        BY <2>1 DEF NothingStale
      <3>2. QED BY <2>1, <3>1
    <2>4. paths[p].delay \in Nat
      BY <2>1 DEF TypeOK, PathType
    <2>5. QED BY <1>2, <2>2, <2>3, <2>4, Zenon DEF IsOpen, HopOf, DelayOf
  <1>3. QED BY <1>1, <1>2

LEMMA NodesAreFinite == IsFiniteSet(Nodes) /\ Cardinality(Nodes) \in Nat
  <1>1. IsFiniteSet(Sats) /\ IsFiniteSet(Gsts)
    BY FS_Interval, Sizes DEF Sats, Gsts
  <1>2. IsFiniteSet(Nodes)
    BY <1>1, FS_Union DEF Nodes
  <1>3. QED BY <1>2, FS_CardinalityType

(* b, and the nodes that have an open entry for it.                        *)
Towards(b) == {x \in Nodes : x # b => IsOpen(<<x, b>>)}
Onward(x, b) == IF Ends(x, b) THEN x ELSE network[<<x, b>>].next

LEMMA OneHop ==
  ASSUME TypeOK, HostsAreCurrent, NothingStale, geometry # NoGeometry,
         NEW g, NEW r, RoutedBy(g, r), NEW b \in Nodes, NEW x \in Towards(b)
  PROVE  /\ Onward(x, b) \in Towards(b) /\ Left(x, b) \in Nat
         /\ x = b => Onward(x, b) = b
         /\ x # b => /\ LinkIsUp(x, Onward(x, b))
                     /\ LinkLength(x, Onward(x, b)) \in Nat \ {0}
                     /\ Left(x, b) = LinkLength(x, Onward(x, b)) + Left(Onward(x, b), b)
  <1>1. CASE x = b
    <2>1. Onward(x, b) = b
      BY <1>1 DEF Onward, Ends
    <2>2. QED BY <1>1, <2>1 DEF Left
  <1>2. CASE x # b
    <2>1. x \in Nodes /\ IsOpen(<<x, b>>)
      BY <1>2 DEF Towards
    <2>2. <<x, b>> \in Entries
      BY <1>2, <2>1 DEF Entries
    <2>3. PICK h : h = HopOf(<<x, b>>)
      OBVIOUS
    <2>4. network[<<x, b>>].next = h /\ DelayOf(<<x, b>>) \in Nat
      BY <2>1, <2>2, <2>3, HostEntries
    <2>5. GoesOn(x, b, h)
      BY <1>2, <2>1, <2>3, EveryHop
    <2>6. /\ h \in Nodes /\ LinkIsUp(x, h) /\ LinkLength(x, h) \in Nat \ {0}
          /\ h # b => IsOpen(<<h, b>>)
          /\ Left(x, b) = LinkLength(x, h) + Left(h, b)
      BY <1>2, <2>5 DEF GoesOn, Left
    <2>7. h \in Towards(b)
      BY <2>6 DEF Towards
    <2>8. Left(x, b) \in Nat /\ Left(h, b) \in Nat
      <3>1. h # b => <<h, b>> \in Entries
        BY <2>6 DEF Entries
      <3>2. h # b => DelayOf(<<h, b>>) \in Nat
        BY <3>1, HostEntries
      <3>3. QED BY <1>2, <2>4, <3>2 DEF Left
    <2>9. h # x
      <3>1. Left(h, b) # Left(x, b)
        BY <2>6, <2>8
      <3>2. QED BY <3>1
    <2>10. Onward(x, b) = h
      <3>1. <<x, h>> \in Entries
        BY <2>1, <2>6, <2>9 DEF Entries
      <3>2. QED BY <1>2, <2>4, <3>1 DEF Onward, Ends
    <2>11. QED BY <1>2, <2>6, <2>7, <2>8, <2>10
  <1>3. QED BY <1>1, <1>2

LEMMA WalkEquation ==
  ASSUME TypeOK, HostsAreCurrent, NothingStale, geometry # NoGeometry,
         NEW g, NEW r, RoutedBy(g, r), NEW b \in Nodes, NEW a \in Towards(b),
         NEW n, n = Cardinality(Nodes)
  PROVE  /\ Walk(a, b)[0] = a
         /\ \A k \in 1..n : Walk(a, b)[k] = Onward(Walk(a, b)[k - 1], b)
         /\ \A k \in 0..n : Walk(a, b)[k] \in Towards(b)
  <1> DEFINE V == Towards(b)
             step == [x \in V \X (1..n) |-> Onward(x[1], b)]
  <1>1. n \in Nat
    BY NodesAreFinite
  <1>2. \A x \in V : Onward(x, b) \in V
    BY OneHop
  <1> HIDE DEF V
  <1>3. step \in [V \X (1..n) -> V] /\ \A x \in V, k \in 1..n : step[<<x, k>>] = Onward(x, b)
    BY <1>2
  <1> HIDE DEF step
  <1>4. a \in V
    BY DEF V
  <1>5. PICK f \in [0..n -> V] : Follows(f, n, a, step)
    BY <1>1, <1>3, <1>4, Recursion, Zenon
  <1>6. f = [k \in 0..n |-> IF k = 0 THEN a ELSE Onward(f[k - 1], b)]
    <2>1. ASSUME NEW k \in 1..n PROVE f[k] = Onward(f[k - 1], b)
      <3>1. f[k - 1] \in V
        BY <1>1, <1>5
      <3>2. QED BY <1>3, <1>5, <3>1 DEF Follows
    <2>2. \A k \in 0..n : k = 0 \/ k \in 1..n
      BY <1>1
    <2>3. QED BY <1>5, <2>1, <2>2 DEF Follows
  <1>7. Walk(a, b) = [k \in 0..n |-> IF k = 0 THEN a ELSE Onward(Walk(a, b)[k - 1], b)]
    <2>1. f = [k \in 0..Cardinality(Nodes) |->
                 IF k = 0 THEN a
                 ELSE IF Ends(f[k - 1], b) THEN f[k - 1] ELSE network[<<f[k - 1], b>>].next]
      BY <1>6, Zenon DEF Onward
    <2>2. Walk(a, b) = [k \in 0..Cardinality(Nodes) |->
                 IF k = 0 THEN a
                 ELSE IF Ends(Walk(a, b)[k - 1], b) THEN Walk(a, b)[k - 1]
                      ELSE network[<<Walk(a, b)[k - 1], b>>].next]
      BY <2>1, Zenon DEF Walk
    <2>3. QED BY <2>2, Zenon DEF Onward
  <1> DEFINE at == Walk(a, b)
  <1>8. at[0] = a /\ \A k \in 1..n : at[k] = Onward(at[k - 1], b)
    BY <1>1, <1>7
  <1> HIDE DEF at
  <1>9. \A k \in 0..n : at[k] \in V
    <2> DEFINE S == {k \in 0..n : at[k] \in V}
    <2>1. 0 \in S
      BY <1>1, <1>4, <1>8
    <2>2. ASSUME NEW k \in 0..(n - 1), k \in S PROVE k + 1 \in S
      <3>1. k + 1 \in 1..n /\ (k + 1) - 1 = k
        BY <1>1
      <3>2. at[k + 1] = Onward(at[k], b)
        BY <1>8, <3>1
      <3>3. QED BY <1>2, <2>2, <3>1, <3>2
    <2> HIDE DEF S
    <2>3. \A k \in 0..n : k \in S
      BY <1>1, <2>1, <2>2, Upwards
    <2>4. QED BY <2>3 DEF S
  <1>10. QED BY <1>8, <1>9 DEF V, at

(* The walk is there before it could come to a node twice: what is left of *)
(* the way gets less with every hop.                                       *)
LEMMA WalkArrives ==
  ASSUME NEW b \in Nodes, NEW n, n = Cardinality(Nodes), NEW at,
         \A k \in 0..n : at[k] \in Towards(b) /\ Left(at[k], b) \in Nat,
         \A k \in 1..n : /\ at[k - 1] = b => at[k] = b
                         /\ at[k - 1] # b => Left(at[k], b) < Left(at[k - 1], b)
  PROVE  at[n] = b
  <1>1. n \in Nat
    BY NodesAreFinite
  <1> SUFFICES ASSUME at[n] # b PROVE FALSE
    OBVIOUS
  <1> DEFINE S == {k \in 0..n : at[n - k] # b}
             T == {k \in 0..n : \A l \in 0..n : l < k => Left(at[k], b) < Left(at[l], b)}
  <1>2. \A k \in 0..n : at[k] # b
    <2>1. 0 \in S
      BY <1>1
    <2>2. ASSUME NEW k \in 0..(n - 1), k \in S PROVE k + 1 \in S
      <3>1. n - k \in 1..n /\ (n - k) - 1 = n - (k + 1) /\ k + 1 \in 0..n
        BY <1>1
      <3>2. at[(n - k) - 1] = b => at[n - k] = b
        BY <3>1
      <3>3. QED BY <2>2, <3>1, <3>2
    <2> HIDE DEF S
    <2>3. \A k \in 0..n : k \in S
      BY <1>1, <2>1, <2>2, Upwards
    <2>4. ASSUME NEW k \in 0..n PROVE at[k] # b
      <3>1. n - k \in 0..n /\ n - (n - k) = k
        BY <1>1
      <3>2. n - k \in S
        BY <2>3, <3>1
      <3>3. QED BY <3>1, <3>2 DEF S
    <2>5. QED BY <2>4
  <1>3. 0 \in T
    BY <1>1
  <1>4. ASSUME NEW k \in 0..(n - 1), k \in T PROVE k + 1 \in T
    <2>1. k + 1 \in 1..n /\ (k + 1) - 1 = k /\ k \in 0..n /\ k + 1 \in 0..n
      BY <1>1
    <2>2. Left(at[k + 1], b) < Left(at[k], b)
      BY <1>2, <2>1
    <2>3. ASSUME NEW l \in 0..n, l < k + 1 PROVE Left(at[k + 1], b) < Left(at[l], b)
      <3>1. l = k \/ l < k
        BY <2>1, <2>3
      <3>2. l < k => Left(at[k], b) < Left(at[l], b)
        BY <1>4
      <3>3. Left(at[k + 1], b) \in Nat /\ Left(at[k], b) \in Nat /\ Left(at[l], b) \in Nat
        BY <2>1
      <3>4. QED BY <2>2, <3>1, <3>2, <3>3
    <2>4. QED BY <2>1, <2>3
  <1> HIDE DEF T
  <1>5. \A k \in 0..n : k \in T
    BY <1>1, <1>3, <1>4, Upwards
  <1> DEFINE f == [k \in 0..n |-> at[k]]
  <1>6. f \in [0..n -> Nodes]
    BY DEF Towards
  <1>7. PICK k \in 0..n, l \in 0..n : k # l /\ f[k] = f[l]
    <2>1. IsFiniteSet(0..n) /\ Cardinality(0..n) = n + 1
      <3>1. IsFiniteSet(0..n) /\ Cardinality(0..n) = IF 0 > n THEN 0 ELSE n - 0 + 1
        BY <1>1, FS_Interval
      <3>2. QED BY <1>1, <3>1
    <2>2. Cardinality(Nodes) < Cardinality(0..n)
      BY <1>1, <2>1
    <2> HIDE DEF f
    <2>3. QED BY <1>6, <2>1, <2>2, NodesAreFinite, FS_PigeonHole
  <1>8. Left(at[k], b) \in Nat /\ at[k] = at[l]
    BY <1>7
  <1>9. ~(l < k) /\ ~(k < l)
    <2>1. l < k => Left(at[k], b) < Left(at[l], b)
      BY <1>5 DEF T
    <2>2. k < l => Left(at[l], b) < Left(at[k], b)
      BY <1>5 DEF T
    <2>3. ~(Left(at[k], b) < Left(at[k], b))
      BY <1>8
    <2>4. QED BY <1>8, <2>1, <2>2, <2>3
  <1>10. QED BY <1>7, <1>9

(* The links of the walk, and what is left of the way, add up.             *)
LEMMA TravelledEquation ==
  ASSUME NEW b, NEW n, n = Cardinality(Nodes), NEW at,
         \A k \in 0..n : Left(at[k], b) \in Nat,
         \A k \in 1..n : IF at[k - 1] = b THEN at[k] = b
                         ELSE /\ LinkLength(at[k - 1], at[k]) \in Nat
                              /\ Left(at[k - 1], b)
                                   = LinkLength(at[k - 1], at[k]) + Left(at[k], b)
  PROVE  Travelled(at, b)[n] + Left(at[n], b) = Left(at[0], b) /\ Travelled(at, b)[n] \in Nat
  <1> DEFINE link(k) == LinkLength(at[k - 1], at[k])
             more(m, k) == IF at[k - 1] = b THEN m ELSE m + link(k)
             step == [x \in Nat \X (1..n) |-> more(x[1], x[2])]
  <1>1. n \in Nat
    BY NodesAreFinite
  <1>2. \A k \in 1..n : at[k - 1] # b => link(k) \in Nat
    OBVIOUS
  <1> HIDE DEF link
  <1>3. \A m \in Nat, k \in 1..n : more(m, k) \in Nat
    BY <1>2
  <1> HIDE DEF more
  <1>4. step \in [Nat \X (1..n) -> Nat] /\ \A m \in Nat, k \in 1..n : step[<<m, k>>] = more(m, k)
    BY <1>3
  <1> HIDE DEF step
  <1>5. PICK f \in [0..n -> Nat] : Follows(f, n, 0, step)
    <2>1. 0 \in Nat
      OBVIOUS
    <2>2. QED BY <1>1, <1>4, <2>1, Recursion, Zenon
  <1>6. f = [k \in 0..n |-> IF k = 0 THEN 0 ELSE more(f[k - 1], k)]
    <2>1. ASSUME NEW k \in 1..n PROVE f[k] = more(f[k - 1], k)
      <3>1. f[k - 1] \in Nat
        BY <1>1, <1>5
      <3>2. QED BY <1>4, <1>5, <3>1 DEF Follows
    <2>2. \A k \in 0..n : k = 0 \/ k \in 1..n
      BY <1>1
    <2>3. QED BY <1>5, <2>1, <2>2 DEF Follows
  <1> DEFINE U == Travelled(at, b)
  <1>7. U = [k \in 0..n |-> IF k = 0 THEN 0 ELSE more(U[k - 1], k)]
    <2>1. f = [k \in 0..Cardinality(Nodes) |->
                 IF k = 0 THEN 0
                 ELSE IF at[k - 1] = b THEN f[k - 1]
                 ELSE f[k - 1] + LinkLength(at[k - 1], at[k])]
      BY <1>6, Zenon DEF more, link
    <2>2. U = [k \in 0..Cardinality(Nodes) |->
                 IF k = 0 THEN 0
                 ELSE IF at[k - 1] = b THEN U[k - 1]
                 ELSE U[k - 1] + LinkLength(at[k - 1], at[k])]
      BY <2>1, Zenon DEF Travelled
    <2> HIDE DEF U
    <2>3. QED BY <2>2, Zenon DEF more, link
  <1> HIDE DEF U
  <1>8. U[0] = 0 /\ \A k \in 1..n : U[k] = more(U[k - 1], k)
    BY <1>1, <1>7
  <1> DEFINE S == {k \in 0..n : U[k] \in Nat /\ U[k] + Left(at[k], b) = Left(at[0], b)}
  <1>9. 0 \in S
    BY <1>1, <1>8
  <1>10. ASSUME NEW k \in 0..(n - 1), k \in S PROVE k + 1 \in S
    <2>1. k + 1 \in 1..n /\ (k + 1) - 1 = k /\ k \in 0..n /\ k + 1 \in 0..n
      BY <1>1
    <2>2. U[k + 1] = more(U[k], k + 1)
      BY <1>8, <2>1
    <2>3. U[k] \in Nat /\ U[k] + Left(at[k], b) = Left(at[0], b)
      BY <1>10
    <2>4. CASE at[k] = b
      <3>1. at[k + 1] = b
        BY <2>1, <2>4
      <3>2. U[k + 1] = U[k]
        BY <2>1, <2>2, <2>4 DEF more
      <3>3. QED BY <2>1, <2>3, <2>4, <3>1, <3>2
    <2>5. CASE at[k] # b
      <3>1. link(k + 1) \in Nat /\ Left(at[k], b) = link(k + 1) + Left(at[k + 1], b)
        BY <2>1, <2>5 DEF link
      <3>2. U[k + 1] = U[k] + link(k + 1)
        BY <2>1, <2>2, <2>5 DEF more
      <3>3. Left(at[k], b) \in Nat /\ Left(at[k + 1], b) \in Nat
        BY <2>1
      <3>4. QED BY <2>1, <2>3, <3>1, <3>2, <3>3
    <2>6. QED BY <2>4, <2>5
  <1> HIDE DEF S
  <1>11. \A k \in 0..n : k \in S
    BY <1>1, <1>9, <1>10, Upwards
  <1>12. n \in S
    BY <1>1, <1>11
  <1>13. QED BY <1>12 DEF S, U

(* Whatever changes have come before, while no reverse hop is stale the    *)
(* path a host walks for an open entry, its own or that of the way back,   *)
(* is over links that are up, arrives, and is as long as its delay says.   *)
THEOREM FreshPathsStayShortest == Spec => []FreshPathsAreShortest
  <1>1. TypeOK /\ HostsAreCurrent /\ RoutedInv => FreshPathsAreShortest
    <2> SUFFICES ASSUME TypeOK, HostsAreCurrent, RoutedInv, geometry # NoGeometry, NothingStale,
                        NEW e \in Entries, ~network[e].blocked
                 PROVE  LET at == Walk(e[1], e[2])
                        IN /\ at[Cardinality(Nodes)] = e[2]
                           /\ \A k \in 1..Cardinality(Nodes) :
                                at[k - 1] # e[2] => LinkIsUp(at[k - 1], at[k])
                           /\ Travelled(at, e[2])[Cardinality(Nodes)] = DelayOf(e)
      BY Zenon DEF FreshPathsAreShortest
    <2>1. PICK g, r : RoutedBy(g, r)
      BY DEF RoutedInv, RoutedBy
    <2>2. PICK a \in Nodes, b \in Nodes : e = <<a, b>> /\ a # b
      BY DEF Entries
    <2>3. IsOpen(<<a, b>>)
      <3>1. network[e].blocked <=> ~IsOpen(e)
        BY HostEntries
      <3>2. QED BY <2>2, <3>1
    <2>4. a \in Towards(b)
      BY <2>3 DEF Towards
    <2>5. PICK n : n = Cardinality(Nodes)
      OBVIOUS
    <2> DEFINE at == Walk(a, b)
    <2>6. /\ at[0] = a /\ \A k \in 1..n : at[k] = Onward(at[k - 1], b)
          /\ \A k \in 0..n : at[k] \in Towards(b)
      BY <2>1, <2>4, <2>5, WalkEquation
    <2> HIDE DEF at
    <2>7. n \in Nat
      BY <2>5, NodesAreFinite
    <2>8. \A k \in 0..n : Left(at[k], b) \in Nat
      BY <2>1, <2>6, OneHop
    <2>9. ASSUME NEW k \in 1..n
          PROVE  /\ at[k - 1] = b => at[k] = b
                 /\ at[k - 1] # b =>
                      /\ LinkIsUp(at[k - 1], at[k])
                      /\ LinkLength(at[k - 1], at[k]) \in Nat \ {0}
                      /\ Left(at[k - 1], b) = LinkLength(at[k - 1], at[k]) + Left(at[k], b)
      <3>1. at[k] = Onward(at[k - 1], b) /\ at[k - 1] \in Towards(b)
        BY <2>6, <2>7
      <3>2. QED BY <2>1, <3>1, OneHop
    <2>10. \A k \in 1..n : at[k - 1] # b => Left(at[k], b) < Left(at[k - 1], b)
      BY <2>7, <2>8, <2>9
    <2>11. at[n] = b
      BY <2>5, <2>6, <2>8, <2>9, <2>10, WalkArrives
    <2>12. Travelled(at, b)[n] + Left(at[n], b) = Left(at[0], b) /\ Travelled(at, b)[n] \in Nat
      BY <2>5, <2>8, <2>9, TravelledEquation
    <2>13. Travelled(at, b)[n] = DelayOf(e)
      BY <2>2, <2>6, <2>11, <2>12 DEF Left
    <2>14. QED BY <2>2, <2>5, <2>9, <2>11, <2>13 DEF at
  <1>2. QED BY <1>1, TypeCorrect, HostsStayCurrent, RoutedAlways, PTL
=============================================================================
