------------------------------ MODULE Induction ------------------------------
(* Induction over the naturals, stated with sets in the place of predicates: *)
(* what has a counterexample has a least one.                                *)
EXTENDS Integers, WellFoundedInduction, SequenceTheorems, TLAPS

(* Every set of naturals has a least element.                              *)
LEMMA LeastElement ==
  ASSUME NEW T, T \subseteq Nat, T # {}
  PROVE  \E n \in T : \A m \in T : n <= m
  <1> DEFINE R == OpToRel(<, Nat)
  <1>1. IsWellFoundedOn(R, Nat)
    BY NatLessThanWellFounded
  <1>2. R = {ss \in Nat \X Nat : ss[1] < ss[2]}
    BY DEF OpToRel
  <1> HIDE DEF R
  <1>3. PICK n \in T : \A m \in T : ~(<<m, n>> \in R)
    BY <1>1, WFMin
  <1>4. ASSUME NEW m \in T PROVE n <= m
    <2>1. <<m, n>> \in R <=> m < n
      BY <1>2
    <2>2. QED BY <1>3, <2>1
  <1>5. QED BY <1>4

(* What holds of 0, and of the successor of whatever it holds of, holds up *)
(* to N.                                                                   *)
LEMMA Upwards ==
  ASSUME NEW N \in Nat, NEW S, 0 \in S,
         \A n \in 0..(N - 1) : n \in S => n + 1 \in S
  PROVE  \A n \in 0..N : n \in S
  <1> DEFINE T == {n \in 0..N : n \notin S}
  <1> SUFFICES ASSUME T # {} PROVE FALSE
    OBVIOUS
  <1>1. T \subseteq Nat
    OBVIOUS
  <1>2. PICK n \in T : \A m \in T : n <= m
    BY <1>1, LeastElement
  <1>3. n \in 1..N /\ n \notin S
    BY DEF T
  <1>4. n - 1 \in 0..(N - 1) /\ n - 1 \notin T
    BY <1>2, <1>3
  <1>5. n - 1 \in S
    BY <1>4
  <1>6. (n - 1) + 1 \in S
    BY <1>4, <1>5
  <1>7. QED BY <1>3, <1>6

(* f starts at c, and goes on as D says.                                   *)
Follows(f, N, c, D) == f[0] = c /\ \A k \in 1..N : f[k] = D[<<f[k - 1], k>>]

(* There is such a function up to N whenever each value has a next one.  A *)
(* recursive function is chosen to be one that satisfies its equation, so  *)
(* this is what it takes to unfold it.                                     *)
LEMMA Recursion ==
  ASSUME NEW N \in Nat, NEW V, NEW c \in V, NEW D \in [V \X (1..N) -> V]
  PROVE  \E f \in [0..N -> V] : Follows(f, N, c, D)
  <1> DEFINE Defines(u, j) == Follows(u, j, c, D)
             S == {n \in 0..N : \E f \in [0..n -> V] : Defines(f, n)}
  <1>1. 0 \in S
    <2>1. Defines([k \in 0..0 |-> c], 0)
      BY DEF Follows
    <2>2. [k \in 0..0 |-> c] \in [0..0 -> V]
      OBVIOUS
    <2> HIDE DEF Defines
    <2>3. QED BY <2>1, <2>2
  <1>2. ASSUME NEW n \in 0..(N - 1), n \in S PROVE n + 1 \in S
    <2>1. PICK f \in [0..n -> V] : Defines(f, n)
      BY <1>2
    <2> DEFINE h == [k \in 0..(n + 1) |-> IF k = n + 1 THEN D[<<f[n], n + 1>>] ELSE f[k]]
    <2>2. n + 1 \in 1..N /\ f[n] \in V
      OBVIOUS
    <2>3. h \in [0..(n + 1) -> V]
      BY <2>2
    <2>4. \A k \in 0..(n + 1) : h[k] = IF k = n + 1 THEN D[<<f[n], n + 1>>] ELSE f[k]
      OBVIOUS
    <2> HIDE DEF h
    <2>5. h[0] = c /\ h[n + 1] = D[<<h[(n + 1) - 1], n + 1>>]
      BY <2>1, <2>4 DEF Follows
    <2>6. ASSUME NEW k \in 1..n PROVE h[k] = D[<<h[k - 1], k>>]
      <3>1. k \in 0..(n + 1) /\ k - 1 \in 0..(n + 1) /\ k # n + 1 /\ k - 1 # n + 1
        OBVIOUS
      <3>2. QED BY <2>1, <2>4, <3>1 DEF Follows
    <2>7. Defines(h, n + 1)
      <3>1. \A k \in 1..(n + 1) : k \in 1..n \/ k = n + 1
        OBVIOUS
      <3>2. QED BY <2>5, <2>6, <3>1 DEF Follows
    <2> HIDE DEF Defines
    <2>8. QED BY <2>2, <2>3, <2>7
  <1>3. N \in S
    <2> HIDE DEF S
    <2>1. \A n \in 0..N : n \in S
      BY <1>1, <1>2, Upwards
    <2>2. QED BY <2>1
  <1>4. QED BY <1>3

(* A function on 1..n is a sequence of n elements.                         *)
LEMMA LenOfFunction ==
  ASSUME NEW n \in Nat, NEW S, NEW s \in [1..n -> S]
  PROVE  Len(s) = n
  <1>1. s \in Seq(S)
    BY SeqDef
  <1>2. QED BY <1>1, LenProperties
=============================================================================
