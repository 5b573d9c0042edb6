----------------------------- MODULE Recursion -----------------------------
(***************************************************************************)
(* Induction and recursion over ranked sets, stated of sets and functions  *)
(* rather than of operators so that a proof can use them at any instance:  *)
(* the loops of the code over the transactions of a block, the blocks of a *)
(* branch or the ancestors of a block are functions defined by recursion.  *)
(***************************************************************************)
EXTENDS Integers, WellFoundedInduction, TLAPS

(* A non-empty set of natural numbers has a least element.                 *)
LEMMA LeastNat ==
    ASSUME NEW S, S \subseteq Nat, S # {}
    PROVE  \E n \in S : \A m \in S : n <= m
<1>1. IsWellFoundedOn(OpToRel(<, Nat), Nat)
  BY NatLessThanWellFounded
<1>2. PICK n \in S : \A m \in S : ~ (<<m, n>> \in OpToRel(<, Nat))
  BY <1>1, WFMin
<1>3. ASSUME NEW m \in Nat, NEW k \in Nat, m < k
      PROVE  <<m, k>> \in OpToRel(<, Nat)
  <2>1. <<m, k>> \in Nat \X Nat /\ <<m, k>>[1] < <<m, k>>[2]
    BY <1>3
  <2> QED
    BY <2>1, Zenon DEF OpToRel
<1>4. \A m \in S : ~ (m < n)
  BY <1>2, <1>3
<1> QED
  BY <1>4

(* Induction over the natural numbers; S is the set where the claim holds. *)
LEMMA NatInduct ==
    ASSUME NEW S, 0 \in S, \A n \in Nat : n \in S => n + 1 \in S
    PROVE  Nat \subseteq S
<1> SUFFICES ASSUME ~ (Nat \subseteq S) PROVE FALSE
  OBVIOUS
<1> DEFINE T == Nat \ S
<1>1. PICK n \in T : \A m \in T : n <= m
  BY LeastNat, Zenon
<1>2. n # 0 /\ n - 1 \in Nat /\ n - 1 \notin T
  BY <1>1
<1> QED
  BY <1>1, <1>2

(* Induction over a set whose members have ranks.                          *)
LEMMA RankedInduct ==
    ASSUME NEW D, NEW rank \in [D -> Nat], NEW S,
           \A d \in D : (\A e \in D : rank[e] < rank[d] => e \in S) => d \in S
    PROVE  D \subseteq S
<1> SUFFICES ASSUME NEW x \in D, x \notin S PROVE FALSE
  OBVIOUS
<1> DEFINE T == {rank[d] : d \in D \ S}
<1>1. T \subseteq Nat /\ T # {}
  OBVIOUS
<1>2. PICK n \in T : \A m \in T : n <= m
  BY <1>1, LeastNat, Zenon
<1>3. PICK d \in D \ S : n = rank[d]
  OBVIOUS
<1>4. \A e \in D : rank[e] < rank[d] => e \in S
  <2> SUFFICES ASSUME NEW e \in D, rank[e] < rank[d], e \notin S PROVE FALSE
    OBVIOUS
  <2>1. rank[e] \in T /\ rank[e] \in Nat /\ rank[d] \in Nat
    OBVIOUS
  <2> QED
    BY <1>2, <1>3, <2>1
<1> QED
  BY <1>3, <1>4

(* What a recursion over a set D with ranks has to provide: the value      *)
(* base[d] on the set R and, elsewhere, a function F[d] of the value at    *)
(* prev[d], whose rank is lower.                                           *)
RecursionOn(D, rank, R, prev, T, base, F) ==
    /\ rank \in [D -> Nat]
    /\ \A d \in D \ R : prev[d] \in D /\ rank[prev[d]] < rank[d]
    /\ \A d \in D \cap R : base[d] \in T
    /\ \A d \in D \ R, t \in T : F[d][t] \in T

(* f is the function so defined.                                           *)
RecursiveOn(f, D, R, prev, T, base, F) ==
    /\ f \in [D -> T]
    /\ \A d \in D : f[d] = IF d \in R THEN base[d] ELSE F[d][f[prev[d]]]

(***************************************************************************)
(* The function defined by such a recursion exists.  Good(f, n) says that  *)
(* f obeys it on the members of rank up to n; such functions agree with    *)
(* one another, and the one wanted takes its value at d from one for the   *)
(* rank of d.                                                              *)
(***************************************************************************)
LEMMA RankedRecursion ==
    ASSUME NEW D, NEW rank, NEW R, NEW prev, NEW T, NEW base, NEW F,
           RecursionOn(D, rank, R, prev, T, base, F)
    PROVE  \E f : RecursiveOn(f, D, R, prev, T, base, F)
<1> USE DEF RecursionOn, RecursiveOn
<1> DEFINE Low(n) == {d \in D : rank[d] <= n}
           Val(f, d) == IF d \in R THEN base[d] ELSE F[d][f[prev[d]]]
           Good(f, n) == f \in [Low(n) -> T] /\ \A d \in Low(n) : f[d] = Val(f, d)
           P(n) == \E f : Good(f, n)
           S == {n \in Nat : P(n)}
<1>1. ASSUME NEW n \in Nat, NEW d \in Low(n), d \notin R
      PROVE  prev[d] \in Low(n) /\ rank[prev[d]] < rank[d]
  <2>1. prev[d] \in D /\ rank[prev[d]] < rank[d] /\ rank[d] <= n
    BY <1>1
  <2> QED
    BY <2>1
<1>2. ASSUME NEW n \in Nat, NEW f, f \in [Low(n) -> T], NEW d \in Low(n)
      PROVE  Val(f, d) \in T
  <2>1. CASE d \in R
    BY <2>1
  <2>2. CASE d \notin R
    BY <2>2, <1>1, <1>2
  <2> QED
    BY <2>1, <2>2
<1>3. P(0)
  <2> DEFINE f == [d \in Low(0) |-> base[d]]
  <2>1. \A d \in Low(0) : d \in R
    BY <1>1
  <2>2. Good(f, 0)
    BY <2>1
  <2> QED
    BY <2>2, Zenon
<1>4. ASSUME NEW n \in Nat, P(n) PROVE P(n + 1)
  <2>1. PICK f : Good(f, n)
    BY <1>4, Zenon
  <2> DEFINE g == [d \in Low(n + 1) |-> IF d \in Low(n) THEN f[d] ELSE Val(f, d)]
  <2>2. \A d \in Low(n + 1) : d \notin R => prev[d] \in Low(n)
    BY <1>1
  <2>3. \A d \in Low(n + 1) : g[d] \in T
    BY <2>1, <2>2
  <2>4. ASSUME NEW d \in Low(n + 1) PROVE g[d] = Val(g, d)
    <3>1. d \notin R => g[prev[d]] = f[prev[d]]
      BY <2>2
    <3>2. Val(g, d) = Val(f, d)
      <4> HIDE DEF g
      <4> QED
        BY <3>1
    <3> QED
      BY <2>1, <3>2, Zenon
  <2> HIDE DEF Val
  <2>5. Good(g, n + 1)
    BY <2>3, <2>4
  <2> QED
    BY <2>5, Zenon
<1>5. \A n \in Nat : P(n)
  <2> HIDE DEF P
  <2>1. 0 \in S /\ \A n \in Nat : n \in S => n + 1 \in S
    BY <1>3, <1>4
  <2> QED
    BY <2>1, NatInduct, Zenon
<1>6. ASSUME NEW m \in Nat, NEW n \in Nat, NEW f, NEW g,
             Good(f, m), Good(g, n)
      PROVE  \A d \in Low(m) \cap Low(n) : f[d] = g[d]
  <2> DEFINE Same == {d \in D : d \in Low(m) \cap Low(n) => f[d] = g[d]}
  <2>1. ASSUME NEW d \in D, \A e \in D : rank[e] < rank[d] => e \in Same
        PROVE  d \in Same
    <3> SUFFICES ASSUME d \in Low(m) \cap Low(n) PROVE f[d] = g[d]
      OBVIOUS
    <3>1. CASE d \in R
      BY <3>1, <1>6
    <3>2. CASE d \notin R
      <4>1. prev[d] \in Low(m) \cap Low(n) /\ rank[prev[d]] < rank[d]
        BY <3>2, <1>1
      <4>2. f[prev[d]] = g[prev[d]]
        BY <4>1, <2>1
      <4> QED
        BY <1>6, <3>2, <4>2
    <3> QED
      BY <3>1, <3>2
  <2>2. D \subseteq Same
    <3> HIDE DEF Same
    <3> QED
      BY <2>1, RankedInduct
  <2> QED
    BY <2>2
<1> DEFINE pick(n) == CHOOSE f : Good(f, n)
           h == [d \in D |-> pick(rank[d])[d]]
<1>7. \A n \in Nat : Good(pick(n), n)
  <2> HIDE DEF Good
  <2> QED
    BY <1>5
<1> HIDE DEF pick
<1>8. h \in [D -> T]
  <2> SUFFICES ASSUME NEW d \in D PROVE h[d] \in T
    OBVIOUS
  <2>1. d \in Low(rank[d]) /\ rank[d] \in Nat
    OBVIOUS
  <2> QED
    BY <1>7, <2>1, Zenon
<1>9. ASSUME NEW d \in D PROVE h[d] = Val(h, d)
  <2> DEFINE n == rank[d]
             f == pick(n)
  <2>1. n \in Nat /\ d \in Low(n) /\ Good(f, n)
    <3>1. n \in Nat /\ d \in Low(n)
      OBVIOUS
    <3> HIDE DEF Good, n
    <3> QED
      BY <1>7, <3>1
  <2>2. h[d] = Val(f, d)
    BY <2>1
  <2>3. CASE d \in R
    BY <2>2, <2>3
  <2>4. CASE d \notin R
    <3>1. prev[d] \in Low(n)
      BY <2>1, <2>4, <1>1
    <3>2. prev[d] \in Low(rank[prev[d]]) /\ rank[prev[d]] \in Nat
      BY <3>1
    <3>3. Good(pick(rank[prev[d]]), rank[prev[d]])
      BY <1>7, <3>2, Zenon
    <3>4. pick(rank[prev[d]])[prev[d]] = f[prev[d]]
      <4> HIDE DEF Good, Low, n, f
      <4> QED
        BY <2>1, <3>1, <3>2, <3>3, <1>6
    <3> QED
      BY <2>2, <2>4, <3>1, <3>4
  <2> QED
    BY <2>3, <2>4
<1> QED
  BY <1>8, <1>9, Zenon

(* A loop of n steps over a state in T: f gives the states it goes through,*)
(* F[k] is its k-th step.                                                  *)
LoopOf(f, n, T, t0, F) ==
    /\ f \in [0 .. n -> T]
    /\ f[0] = t0
    /\ \A k \in 1 .. n : f[k] = F[k][f[k - 1]]

(* A loop whose steps stay in T goes through some states.                  *)
LEMMA LoopExists ==
    ASSUME NEW n \in Nat, NEW T, NEW t0 \in T, NEW F \in [1 .. n -> [T -> T]]
    PROVE  \E f : LoopOf(f, n, T, t0, F)
<1> DEFINE D == 0 .. n
           rank == [k \in D |-> k]
           prev == [k \in D |-> k - 1]
           base == [k \in D |-> t0]
           R == {0}
<1>1. RecursionOn(D, rank, R, prev, T, base, F)
  BY DEF RecursionOn
<1>2. PICK f : RecursiveOn(f, D, R, prev, T, base, F)
  <2> HIDE DEF D, R, rank, prev, base
  <2> QED
    BY <1>1, RankedRecursion
<1> QED
  BY <1>2 DEF RecursiveOn, LoopOf

(* Induction over the steps of such a loop.                                *)
LEMMA LoopInduct ==
    ASSUME NEW n \in Nat, NEW S, 0 \in S,
           \A k \in 1 .. n : k - 1 \in S => k \in S
    PROVE  0 .. n \subseteq S
<1> DEFINE T == {k \in Nat : k <= n => k \in S}
<1>1. 0 \in T
  OBVIOUS
<1>2. ASSUME NEW k \in Nat, k \in T PROVE k + 1 \in T
  <2> SUFFICES ASSUME k + 1 <= n PROVE k + 1 \in S
    OBVIOUS
  <2>1. k + 1 \in 1 .. n /\ (k + 1) - 1 = k /\ k \in S
    BY <1>2
  <2> QED
    BY <2>1
<1>3. Nat \subseteq T
  <2> HIDE DEF T
  <2> QED
    BY <1>1, <1>2, NatInduct
<1> QED
  BY <1>3

=============================================================================
