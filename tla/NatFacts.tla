------------------------------ MODULE NatFacts ------------------------------
(***************************************************************************)
(* Facts about numbers that the proofs of several components rest on: least *)
(* and greatest elements, and the existence of what is defined by recursion *)
(* on a number.  Nothing here is about a component.                         *)
(***************************************************************************)
EXTENDS Integers, WellFoundedInduction, TLAPS

\* A set of numbers that is not empty has a least one.
LEMMA LeastExists ==
  ASSUME NEW T \in SUBSET Nat, T # {}
  PROVE  \E x \in T : \A y \in T : x <= y
<1> DEFINE Less == OpToRel(<, Nat)
<1>1. IsWellFoundedOn(Less, Nat)
  BY NatLessThanWellFounded
<1>2. \A x, y \in Nat : <<y, x>> \notin Less => x <= y
  <2>1. \A x, y \in Nat : <<y, x>> \in Less <=> y < x
    BY DEF OpToRel
  <2> HIDE DEF Less
  <2> QED BY <2>1
<1> HIDE DEF Less
<1>3. PICK x \in T : \A y \in T : <<y, x>> \notin Less
  BY <1>1, WFMin
<1> QED BY <1>2, <1>3

\* A non-empty set of numbers up to n has a greatest one.
LEMMA GreatestExists ==
  ASSUME NEW n \in Nat, NEW T \in SUBSET (0 .. n), T # {}
  PROVE  \E x \in T : \A y \in T : y <= x
<1> DEFINE U == {n - x : x \in T}
<1>1. U \in SUBSET Nat
  OBVIOUS
<1>2. PICK t \in T : TRUE
  OBVIOUS
<1>3. n - t \in U
  OBVIOUS
<1>4. PICK u \in U : \A v \in U : u <= v
  <2> HIDE DEF U
  <2> QED BY <1>1, <1>3, LeastExists
<1>5. PICK x \in T : u = n - x
  OBVIOUS
<1>6. \A y \in T : n - x <= n - y
  BY <1>4, <1>5
<1>7. \A y \in T : y <= x
  BY <1>6
<1> QED BY <1>7

\* f solves the recursion that starts with base and goes on by G, up to n.
Solves(f, base, G, n) ==
  f[0] = base /\ \A i \in 1 .. n : f[i] = G[<<f[i - 1], i>>]

\* Two solutions of a recursion agree where both are.
LEMMA SolutionsAgree ==
  ASSUME NEW m \in Nat, NEW n \in Nat, m <= n, NEW base, NEW G, NEW f, NEW g,
         Solves(f, base, G, m), Solves(g, base, G, n)
  PROVE  \A i \in 0 .. m : f[i] = g[i]
<1> DEFINE T == {i \in 0 .. m : f[i] # g[i]}
<1> SUFFICES ASSUME T # {} PROVE FALSE
  OBVIOUS
<1>1. T \in SUBSET Nat
  OBVIOUS
<1>2. PICK i \in T : \A j \in T : i <= j
  <2> HIDE DEF T
  <2> QED BY <1>1, LeastExists
<1>3. i \in 1 .. m /\ i \in 1 .. n /\ i - 1 \in 0 .. m /\ i - 1 < i /\ f[i] # g[i]
  <2>1. i \in 0 .. m /\ f[i] # g[i]
    OBVIOUS
  <2>2. i # 0
    BY <2>1 DEF Solves
  <2>3. QED
    BY <2>1, <2>2
<1>4. i - 1 \notin T
  BY <1>2, <1>3
<1>5. f[i - 1] = g[i - 1]
  BY <1>3, <1>4
<1>6. QED
  BY <1>3, <1>5 DEF Solves

\* A recursion that stays in a set has a solution up to every number.
LEMMA SolutionUpTo ==
  ASSUME NEW V, NEW base \in V, NEW G \in [V \X Nat -> V], NEW k \in Nat
  PROVE  \E f \in [0 .. k -> V] : Solves(f, base, G, k)
<1> DEFINE T == {n \in Nat : ~ \E f \in [0 .. n -> V] : Solves(f, base, G, n)}
<1>1. T = {}
  <2> SUFFICES ASSUME T # {} PROVE FALSE
    OBVIOUS
  <2>1. PICK n \in T : \A m \in T : n <= m
    <3>1. T \in SUBSET Nat
      OBVIOUS
    <3> HIDE DEF T
    <3> QED BY <3>1, LeastExists
  <2>2. n \in Nat /\ ~ \E f \in [0 .. n -> V] : Solves(f, base, G, n)
    OBVIOUS
  <2>3. CASE n = 0
    <3> DEFINE f == [i \in 0 .. 0 |-> base]
    <3>1. f \in [0 .. 0 -> V] /\ Solves(f, base, G, 0)
      BY DEF Solves
    <3>2. QED
      BY <2>2, <2>3, <3>1
  <2>4. CASE n # 0
    <3>1. n - 1 \in Nat /\ n - 1 \notin T
      <4>1. n - 1 \in Nat /\ ~(n <= n - 1)
        BY <2>2, <2>4
      <4> HIDE DEF T
      <4> QED BY <2>1, <4>1
    <3>2. PICK f \in [0 .. n - 1 -> V] : Solves(f, base, G, n - 1)
      BY <3>1
    <3> DEFINE g == [i \in 0 .. n |-> IF i = n THEN G[<<f[n - 1], n>>] ELSE f[i]]
    <3>3. f[n - 1] \in V /\ G[<<f[n - 1], n>>] \in V
      BY <2>2, <3>1, <3>2
    <3>4. g \in [0 .. n -> V]
      BY <2>2, <3>1, <3>2, <3>3
    <3>5. g[0] = base
      BY <2>2, <2>4, <3>2 DEF Solves
    <3>6. ASSUME NEW i \in 1 .. n PROVE g[i] = G[<<g[i - 1], i>>]
      <4>1. i - 1 \in 0 .. n - 1 /\ i - 1 \in 0 .. n /\ i \in 0 .. n /\ i - 1 # n
        BY <2>2
      <4>2. g[i - 1] = f[i - 1]
        BY <4>1
      <4>3. CASE i = n
        BY <4>1, <4>2, <4>3
      <4>4. CASE i # n
        <5>1. i \in 1 .. n - 1 /\ g[i] = f[i]
          BY <2>2, <4>4
        <5>2. f[i] = G[<<f[i - 1], i>>]
          BY <3>2, <5>1 DEF Solves
        <5>3. QED
          BY <4>2, <5>1, <5>2
      <4>5. QED
        BY <4>3, <4>4
    <3>7. Solves(g, base, G, n)
      <4> HIDE DEF g
      <4> QED BY <3>5, <3>6 DEF Solves
    <3>8. QED
      BY <2>2, <3>4, <3>7
  <2>5. QED
    BY <2>3, <2>4
<1>2. QED
  BY <1>1

\* f solves the recursion for all numbers.
SolvesAll(f, base, G) ==
  f[0] = base /\ \A i \in Nat \ {0} : f[i] = G[<<f[i - 1], i>>]

\* A recursion that stays in a set has a solution for all numbers.
LEMMA SolutionExists ==
  ASSUME NEW V, NEW base \in V, NEW G \in [V \X Nat -> V]
  PROVE  \E f \in [Nat -> V] : SolvesAll(f, base, G)
<1> DEFINE part(n) == CHOOSE f \in [0 .. n -> V] : Solves(f, base, G, n)
           F == [n \in Nat |-> part(n)[n]]
<1>1. ASSUME NEW n \in Nat
      PROVE  part(n) \in [0 .. n -> V] /\ Solves(part(n), base, G, n)
  BY SolutionUpTo
<1> HIDE DEF part
<1>2. F \in [Nat -> V]
  BY <1>1
<1>3. F[0] = base
  BY <1>1 DEF Solves
<1>4. ASSUME NEW i \in Nat \ {0} PROVE F[i] = G[<<F[i - 1], i>>]
  <2>1. i - 1 \in Nat /\ i - 1 \in 0 .. i - 1 /\ i \in 1 .. i /\ i - 1 <= i /\ i \in Nat
    OBVIOUS
  <2>2. Solves(part(i), base, G, i) /\ Solves(part(i - 1), base, G, i - 1)
    BY <1>1, <2>1
  <2>3. part(i - 1)[i - 1] = part(i)[i - 1]
    BY <2>1, <2>2, SolutionsAgree
  <2>4. F[i] = part(i)[i] /\ F[i - 1] = part(i - 1)[i - 1]
    BY <2>1
  <2>5. part(i)[i] = G[<<part(i)[i - 1], i>>]
    BY <2>1, <2>2 DEF Solves
  <2>6. QED
    BY <2>3, <2>4, <2>5
<1> HIDE DEF F
<1>5. SolvesAll(F, base, G)
  BY <1>3, <1>4 DEF SolvesAll
<1>6. QED
  BY <1>2, <1>5
=============================================================================
