----------------------------- MODULE Sums_proofs -----------------------------
(***************************************************************************)
(* What a sum over a finite set is, for every set and every number of      *)
(* elements: SumOf is a function with a recursive definition, and neither  *)
(* its existence nor its bounds follow from anything but induction.        *)
(*                                                                         *)
(* The induction runs over cardinalities and is stated without an operator *)
(* parameter: the sizes a statement fails for, if there are any, have a    *)
(* least one, and the set of that size, less an element, is smaller.       *)
(***************************************************************************)
EXTENDS Sums, FiniteSetTheorems, WellFoundedInduction, TLAPS

\* A set of numbers that is not empty has a least one.
LEMMA LeastNat ==
  ASSUME NEW T \in SUBSET Nat, T # {}
  PROVE  \E n \in T : \A m \in T : n <= m
<1>1. \E n \in T : \A m \in T : <<m, n>> \notin OpToRel(<, Nat)
  BY NatLessThanWellFounded, WFMin
<1>2. PICK n \in T : \A m \in T : <<m, n>> \notin OpToRel(<, Nat)
  BY <1>1
<1>3. ASSUME NEW m \in T, ~(n <= m) PROVE FALSE
  <2>1. m \in Nat /\ n \in Nat /\ m < n
    BY <1>3
  <2>2. <<m, n>> \in OpToRel(<, Nat)
    BY <2>1 DEF OpToRel
  <2>. QED
    BY <2>2, <1>2
<1>. QED
  BY <1>3

\* A fold that adds f up takes one element after the other from a set.
Taken(s) == CHOOSE x \in s : TRUE
FoldStep(f, iter, s) == IF s = {} THEN 0 ELSE f[Taken(s)] + iter[s \ {Taken(s)}]
AddsUp(iter, f, S) == iter = [s \in SUBSET S |-> FoldStep(f, iter, s)]

\* What is left is a smaller set.
LEMMA TakenLeaves ==
  ASSUME NEW S, IsFiniteSet(S), NEW s \in SUBSET S, s # {}
  PROVE  /\ Taken(s) \in s /\ s \ {Taken(s)} \in SUBSET S
         /\ Cardinality(s) \in Nat \ {0}
         /\ Cardinality(s \ {Taken(s)}) = Cardinality(s) - 1
         /\ Cardinality(s \ {Taken(s)}) \in Nat
<1> DEFINE x == Taken(s)
<1>1. x \in s
  BY DEF Taken
<1>2. IsFiniteSet(s)
  BY FS_Subset
<1>3. IsFiniteSet(s \ {x}) /\ Cardinality(s \ {x}) = Cardinality(s) - 1
  BY <1>1, <1>2, FS_RemoveElement
<1>4. Cardinality(s) \in Nat /\ Cardinality(s \ {x}) \in Nat
  BY <1>2, <1>3, FS_CardinalityType
<1>. QED
  BY <1>1, <1>2, <1>3, <1>4

\* The fold exists, although its recursion runs over sets.
LEMMA FoldExists ==
  ASSUME NEW S, IsFiniteSet(S), NEW f, \A x \in S : f[x] \in Int
  PROVE  \E iter : AddsUp(iter, f, S)
<1> DEFINE Good(g, n) == \A s \in SUBSET S : Cardinality(s) <= n => g[s] = FoldStep(f, g, s)
           Some(n) == \E g \in [SUBSET S -> Int] : Good(g, n)
           Fails == {n \in Nat : ~ Some(n)}
<1>. HIDE DEF Some
<1>1. Some(0)
  <2> DEFINE g == [s \in SUBSET S |-> 0]
  <2>1. ASSUME NEW s \in SUBSET S, Cardinality(s) <= 0 PROVE s = {}
    <3>. SUFFICES ASSUME s # {} PROVE FALSE
      OBVIOUS
    <3>1. Cardinality(s) \in Nat \ {0}
      BY TakenLeaves
    <3>. QED
      BY <2>1, <3>1
  <2>2. Good(g, 0)
    BY <2>1 DEF FoldStep
  <2>3. g \in [SUBSET S -> Int]
    OBVIOUS
  <2>. HIDE DEF g
  <2>. QED
    BY <2>2, <2>3 DEF Some
<1>2. ASSUME NEW n \in Nat, Some(n) PROVE Some(n + 1)
  <2>. PICK g \in [SUBSET S -> Int] : Good(g, n)
    BY <1>2 DEF Some
  <2> DEFINE h == [s \in SUBSET S |-> FoldStep(f, g, s)]
  <2>1. h \in [SUBSET S -> Int]
    <3>. SUFFICES ASSUME NEW s \in SUBSET S PROVE FoldStep(f, g, s) \in Int
      OBVIOUS
    <3>1. s # {} => Taken(s) \in S /\ s \ {Taken(s)} \in SUBSET S
      BY DEF Taken
    <3>. QED
      BY <3>1 DEF FoldStep
  <2>2. ASSUME NEW s \in SUBSET S, Cardinality(s) <= n + 1
        PROVE  h[s] = FoldStep(f, h, s)
    <3>1. CASE s = {}
      BY <3>1 DEF FoldStep
    <3>2. CASE s # {}
      <4> DEFINE x == Taken(s)
      <4>1. s \ {x} \in SUBSET S /\ Cardinality(s \ {x}) <= n
        <5>1. /\ s \ {x} \in SUBSET S /\ Cardinality(s) \in Nat
              /\ Cardinality(s \ {x}) = Cardinality(s) - 1
          BY <3>2, TakenLeaves
        <5>. QED
          BY <5>1, <2>2
      <4>2. h[s \ {x}] = g[s \ {x}]
        BY <4>1
      <4>. QED
        BY <3>2, <4>2 DEF FoldStep
    <3>. QED
      BY <3>1, <3>2
  <2>. QED
    BY <2>1, <2>2 DEF Some
<1>3. Fails = {}
  <2>. SUFFICES ASSUME Fails # {} PROVE FALSE
    OBVIOUS
  <2>. PICK n \in Fails : \A m \in Fails : n <= m
    BY LeastNat
  <2>1. n # 0 /\ n \in Nat /\ n - 1 \in Nat
    BY <1>1
  <2>2. Some(n - 1)
    BY <2>1
  <2>. QED
    BY <2>1, <2>2, <1>2
<1>4. Cardinality(S) \in Nat
  BY FS_CardinalityType
<1>5. PICK g \in [SUBSET S -> Int] : Good(g, Cardinality(S))
  BY <1>3, <1>4 DEF Some
<1>6. \A s \in SUBSET S : Cardinality(s) <= Cardinality(S)
  BY FS_Subset
<1>. QED
  BY <1>5, <1>6 DEF AddsUp

\* A sum over a set lies between its least and its greatest value, as often as the
\* set has elements.
LEMMA FoldBetween ==
  ASSUME NEW S, IsFiniteSet(S), NEW f, \A x \in S : f[x] \in Int,
         NEW iter, AddsUp(iter, f, S)
  PROVE  /\ iter[S] \in Int
         /\ S # {} => /\ \E i \in S : f[i] * Cardinality(S) <= iter[S]
                      /\ \E i \in S : iter[S] <= f[i] * Cardinality(S)
<1> DEFINE Between(s) ==
      /\ iter[s] \in Int
      /\ s # {} => /\ \E i \in s : f[i] * Cardinality(s) <= iter[s]
                   /\ \E i \in s : iter[s] <= f[i] * Cardinality(s)
           Fails == {n \in Nat : \E s \in SUBSET S : Cardinality(s) = n /\ ~ Between(s)}
<1>1. ASSUME NEW s \in SUBSET S,
             \A t \in SUBSET S : Cardinality(t) < Cardinality(s) => Between(t)
      PROVE  Between(s)
  <2>1. CASE s = {}
    BY <2>1 DEF FoldStep, AddsUp
  <2>2. CASE s # {}
    <3> DEFINE x == Taken(s)
               t == s \ {x}
               n == Cardinality(t)
    <3>1. /\ x \in s /\ t \in SUBSET S /\ f[x] \in Int
          /\ Cardinality(s) = n + 1 /\ n \in Nat
      <4>1. /\ Taken(s) \in s /\ s \ {Taken(s)} \in SUBSET S
            /\ Cardinality(s) \in Nat \ {0} /\ n = Cardinality(s) - 1 /\ n \in Nat
        BY <2>2, TakenLeaves
      <4>. QED
        BY <4>1
    <3>2. Between(t)
      <4>. HIDE DEF Between, t
      <4>. QED
        BY <3>1, <1>1 DEF t
    <3>3. iter[s] = f[x] + iter[t]
      BY <2>2 DEF FoldStep, AddsUp
    <3>4. t = {} => n = 0 /\ iter[t] = 0
      BY FS_EmptySet DEF FoldStep, AddsUp
    <3>5. \A a \in Int : a * (n + 1) = a * n + a
      BY <3>1
    <3>6. \A a, b \in Int : a <= b => a * n <= b * n
      BY <3>1
    <3>7. f[x] * (n + 1) = f[x] * n + f[x]
      BY <3>1, <3>5
    <3>. HIDE DEF x, t, n
    <3>8. \E i \in s : f[i] * (n + 1) <= iter[s]
      <4>1. CASE t = {}
        BY <4>1, <3>1, <3>3, <3>4, <3>7
      <4>2. CASE t # {}
        <5>1. PICK i \in t : f[i] * n <= iter[t]
          BY <4>2, <3>2 DEF n
        <5>2. i \in s /\ f[i] \in Int /\ f[i] * (n + 1) = f[i] * n + f[i]
          BY <3>1, <3>5 DEF t
        <5>3. CASE f[x] <= f[i]
          <6>1. f[x] * n <= f[i] * n
            BY <5>2, <5>3, <3>1, <3>6
          <6>. QED
            BY <6>1, <5>1, <5>2, <3>1, <3>2, <3>3, <3>7
        <5>4. CASE f[i] <= f[x]
          BY <5>4, <5>1, <5>2, <3>1, <3>2, <3>3
        <5>. QED
          BY <5>2, <5>3, <5>4, <3>1
      <4>. QED
        BY <4>1, <4>2
    <3>9. \E i \in s : iter[s] <= f[i] * (n + 1)
      <4>1. CASE t = {}
        BY <4>1, <3>1, <3>3, <3>4, <3>7
      <4>2. CASE t # {}
        <5>1. PICK i \in t : iter[t] <= f[i] * n
          BY <4>2, <3>2 DEF n
        <5>2. i \in s /\ f[i] \in Int /\ f[i] * (n + 1) = f[i] * n + f[i]
          BY <3>1, <3>5 DEF t
        <5>3. CASE f[i] <= f[x]
          <6>1. f[i] * n <= f[x] * n
            BY <5>2, <5>3, <3>1, <3>6
          <6>. QED
            BY <6>1, <5>1, <5>2, <3>1, <3>2, <3>3, <3>7
        <5>4. CASE f[x] <= f[i]
          BY <5>4, <5>1, <5>2, <3>1, <3>2, <3>3
        <5>. QED
          BY <5>2, <5>3, <5>4, <3>1
      <4>. QED
        BY <4>1, <4>2
    <3>. QED
      BY <3>1, <3>2, <3>3, <3>8, <3>9
  <2>. QED
    BY <2>1, <2>2
<1>2. Fails = {}
  <2>. SUFFICES ASSUME Fails # {} PROVE FALSE
    OBVIOUS
  <2>. PICK n \in Fails : \A m \in Fails : n <= m
    BY LeastNat
  <2>. PICK s \in SUBSET S : Cardinality(s) = n /\ ~ Between(s)
    OBVIOUS
  <2>1. ASSUME NEW t \in SUBSET S, Cardinality(t) < Cardinality(s) PROVE Between(t)
    <3>1. Cardinality(t) \in Nat
      <4>1. IsFiniteSet(t)
        BY FS_Subset
      <4>. QED
        BY <4>1, FS_CardinalityType
    <3>. QED
      BY <2>1, <3>1
  <2>. QED
    BY <2>1, <1>1
<1>3. Cardinality(S) \in Nat /\ S \in SUBSET S
  BY FS_CardinalityType
<1>. HIDE DEF Between
<1>4. Between(S)
  BY <1>2, <1>3
<1>. QED
  BY <1>4 DEF Between

\* A sum is a number between its least and its greatest term, as often as there
\* are terms.
LEMMA SumBetween ==
  ASSUME NEW f, IsFiniteSet(DOMAIN f), \A x \in DOMAIN f : f[x] \in Int
  PROVE  /\ SumOf(f) \in Int
         /\ DOMAIN f # {}
              => /\ \E i \in DOMAIN f : f[i] * Cardinality(DOMAIN f) <= SumOf(f)
                 /\ \E i \in DOMAIN f : SumOf(f) <= f[i] * Cardinality(DOMAIN f)
<1> DEFINE S == DOMAIN f
           Fold(g) == [s \in SUBSET S |-> IF s = {} THEN 0
                                          ELSE LET x == CHOOSE x \in s : TRUE
                                               IN  f[x] + g[s \ {x}]]
           iter == CHOOSE g : g = Fold(g)
<1>1. SumOf(f) = iter[S]
  BY DEF SumOf, Fun!SumFunction, Fun!SumFunctionOnSet, Fun!FoldFunctionOnSet,
         Fun!MapThenFoldSet
<1>2. ASSUME NEW g
      PROVE  AddsUp(g, f, S) <=> g = Fold(g)
  BY DEF AddsUp, FoldStep, Taken
<1>3. AddsUp(iter, f, S)
  <2>. HIDE DEF S
  <2>1. \E g : AddsUp(g, f, S)
    BY FoldExists DEF S
  <2>. HIDE DEF Fold
  <2>2. \E g : g = Fold(g)
    BY <2>1, <1>2
  <2>. QED
    BY <2>2, <1>2
<1>4. /\ iter[S] \in Int
      /\ S # {} => /\ \E i \in S : f[i] * Cardinality(S) <= iter[S]
                   /\ \E i \in S : iter[S] <= f[i] * Cardinality(S)
  <2>1. IsFiniteSet(S) /\ \A x \in S : f[x] \in Int
    OBVIOUS
  <2>. HIDE DEF S, iter
  <2>. QED
    BY <2>1, <1>3, FoldBetween
<1>. QED
  BY <1>1, <1>4

\* A finite set of numbers that is not empty has a least and a greatest one.
LEMMA LeastAndGreatest ==
  ASSUME NEW S \in SUBSET Int, IsFiniteSet(S), S # {}
  PROVE  /\ \E x \in S : \A y \in S : x <= y
         /\ \E x \in S : \A y \in S : y <= x
<1> DEFINE Bounded(T) == T # {} => /\ \E x \in T : \A y \in T : x <= y
                                  /\ \E x \in T : \A y \in T : y <= x
           Fails == {n \in Nat : \E T \in SUBSET S : Cardinality(T) = n /\ ~ Bounded(T)}
<1>1. ASSUME NEW T \in SUBSET S, T # {}, Bounded(T \ {Taken(T)})
      PROVE  Bounded(T)
  <2> DEFINE z == Taken(T)
             R == T \ {z}
  <2>1. z \in T /\ z \in Int /\ T \subseteq Int /\ R \subseteq Int
    BY <1>1 DEF Taken
  <2>2. \A y \in T : y = z \/ y \in R
    OBVIOUS
  <2>3. CASE R = {}
    BY <2>1, <2>2, <2>3
  <2>4. CASE R # {}
    <3>1. PICK lo \in R : \A y \in R : lo <= y
      BY <1>1, <2>4
    <3>2. PICK hi \in R : \A y \in R : y <= hi
      BY <1>1, <2>4
    <3>3. lo \in Int /\ hi \in Int /\ lo \in T /\ hi \in T
      BY <2>1
    <3>. HIDE DEF z, R
    <3>4. \E x \in T : \A y \in T : x <= y
      <4>1. CASE lo <= z
        BY <3>1, <3>3, <2>1, <2>2, <4>1
      <4>2. CASE z <= lo
        BY <3>1, <3>3, <2>1, <2>2, <4>2
      <4>. QED
        BY <4>1, <4>2, <3>3, <2>1
    <3>5. \E x \in T : \A y \in T : y <= x
      <4>1. CASE z <= hi
        BY <3>2, <3>3, <2>1, <2>2, <4>1
      <4>2. CASE hi <= z
        BY <3>2, <3>3, <2>1, <2>2, <4>2
      <4>. QED
        BY <4>1, <4>2, <3>3, <2>1
    <3>. QED
      BY <3>4, <3>5
  <2>. QED
    BY <2>3, <2>4
<1>2. Fails = {}
  <2>. SUFFICES ASSUME Fails # {} PROVE FALSE
    OBVIOUS
  <2>. PICK n \in Fails : \A m \in Fails : n <= m
    BY LeastNat
  <2>. PICK T \in SUBSET S : Cardinality(T) = n /\ ~ Bounded(T)
    OBVIOUS
  <2>1. T # {}
    OBVIOUS
  <2> DEFINE R == T \ {Taken(T)}
  <2>2. R \in SUBSET S /\ Cardinality(R) = n - 1 /\ Cardinality(R) \in Nat
    BY <2>1, TakenLeaves
  <2>. HIDE DEF Bounded
  <2>3. Bounded(R)
    <3>. HIDE DEF R
    <3>. QED
      BY <2>2
  <2>. QED
    BY <2>1, <2>3, <1>1
<1>3. S \in SUBSET S /\ Cardinality(S) \in Nat
  BY FS_CardinalityType
<1>. HIDE DEF Bounded
<1>4. Bounded(S)
  BY <1>2, <1>3
<1>. QED
  BY <1>4 DEF Bounded

\* A finite set has a finite image.
LEMMA ImageFinite ==
  ASSUME NEW S, IsFiniteSet(S), NEW T, NEW f \in [S -> T],
         \A t \in T : \E x \in S : f[x] = t
  PROVE  IsFiniteSet(T)
<1>1. f \in Surjection(S, T)
  BY DEF Surjection
<1>. QED
  BY <1>1, FS_Surjection

=============================================================================
