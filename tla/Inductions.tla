---------------------------- MODULE Inductions ----------------------------
(***************************************************************************)
(* Induction and recursion, stated with sets and functions in the place of *)
(* predicates and operators, so that any prover can instantiate them: what *)
(* the proofs about recursive functions and folds rest on.                 *)
(***************************************************************************)
EXTENDS FiniteSetTheorems, TLAPS

\* Among subsets of a finite set there is one that includes no other of them.
LEMMA SmallestMember ==
    ASSUME NEW S, IsFiniteSet(S), NEW Q \in SUBSET SUBSET S, Q # {}
    PROVE  \E T \in Q : \A U \in Q : U \subseteq T => U = T
<1> DEFINE R == StrictSubsetOrdering(S)
<1>1. IsWellFoundedOn(R, FiniteSubsetsOf(S))
  BY FS_StrictSubsetOrderingWellFounded
<1>2. Q \subseteq FiniteSubsetsOf(S)
  BY FS_FiniteSubsetsOfFinite
<1>3. PICK T \in Q : \A U \in Q : <<U, T>> \notin R
  <2> HIDE DEF R
  <2> QED
    BY <1>1, <1>2, WFMin
<1>4. ASSUME NEW U \in Q, U \subseteq T  PROVE  U = T
  <2> SUFFICES ASSUME U # T  PROVE  FALSE
    OBVIOUS
  <2> DEFINE p == <<U, T>>
  <2>1. p \in (SUBSET S) \X (SUBSET S) /\ p[1] = U /\ p[2] = T
    OBVIOUS
  <2>2. p \in R
    <3> HIDE DEF p
    <3> QED
      BY <1>4, <2>1 DEF StrictSubsetOrdering
  <2> HIDE DEF R
  <2> QED
    BY <1>3, <2>2
<1> QED
  BY <1>4

\* Induction on finite sets: all subsets of S are in C when each is that all of
\* whose subsets with one member less are.
LEMMA SubsetInduction ==
    ASSUME NEW S, IsFiniteSet(S), NEW C,
           \A T \in SUBSET S : (\A x \in T : T \ {x} \in C) => T \in C
    PROVE  \A T \in SUBSET S : T \in C
<1> DEFINE Bad == {T \in SUBSET S : T \notin C}
<1>1. SUFFICES ASSUME Bad # {} PROVE FALSE
  OBVIOUS
<1>2. PICK T \in Bad : \A U \in Bad : U \subseteq T => U = T
  <2>1. Bad \in SUBSET SUBSET S
    OBVIOUS
  <2> HIDE DEF Bad
  <2> QED
    BY <1>1, <2>1, SmallestMember
<1>3. PICK x \in T : T \ {x} \notin C
  OBVIOUS
<1>4. T \ {x} \in Bad
  BY <1>3
<1> QED
  BY <1>2, <1>4

\* Induction on natural numbers, for a set of them.
LEMMA NatSetInduction ==
    ASSUME NEW C, 0 \in C, \A n \in Nat : n \in C => n + 1 \in C
    PROVE  Nat \subseteq C
<1> DEFINE Bad == {n \in Nat : n \notin C}
           R == OpToRel(<, Nat)
<1>1. SUFFICES ASSUME Bad # {} PROVE FALSE
  OBVIOUS
<1>2. IsWellFoundedOn(R, Nat)
  BY NatLessThanWellFounded
<1>3. PICK n \in Bad : \A m \in Bad : <<m, n>> \notin R
  <2> Bad \subseteq Nat
    OBVIOUS
  <2> HIDE DEF Bad, R
  <2> QED
    BY <1>1, <1>2, WFMin
<1>4. n # 0 /\ n - 1 \in Nat /\ n - 1 \in Bad
  BY SMT
<1>5. <<n - 1, n>> \in R
  BY <1>4 DEF OpToRel
<1> QED
  BY <1>3, <1>4, <1>5

-----------------------------------------------------------------------------

\* A recursion from n to n + 1 has a solution.
LEMMA NatRecursion ==
    ASSUME NEW D, NEW a \in D, NEW F \in [D -> D]
    PROVE  \E g \in [Nat -> D] : g[0] = a /\ \A n \in Nat : g[n + 1] = F[g[n]]
<1> DEFINE Upto(n, h) == h[0] = a /\ \A i \in 0 .. n - 1 : h[i + 1] = F[h[i]]
           Some(n) == \E h \in [0 .. n -> D] : Upto(n, h)
           Same(n) == \A g, h : \A m \in Nat :
                          n <= m /\ Upto(n, g) /\ Upto(m, h) => g[n] = h[n]
<1>1. \A n \in Nat : Some(n)
  <2> DEFINE C == {n \in Nat : Some(n)}
  <2>1. 0 \in C
    <3>1. Upto(0, [i \in 0 .. 0 |-> a])
      OBVIOUS
    <3>2. [i \in 0 .. 0 |-> a] \in [0 .. 0 -> D]
      OBVIOUS
    <3> QED
      BY <3>1, <3>2
  <2>2. ASSUME NEW n \in Nat, n \in C  PROVE  n + 1 \in C
    <3>1. PICK h \in [0 .. n -> D] : Upto(n, h)
      BY <2>2
    <3> DEFINE k == [i \in 0 .. n + 1 |-> IF i = n + 1 THEN F[h[n]] ELSE h[i]]
    <3>2. k \in [0 .. n + 1 -> D]
      OBVIOUS
    <3>3. Upto(n + 1, k)
      <4>1. k[0] = a
        BY <3>1
      <4>2. ASSUME NEW i \in 0 .. (n + 1) - 1  PROVE  k[i + 1] = F[k[i]]
        <5>1. CASE i = n
          BY <5>1
        <5>2. CASE i < n
          <6>1. /\ i \in 0 .. n - 1 /\ i + 1 \in 0 .. n + 1 /\ i \in 0 .. n + 1
                /\ i # n + 1 /\ i + 1 # n + 1
            BY <5>2
          <6> QED
            BY <6>1, <3>1
        <5> QED
          BY <5>1, <5>2
      <4> QED
        BY <4>1, <4>2
    <3> QED
      BY <3>2, <3>3
  <2>3. Nat \subseteq C
    <3> HIDE DEF C
    <3> QED
      BY <2>1, <2>2, NatSetInduction
  <2> QED
    BY <2>3
<1>2. \A n \in Nat : Same(n)
  <2> DEFINE C == {n \in Nat : Same(n)}
  <2>1. 0 \in C
    OBVIOUS
  <2>2. ASSUME NEW n \in Nat, n \in C  PROVE  n + 1 \in C
    <3> SUFFICES ASSUME NEW g, NEW h, NEW m \in Nat, n + 1 <= m,
                        Upto(n + 1, g), Upto(m, h)
                 PROVE  g[n + 1] = h[n + 1]
      OBVIOUS
    <3>1. Upto(n, g) /\ n <= m /\ n \in 0 .. m - 1 /\ n \in 0 .. (n + 1) - 1
      OBVIOUS
    <3>2. g[n] = h[n]
      BY <2>2, <3>1
    <3> QED
      BY <3>1, <3>2
  <2>3. Nat \subseteq C
    <3> HIDE DEF C
    <3> QED
      BY <2>1, <2>2, NatSetInduction
  <2> QED
    BY <2>3
<1> DEFINE At(n) == CHOOSE h \in [0 .. n -> D] : Upto(n, h)
           g == [n \in Nat |-> At(n)[n]]
<1>3. \A n \in Nat : At(n) \in [0 .. n -> D] /\ Upto(n, At(n))
  <2> HIDE DEF Upto
  <2> QED
    BY <1>1
<1>4. g \in [Nat -> D]
  <2> HIDE DEF At, Upto
  <2> QED
    BY <1>3
<1>5. g[0] = a
  BY <1>3
<1>6. ASSUME NEW n \in Nat  PROVE  g[n + 1] = F[g[n]]
  <2>1. n + 1 \in Nat /\ n <= n + 1
    OBVIOUS
  <2>0. Upto(n, At(n)) /\ Upto(n + 1, At(n + 1))
    BY <2>1, <1>3
  <2>2. At(n)[n] = At(n + 1)[n]
    <3> HIDE DEF At, Upto
    <3> QED
      BY <2>0, <2>1, <1>2
  <2>3. At(n + 1)[n + 1] = F[At(n + 1)[n]]
    <3> HIDE DEF At
    <3> QED
      BY <2>0
  <2> HIDE DEF At
  <2> QED
    BY <2>2, <2>3
<1> QED
  BY <1>4, <1>5, <1>6

\* pick takes a member out of every subset of S that has one.
Picks(pick, S) == \A T \in SUBSET S : T # {} => pick[T] \in T

\* g[T] is the fold of F over T, members taken in the order of pick.
FoldOf(g, S, base, pick, F) ==
    \A T \in SUBSET S :
        g[T] = IF T = {} THEN base ELSE F[pick[T]][g[T \ {pick[T]}]]

\* A finite set can be folded over.
LEMMA SubsetRecursion ==
    ASSUME NEW S, IsFiniteSet(S), NEW D, NEW base \in D,
           NEW pick, Picks(pick, S), NEW F \in [S -> [D -> D]]
    PROVE  \E g \in [SUBSET S -> D] : FoldOf(g, S, base, pick, F)
<1> USE DEF Picks
<1> DEFINE Eq(g, T) == g[T] = IF T = {} THEN base ELSE F[pick[T]][g[T \ {pick[T]}]]
           Good(T, g) == g \in [SUBSET T -> D] /\ \A U \in SUBSET T : Eq(g, U)
           Same(T) == \A V, W \in SUBSET S : \A g, h :
                          T \subseteq V /\ T \subseteq W /\ Good(V, g) /\ Good(W, h)
                          => g[T] = h[T]
           Some(T) == \E g : Good(T, g)
<1>1. \A T \in SUBSET S : Same(T)
  <2> DEFINE C == {T \in SUBSET S : Same(T)}
  <2>1. ASSUME NEW T \in SUBSET S, \A x \in T : T \ {x} \in C  PROVE  T \in C
    <3> SUFFICES ASSUME NEW V \in SUBSET S, NEW W \in SUBSET S, NEW g, NEW h,
                        T \subseteq V, T \subseteq W, Good(V, g), Good(W, h)
                 PROVE  g[T] = h[T]
      <4> HIDE DEF Good
      <4> QED
        OBVIOUS
    <3>1. Eq(g, T) /\ Eq(h, T)
      OBVIOUS
    <3>2. CASE T = {}
      BY <3>1, <3>2
    <3>3. CASE T # {}
      <4>1. pick[T] \in T
        BY <3>3
      <4>2. Same(T \ {pick[T]})
        BY <4>1, <2>1
      <4>3. g[T \ {pick[T]}] = h[T \ {pick[T]}]
        <5> HIDE DEF Good
        <5> QED
          BY <4>2
      <4> QED
        BY <3>1, <3>3, <4>3
    <3> QED
      BY <3>2, <3>3
  <2>2. \A T \in SUBSET S : T \in C
    <3> HIDE DEF C
    <3> QED
      BY <2>1, SubsetInduction
  <2> QED
    BY <2>2
<1>2. ASSUME NEW T \in SUBSET S, NEW U \in SUBSET T, NEW g, Good(T, g)
      PROVE  Good(U, [V \in SUBSET U |-> g[V]])
  <2> DEFINE h == [V \in SUBSET U |-> g[V]]
  <2>1. h \in [SUBSET U -> D]
    BY <1>2
  <2>2. ASSUME NEW V \in SUBSET U  PROVE  Eq(h, V)
    <3>1. Eq(g, V)
      BY <1>2
    <3>2. h[V] = g[V] /\ h[V \ {pick[V]}] = g[V \ {pick[V]}]
      OBVIOUS
    <3> QED
      BY <3>1, <3>2
  <2> QED
    BY <2>1, <2>2
<1> DEFINE At(T) == CHOOSE g : Good(T, g)
           Val(T) == At(T)[T]
<1>3. \A T \in SUBSET S : Some(T) => Good(T, At(T))
  <2> HIDE DEF Good
  <2> QED
    OBVIOUS
<1>4. ASSUME NEW T \in SUBSET S, NEW U \in SUBSET T, Some(T)  PROVE  Some(U)
  <2>1. PICK g : Good(T, g)
    BY <1>4
  <2> HIDE DEF Good
  <2> QED
    BY <2>1, <1>2
<1>5. ASSUME NEW T \in SUBSET S, Some(T)
      PROVE  Val(T) \in D /\ Val(T) = IF T = {} THEN base
                                     ELSE F[pick[T]][Val(T \ {pick[T]})]
  <2>1. Good(T, At(T))
    BY <1>3, <1>5
  <2>2. CASE T = {}
    <3> HIDE DEF At
    <3> QED
      BY <2>1, <2>2
  <2>3. CASE T # {}
    <3> DEFINE U == T \ {pick[T]}
    <3>1. pick[T] \in T
      BY <2>3
    <3>2. U \in SUBSET T /\ Some(U)
      <4> U \in SUBSET T
        OBVIOUS
      <4> HIDE DEF Some, U
      <4> QED
        BY <1>4, <1>5
    <3>3. Good(U, At(U)) /\ U \in SUBSET S
      <4> HIDE DEF At, U
      <4> QED
        BY <3>2, <1>3
    <3>4. At(T)[U] = At(U)[U]
      <4>1. Same(U)
        BY <1>1
      <4> HIDE DEF At, Good, U
      <4> QED
        BY <2>1, <3>3, <3>2, <4>1
    <3> HIDE DEF At
    <3>5. At(T)[T] = F[pick[T]][At(T)[U]] /\ At(T)[T] \in D
      BY <2>1, <2>3
    <3> QED
      BY <3>4, <3>5, <2>3
  <2> QED
    BY <2>2, <2>3
<1>6. \A T \in SUBSET S : Some(T)
  <2> DEFINE C == {T \in SUBSET S : Some(T)}
  <2>1. ASSUME NEW T \in SUBSET S, \A x \in T : T \ {x} \in C  PROVE  T \in C
    <3>1. \A U \in SUBSET T : U # T => Some(U)
      <4> SUFFICES ASSUME NEW U \in SUBSET T, U # T  PROVE  Some(U)
        OBVIOUS
      <4>1. PICK x \in T : x \notin U
        OBVIOUS
      <4>2. Some(T \ {x}) /\ U \in SUBSET (T \ {x}) /\ T \ {x} \in SUBSET S
        BY <4>1, <2>1
      <4> HIDE DEF Some
      <4> QED
        BY <4>2, <1>4
    <3> DEFINE last == IF T = {} THEN base ELSE F[pick[T]][Val(T \ {pick[T]})]
               g == [U \in SUBSET T |-> IF U = T THEN last ELSE Val(U)]
    <3> HIDE DEF Some
    <3>2. \A U \in SUBSET T : U # T => Val(U) \in D /\ 
              Val(U) = IF U = {} THEN base ELSE F[pick[U]][Val(U \ {pick[U]})]
      <4> HIDE DEF Val
      <4> QED
        BY <3>1, <1>5
    <3> HIDE DEF Val
    <3>3. last \in D
      <4>1. CASE T = {}
        BY <4>1
      <4>2. CASE T # {}
        <5>1. pick[T] \in T /\ pick[T] \in S
          BY <4>2
        <5>2. Val(T \ {pick[T]}) \in D
          BY <5>1, <3>2
        <5> QED
          BY <5>1, <5>2, <4>2
      <4> QED
        BY <4>1, <4>2
    <3>4. g \in [SUBSET T -> D]
      <4> HIDE DEF last
      <4> QED
        BY <3>2, <3>3
    <3>5. ASSUME NEW U \in SUBSET T  PROVE  Eq(g, U)
      <4>1. CASE U = {}
        <5>1. CASE T = {}
          BY <5>1, <4>1
        <5>2. CASE T # {}
          BY <5>2, <4>1, <3>2
        <5> QED
          BY <5>1, <5>2
      <4>2. CASE U # {}
        <5>1. pick[U] \in U /\ U \ {pick[U]} # T /\ U \ {pick[U]} \in SUBSET T
          BY <4>2
        <5>2. g[U \ {pick[U]}] = Val(U \ {pick[U]})
          <6> HIDE DEF last
          <6> QED
            BY <5>1
        <5>3. g[U] = F[pick[U]][Val(U \ {pick[U]})]
          <6>1. CASE U = T
            BY <6>1, <4>2
          <6>2. CASE U # T
            BY <6>2, <4>2, <3>2
          <6> QED
            BY <6>1, <6>2
        <5> HIDE DEF g
        <5> QED
          BY <5>2, <5>3, <4>2
      <4> QED
        BY <4>1, <4>2
    <3>6. Good(T, g)
      <4> HIDE DEF g
      <4> QED
        BY <3>4, <3>5
    <3>7. Some(T)
      <4> HIDE DEF Good, g
      <4> QED
        BY <3>6 DEF Some
    <3> QED
      BY <3>7
  <2>2. \A T \in SUBSET S : T \in C
    <3> HIDE DEF C
    <3> QED
      BY <2>1, SubsetInduction
  <2> QED
    BY <2>2
<1> DEFINE g == [T \in SUBSET S |-> Val(T)]
<1> HIDE DEF Val, Some
<1>7. g \in [SUBSET S -> D]
  BY <1>5, <1>6
<1>8. FoldOf(g, S, base, pick, F)
  BY <1>5, <1>6 DEF FoldOf
<1> QED
  BY <1>7, <1>8

-----------------------------------------------------------------------------

\* A set of natural numbers has a least one.
LEMMA LeastNatural ==
    ASSUME NEW S, S \subseteq Nat, S # {}
    PROVE  \E x \in S : \A y \in S : x <= y
<1> DEFINE R == OpToRel(<, Nat)
<1>1. PICK x \in S : \A y \in S : <<y, x>> \notin R
  <2> HIDE DEF R
  <2>1. IsWellFoundedOn(R, Nat)
    BY NatLessThanWellFounded DEF R
  <2> QED
    BY <2>1, WFMin
<1>2. \A y \in S : ~(y < x)
  BY <1>1 DEF OpToRel
<1> QED
  BY <1>2

\* A set of natural numbers that is finite has a greatest one.
LEMMA GreatestNatural ==
    ASSUME NEW S, S \subseteq Nat, IsFiniteSet(S), S # {}
    PROVE  \E x \in S : \A y \in S : y <= x
<1> DEFINE Top(T) == \E x \in T : \A y \in T : y <= x
           C == {T \in SUBSET S : T # {} => Top(T)}
<1>1. ASSUME NEW T \in SUBSET S, \A x \in T : T \ {x} \in C  PROVE  T \in C
  <2> SUFFICES ASSUME T # {}  PROVE  Top(T)
    OBVIOUS
  <2>1. PICK x \in T : TRUE
    OBVIOUS
  <2>2. CASE T = {x}
    <3>1. x \in Nat /\ x <= x
      OBVIOUS
    <3> QED
      BY <2>2, <3>1
  <2>3. CASE T # {x}
    <3>1. PICK z \in T \ {x} : \A y \in T \ {x} : y <= z
      BY <1>1, <2>1, <2>3
    <3>2. x \in Nat /\ z \in Nat /\ \A y \in T : y \in Nat
      OBVIOUS
    <3>3. CASE x <= z
      BY <3>1, <3>3
    <3>4. CASE z <= x
      <4>1. \A y \in T : y <= x
        BY <3>1, <3>2, <3>4
      <4> QED
        BY <4>1
    <3> QED
      BY <3>2, <3>3, <3>4
  <2> QED
    BY <2>2, <2>3
<1>2. \A T \in SUBSET S : T \in C
  <2> HIDE DEF C
  <2> QED
    BY <1>1, SubsetInduction
<1> QED
  BY <1>2

-----------------------------------------------------------------------------

\* What F says of a point only depends on points of a lower height.
Descends(F, X, D, height) ==
    /\ F \in [[X -> D] -> [X -> D]] /\ height \in [X -> Nat]
    /\ \A f, g \in [X -> D] : \A x \in X :
          (\A y \in X : height[y] < height[x] => f[y] = g[y]) => F[f][x] = F[g][x]

\* A recursion that descends has a solution.
LEMMA HeightRecursion ==
    ASSUME NEW X, NEW D, NEW d0 \in D, NEW height, NEW F,
           Descends(F, X, D, height)
    PROVE  \E f \in [X -> D] : F[f] = f
<1> DEFINE f0 == [x \in X |-> d0]
           E == [X -> D]
<1>1. PICK G \in [Nat -> [X -> D]] : G[0] = f0 /\ \A n \in Nat : G[n + 1] = F[G[n]]
  <2>1. f0 \in E /\ F \in [E -> E]
    BY DEF Descends
  <2>2. \E G \in [Nat -> E] : G[0] = f0 /\ \A n \in Nat : G[n + 1] = F[G[n]]
    <3> HIDE DEF f0, E
    <3> QED
      BY <2>1, NatRecursion
  <2> QED
    BY <2>2
<1> USE DEF Descends
<1> HIDE DEF f0
<1>2. ASSUME NEW n \in Nat  PROVE  G[n] \in [X -> D] /\ n + 1 \in Nat
  OBVIOUS
<1>3. \A n \in Nat : \A x \in X : height[x] < n => G[n + 1][x] = G[n][x]
  <2> DEFINE C == {n \in Nat : \A x \in X : height[x] < n => G[n + 1][x] = G[n][x]}
  <2>1. 0 \in C
    OBVIOUS
  <2>2. ASSUME NEW n \in Nat, n \in C  PROVE  n + 1 \in C
    <3>1. ASSUME NEW x \in X, height[x] < n + 1
          PROVE  G[(n + 1) + 1][x] = G[n + 1][x]
      <4>1. \A y \in X : height[y] < height[x] => G[n + 1][y] = G[n][y]
        BY <2>2, <3>1
      <4>2. F[G[n + 1]][x] = F[G[n]][x]
        BY <1>2, <4>1
      <4>3. G[(n + 1) + 1] = F[G[n + 1]] /\ G[n + 1] = F[G[n]]
        BY <1>1
      <4> QED
        BY <4>2, <4>3
    <3>2. n + 1 \in Nat
      OBVIOUS
    <3> QED
      BY <3>1, <3>2
  <2>3. Nat \subseteq C
    <3> HIDE DEF C
    <3> QED
      BY <2>1, <2>2, NatSetInduction
  <2> QED
    BY <2>3
<1>4. \A x \in X : \A n \in Nat : height[x] < n => G[n][x] = G[height[x] + 1][x]
  <2> SUFFICES ASSUME NEW x \in X
               PROVE  \A n \in Nat : height[x] < n => G[n][x] = G[height[x] + 1][x]
    OBVIOUS
  <2> DEFINE C == {n \in Nat : height[x] < n => G[n][x] = G[height[x] + 1][x]}
  <2>0. height[x] \in Nat
    OBVIOUS
  <2>1. 0 \in C
    BY <2>0
  <2>2. ASSUME NEW n \in Nat, n \in C  PROVE  n + 1 \in C
    <3>1. CASE height[x] < n
      BY <1>3, <2>2, <3>1
    <3>2. CASE height[x] >= n
      <4>1. height[x] < n + 1 => height[x] + 1 = n + 1
        BY <2>0, <3>2
      <4> QED
        BY <4>1
    <3> QED
      BY <2>0, <3>1, <3>2
  <2>3. Nat \subseteq C
    <3> HIDE DEF C
    <3> QED
      BY <2>1, <2>2, NatSetInduction
  <2> QED
    BY <2>3
<1> DEFINE f == [x \in X |-> G[height[x] + 1][x]]
<1>5. f \in [X -> D]
  OBVIOUS
<1>6. ASSUME NEW x \in X  PROVE  F[f][x] = f[x]
  <2>1. height[x] \in Nat /\ G[height[x]] \in [X -> D]
    OBVIOUS
  <2>2. \A y \in X : height[y] < height[x] => f[y] = G[height[x]][y]
    BY <1>4, <2>1
  <2>3. F[f][x] = F[G[height[x]]][x]
    <3> HIDE DEF f
    <3> QED
      BY <1>5, <2>1, <2>2
  <2>4. F[G[height[x]]] = G[height[x] + 1]
    BY <1>1, <2>1
  <2> QED
    BY <2>3, <2>4
<1>7. F[f] = f
  <2>1. F[f] \in [X -> D]
    <3> HIDE DEF f
    <3> QED
      BY <1>5
  <2> HIDE DEF f
  <2> QED
    BY <1>5, <1>6, <2>1
<1> QED
  BY <1>5, <1>7
=============================================================================
