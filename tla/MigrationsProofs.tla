-------------------------- MODULE MigrationsProofs --------------------------
(***************************************************************************)
(* Proofs about Migrations, for any releases, any migrations of the        *)
(* organizer and any bound on faults: the order the solver finds, the      *)
(* plans made of it, and what a start leaves behind.                       *)
(***************************************************************************)
EXTENDS Migrations, Inductions

\* Migrations are only applied, and the backup only unpacked, while the content
\* from before the first attempt is in an archive, or was in one that a start of
\* the same second truncated; what is unpacked is in an archive still there.
ArchivedBefore ==
    /\ OriginalIsKept
    /\ pc \in {"apply", "restore", "unpack"} =>
           /\ saved \in backups \cup {newest} /\ saved # None
           /\ original # None => original \in backups \cup {newest} \cup replaced

\* Unless a restore was prevented, a start that changes the database works from an
\* archive of the original, and at any other time the database is the original.
WorksFromOriginal ==
    ~unrestored /\ original # None =>
        IF pc \in {"apply", "restore", "unpack"}
        THEN saved = original
        ELSE db = original

-----------------------------------------------------------------------------

LEMMA InitArchived == Init => ArchivedBefore
  BY DEF Init, ArchivedBefore, OriginalIsKept

-----------------------------------------------------------------------------
(* Versions.                                                               *)

\* A finite set of numbers has a greatest one.
LEMMA Greatest ==
    ASSUME NEW S, S \subseteq Nat, IsFiniteSet(S), S # {}
    PROVE  Max(S) \in S /\ \A x \in S : x <= Max(S)
<1>1. PICK x \in S : \A y \in S : y <= x
  BY GreatestNatural
<1>2. \A y \in S : x >= y
  BY <1>1
<1>3. Max(S) \in S /\ \A y \in S : Max(S) >= y
  BY <1>2 DEF Max
<1> QED
  BY <1>3

\* The positions up to i are i and those before it.
LEMMA LastPosition ==
    /\ \A n \in Nat : \A T \in SUBSET (1 .. n) : T # {} => Max(T) \in T
    /\ \A i \in Nat \ {0} : Max(1 .. i) = i /\ (1 .. i) \ {i} = 1 .. i - 1
<1>1. ASSUME NEW n \in Nat, NEW T \in SUBSET (1 .. n)
      PROVE  IsFiniteSet(T) /\ T \subseteq Nat
  <2>1. IsFiniteSet(1 .. n)
    BY FS_Interval
  <2>2. IsFiniteSet(T)
    BY <2>1, FS_Subset, Zenon
  <2>3. T \subseteq Nat
    OBVIOUS
  <2> QED
    BY <2>2, <2>3
<1>2. ASSUME NEW n \in Nat, NEW T \in SUBSET (1 .. n), T # {}
      PROVE  Max(T) \in T /\ \A x \in T : x <= Max(T)
  BY <1>1, <1>2, Greatest
<1>3. ASSUME NEW i \in Nat \ {0}
      PROVE  Max(1 .. i) = i /\ (1 .. i) \ {i} = 1 .. i - 1
  <2>2. i \in 1 .. i /\ 1 .. i \in SUBSET (1 .. i) /\ 1 .. i # {} /\ i \in Nat
    OBVIOUS
  <2>1. Max(1 .. i) \in 1 .. i /\ \A x \in 1 .. i : x <= Max(1 .. i)
    BY <1>2, <2>2
  <2>3. Max(1 .. i) = i
    <3> DEFINE x == Max(1 .. i)
    <3>1. x \in 1 .. i /\ i <= x
      BY <2>1, <2>2
    <3> HIDE DEF x
    <3>2. x = i
      BY <3>1
    <3> QED
      BY <3>2 DEF x
  <2> QED
    BY <2>3
<1> QED
  BY <1>2, <1>3

\* Versions a database can be at.
Ats == [Modules -> Nat \cup {None}]

LEMMA UpgradedTyped ==
    ASSUME NEW at \in Ats, NEW m \in Migrations
    PROVE  /\ Upgraded(at, m) \in Ats
           /\ Upgraded(at, m)[m.mod] = m.ver
           /\ \A mod \in Modules : mod # m.mod => Upgraded(at, m)[mod] = at[mod]
  BY DEF Ats, Upgraded, Migrations

\* Reached, one migration after the other.
ReachSteps(g, at, path) ==
    g = [T \in SUBSET DOMAIN path |->
            IF T = {} THEN at ELSE Upgraded(g[T \ {Max(T)}], path[Max(T)])]

LEMMA ReachedInSteps ==
    ASSUME NEW at \in Ats, NEW path \in Seq(Migrations)
    PROVE  \E v \in [0 .. Len(path) -> Ats] :
               /\ v[0] = at
               /\ \A i \in 1 .. Len(path) : v[i] = Upgraded(v[i - 1], path[i])
               /\ v[Len(path)] = Reached(at, path)
<1> DEFINE I == DOMAIN path
           pick == [T \in SUBSET I |-> Max(T)]
           F == [i \in I |-> [a \in Ats |-> Upgraded(a, path[i])]]
           h == CHOOSE g : ReachSteps(g, at, path)
           v == [i \in 0 .. Len(path) |-> h[1 .. i]]
<1>1. I = 1 .. Len(path) /\ Len(path) \in Nat /\ IsFiniteSet(I)
  BY FS_Interval
<1>2. \A i \in I : \A a \in Ats : Upgraded(a, path[i]) \in Ats
  <2>1. \A i \in I : path[i] \in Migrations
    OBVIOUS
  <2> HIDE DEF I
  <2> QED
    BY <2>1, UpgradedTyped
<1>3. F \in [I -> [Ats -> Ats]]
  <2> HIDE DEF I
  <2> QED
    BY <1>2
<1>4. \A T \in SUBSET I : T # {} => Max(T) \in T
  BY <1>1, LastPosition
<1> HIDE DEF I
<1>5. \E g : ReachSteps(g, at, path)
  <2>1. Picks(pick, I)
    BY <1>4 DEF Picks
  <2>2. PICK g \in [SUBSET I -> Ats] : FoldOf(g, I, at, pick, F)
    <3> HIDE DEF F, pick
    <3> QED
      BY <1>1, <1>3, <2>1, SubsetRecursion
  <2>3. ASSUME NEW T \in SUBSET I
        PROVE  g[T] = IF T = {} THEN at ELSE Upgraded(g[T \ {Max(T)}], path[Max(T)])
    <3>1. CASE T = {}
      BY <2>2, <3>1 DEF FoldOf
    <3>2. CASE T # {}
      <4>1. Max(T) \in I /\ T \ {Max(T)} \in SUBSET I
        BY <1>4, <3>2
      <4>2. g[T \ {Max(T)}] \in Ats
        BY <4>1
      <4>3. g[T] = F[Max(T)][g[T \ {Max(T)}]]
        <5> HIDE DEF F
        <5> QED
          BY <2>2, <3>2 DEF FoldOf
      <4> QED
        BY <4>1, <4>2, <4>3, <3>2
    <3> QED
      BY <3>1, <3>2
  <2>4. ReachSteps(g, at, path)
    BY <2>3 DEF ReachSteps, I
  <2> QED
    BY <2>4
<1>6. ReachSteps(h, at, path)
  BY <1>5
<1>7. Reached(at, path) = h[I]
  BY DEF Reached, FoldLeft, MapThenFoldSet, ReachSteps, I
<1> HIDE DEF h
<1>8. v[0] = at
  <2>1. 1 .. 0 = {} /\ 1 .. 0 \in SUBSET I /\ 0 \in 0 .. Len(path)
    BY <1>1
  <2> QED
    BY <1>6, <2>1 DEF ReachSteps, I
<1>9. ASSUME NEW i \in 1 .. Len(path)  PROVE  v[i] = Upgraded(v[i - 1], path[i])
  <2>0. i \in Nat /\ i # 0 /\ i - 1 \in Nat /\ i <= Len(path) /\ Len(path) \in Nat
    BY <1>1
  <2>1. /\ 1 .. i \in SUBSET I /\ 1 .. i # {} /\ i \in Nat \ {0}
        /\ i \in 0 .. Len(path) /\ i - 1 \in 0 .. Len(path)
    <3>1. \A j \in 1 .. i : j \in 1 .. Len(path)
      BY <2>0
    <3>2. i \in 1 .. i
      BY <2>0
    <3>3. 1 .. i \in SUBSET I /\ 1 .. i # {}
      BY <1>1, <3>1, <3>2, Zenon
    <3>4. i \in 0 .. Len(path) /\ i - 1 \in 0 .. Len(path)
      BY <2>0
    <3> QED
      BY <2>0, <3>3, <3>4
  <2>2. Max(1 .. i) = i /\ (1 .. i) \ {i} = 1 .. i - 1
    BY <2>1, LastPosition
  <2>3. h[1 .. i] = Upgraded(h[(1 .. i) \ {Max(1 .. i)}], path[Max(1 .. i)])
    BY <1>6, <2>1 DEF ReachSteps, I
  <2> QED
    BY <2>1, <2>2, <2>3
<1>10. \A i \in 0 .. Len(path) : v[i] \in Ats
  <2> DEFINE C == {i \in Nat : i <= Len(path) => v[i] \in Ats}
  <2>1. 0 \in C
    BY <1>8
  <2>2. ASSUME NEW i \in Nat, i \in C  PROVE  i + 1 \in C
    <3> HIDE DEF v
    <3> SUFFICES ASSUME i + 1 <= Len(path)  PROVE  v[i + 1] \in Ats
      OBVIOUS
    <3>1. i + 1 \in 1 .. Len(path) /\ (i + 1) - 1 = i
      BY <1>1
    <3>2. v[i] \in Ats
      BY <2>2, <1>1
    <3>3. v[i + 1] = Upgraded(v[i], path[i + 1])
      BY <1>9, <3>1
    <3> QED
      BY <3>1, <3>2, <3>3, <1>1, <1>2
  <2>3. Nat \subseteq C
    <3> HIDE DEF C
    <3> QED
      BY <2>1, <2>2, NatSetInduction
  <2> HIDE DEF v
  <2> QED
    BY <2>3
<1>11. v[Len(path)] = Reached(at, path)
  BY <1>1, <1>7
<1>12. v \in [0 .. Len(path) -> Ats]
  <2>1. v = [i \in 0 .. Len(path) |-> v[i]]
    OBVIOUS
  <2> HIDE DEF v
  <2> QED
    BY <1>10, <2>1
<1> HIDE DEF v
<1> QED
  BY <1>8, <1>9, <1>11, <1>12
\* What the first i of a sequence are.
LEMMA FirstOf ==
    ASSUME NEW S, NEW s \in Seq(S)
    PROVE  /\ SubSeq(s, 1, Len(s)) = s
           /\ \A i \in 0 .. Len(s) :
                 /\ SubSeq(s, 1, i) \in Seq(S) /\ Len(SubSeq(s, 1, i)) = i
                 /\ \A j \in 1 .. i : SubSeq(s, 1, i)[j] = s[j]
                 /\ \A k \in 0 .. i : SubSeq(SubSeq(s, 1, i), 1, k) = SubSeq(s, 1, k)
           /\ SubSeq(s, 1, 0) = <<>>
<1>1. Len(s) \in Nat
  OBVIOUS
<1>2. ASSUME NEW i \in 0 .. Len(s)
      PROVE  /\ SubSeq(s, 1, i) \in Seq(S) /\ Len(SubSeq(s, 1, i)) = i
             /\ \A j \in 1 .. i : SubSeq(s, 1, i)[j] = s[j]
  OBVIOUS
<1>3. SubSeq(s, 1, Len(s)) = s
  OBVIOUS
<1>4. ASSUME NEW i \in 0 .. Len(s), NEW k \in 0 .. i
      PROVE  SubSeq(SubSeq(s, 1, i), 1, k) = SubSeq(s, 1, k)
  OBVIOUS
<1>5. SubSeq(s, 1, 0) = <<>>
  OBVIOUS
<1> QED
  BY <1>2, <1>3, <1>4, <1>5

\* The versions after each of the migrations of a path.
Stages(v, at, path) ==
    /\ v \in [0 .. Len(path) -> Ats] /\ v[0] = at
    /\ \A i \in 1 .. Len(path) : v[i] = Upgraded(v[i - 1], path[i])

LEMMA StagesReached ==
    ASSUME NEW at \in Ats, NEW path \in Seq(Migrations), NEW v, Stages(v, at, path),
           NEW n \in 0 .. Len(path)
    PROVE  v[n] = Reached(at, SubSeq(path, 1, n))
<1> DEFINE first == SubSeq(path, 1, n)
<1>1. /\ first \in Seq(Migrations) /\ Len(first) = n /\ n \in Nat
      /\ \A j \in 1 .. n : first[j] = path[j]
  BY FirstOf
<1> HIDE DEF first
<1>2. PICK w \in [0 .. n -> Ats] :
          /\ w[0] = at /\ w[n] = Reached(at, first)
          /\ \A i \in 1 .. n : w[i] = Upgraded(w[i - 1], first[i])
  BY <1>1, ReachedInSteps
<1> DEFINE C == {i \in Nat : i <= n => w[i] = v[i]}
<1>3. 0 \in C
  BY <1>2 DEF Stages
<1>4. ASSUME NEW i \in Nat, i \in C  PROVE  i + 1 \in C
  <2> SUFFICES ASSUME i + 1 <= n  PROVE  w[i + 1] = v[i + 1]
    OBVIOUS
  <2>1. /\ i + 1 \in 1 .. n /\ (i + 1) - 1 = i /\ i <= n
        /\ i + 1 \in 1 .. Len(path)
    BY <1>1
  <2>2. w[i + 1] = Upgraded(w[i], path[i + 1])
    BY <1>1, <1>2, <2>1
  <2>3. v[i + 1] = Upgraded(v[i], path[i + 1])
    BY <2>1 DEF Stages
  <2>4. w[i] = v[i]
    BY <1>4, <2>1
  <2> QED
    BY <2>2, <2>3, <2>4
<1>5. Nat \subseteq C
  <2> HIDE DEF C
  <2> QED
    BY <1>3, <1>4, NatSetInduction
<1> QED
  BY <1>1, <1>2, <1>5 DEF first

\* Reached from the front.
LEMMA ReachedNext ==
    ASSUME NEW at \in Ats, NEW path \in Seq(Migrations)
    PROVE  /\ Reached(at, path) \in Ats /\ Reached(at, <<>>) = at
           /\ \A i \in 1 .. Len(path) :
                 Reached(at, SubSeq(path, 1, i)) =
                     Upgraded(Reached(at, SubSeq(path, 1, i - 1)), path[i])
<1>1. PICK v : Stages(v, at, path)
  BY ReachedInSteps DEF Stages
<1>2. \A i \in 0 .. Len(path) : v[i] = Reached(at, SubSeq(path, 1, i))
  BY <1>1, StagesReached
<1>3. /\ SubSeq(path, 1, Len(path)) = path /\ SubSeq(path, 1, 0) = <<>>
      /\ Len(path) \in Nat
  BY FirstOf
<1>4. Reached(at, path) \in Ats /\ Reached(at, <<>>) = at
  <2>1. 0 \in 0 .. Len(path) /\ Len(path) \in 0 .. Len(path)
    BY <1>3
  <2>2. v[0] = at /\ v[Len(path)] \in Ats
    BY <1>1, <2>1 DEF Stages
  <2> QED
    BY <1>2, <1>3, <2>1, <2>2
<1>5. ASSUME NEW i \in 1 .. Len(path)
      PROVE  Reached(at, SubSeq(path, 1, i)) =
                 Upgraded(Reached(at, SubSeq(path, 1, i - 1)), path[i])
  <2>1. i \in 0 .. Len(path) /\ i - 1 \in 0 .. Len(path)
    BY <1>3
  <2>2. v[i] = Upgraded(v[i - 1], path[i])
    BY <1>1 DEF Stages
  <2> QED
    BY <1>2, <2>1, <2>2
<1> QED
  BY <1>4, <1>5

\* Reached from the back.
LEMMA ReachedTail ==
    ASSUME NEW at \in Ats, NEW path \in Seq(Migrations), path # <<>>
    PROVE  \A i \in 0 .. Len(Tail(path)) :
               Reached(Upgraded(at, Head(path)), SubSeq(Tail(path), 1, i))
                   = Reached(at, SubSeq(path, 1, i + 1))
<1> DEFINE tail == Tail(path)
           n == Len(tail)
<1>1. /\ tail \in Seq(Migrations) /\ n \in Nat /\ Len(path) = n + 1
      /\ Head(path) = path[1] /\ path[1] \in Migrations
      /\ \A i \in 1 .. n : tail[i] = path[i + 1]
  OBVIOUS
<1>2. PICK v : Stages(v, at, path)
  BY ReachedInSteps DEF Stages
<1> DEFINE w == [i \in 0 .. n |-> v[i + 1]]
<1> HIDE DEF tail, n
<1>3. w[0] = Upgraded(at, Head(path))
  <2>1. 1 \in 1 .. Len(path) /\ 0 \in 0 .. n /\ 1 - 1 = 0 /\ 0 + 1 = 1
    BY <1>1
  <2>2. v[1] = Upgraded(v[0], path[1]) /\ v[0] = at
    BY <1>2, <2>1 DEF Stages
  <2> QED
    BY <1>1, <2>1, <2>2
<1>4. w \in [0 .. n -> Ats]
  <2>1. \A i \in 0 .. n : i + 1 \in 0 .. Len(path)
    BY <1>1
  <2>2. \A i \in 0 .. n : v[i + 1] \in Ats
    BY <1>2, <2>1 DEF Stages
  <2> QED
    BY <2>2
<1>5. ASSUME NEW i \in 1 .. n  PROVE  w[i] = Upgraded(w[i - 1], tail[i])
  <2>1. /\ i + 1 \in 1 .. Len(path) /\ i \in 0 .. n /\ i - 1 \in 0 .. n
        /\ (i + 1) - 1 = i /\ (i - 1) + 1 = i
    BY <1>1
  <2>2. v[i + 1] = Upgraded(v[i], path[i + 1])
    BY <1>2, <2>1 DEF Stages
  <2> QED
    BY <1>1, <2>1, <2>2
<1>6. Stages(w, Upgraded(at, Head(path)), tail)
  BY <1>3, <1>4, <1>5 DEF Stages, n
<1>7. ASSUME NEW i \in 0 .. n
      PROVE  Reached(Upgraded(at, Head(path)), SubSeq(tail, 1, i))
                 = Reached(at, SubSeq(path, 1, i + 1))
  <2>1. i + 1 \in 0 .. Len(path)
    BY <1>1
  <2>2. v[i + 1] = Reached(at, SubSeq(path, 1, i + 1))
    BY <1>2, <2>1, StagesReached
  <2>3. Upgraded(at, Head(path)) \in Ats
    BY <1>1, UpgradedTyped
  <2>4. w[i] = Reached(Upgraded(at, Head(path)), SubSeq(tail, 1, i))
    <3> HIDE DEF w
    <3> QED
      BY <1>1, <1>6, <2>3, StagesReached DEF n
  <2> QED
    BY <2>2, <2>4
<1> QED
  BY <1>7 DEF tail, n
-----------------------------------------------------------------------------
(* The search, for any graph of migrations.                                *)

\* What the search remembers: the best path so far, if any.
Bests(M) == Seq(M) \cup {None}

\* How many migrations are not on a path: what bounds the search.
Left(M, path) == Cardinality(M \ Range(path))

LEMMA LeftFalls ==
    ASSUME NEW M, IsFiniteSet(M), NEW path \in Seq(M)
    PROVE  /\ Left(M, path) \in Nat
           /\ \A m \in M \ Range(path) :
                 Append(path, m) \in Seq(M) /\ Left(M, Append(path, m)) < Left(M, path)
<1> DEFINE S == M \ Range(path)
<1>1. IsFiniteSet(S)
  BY FS_Difference
<1>2. Cardinality(S) \in Nat
  <2> HIDE DEF S
  <2> QED
    BY <1>1, FS_CardinalityType
<1>3. ASSUME NEW m \in S
      PROVE  Append(path, m) \in Seq(M) /\ Left(M, Append(path, m)) < Left(M, path)
  <2>1. Range(Append(path, m)) = Range(path) \cup {m}
    <3> DEFINE p == Append(path, m)
               n == Len(path)
    <3>1. /\ DOMAIN path = 1 .. n /\ DOMAIN p = 1 .. n + 1 /\ n \in Nat
          /\ p[n + 1] = m /\ \A i \in 1 .. n : p[i] = path[i]
      OBVIOUS
    <3> HIDE DEF p, n
    <3>2. \A i \in 1 .. n + 1 : i \in 1 .. n \/ i = n + 1
      BY <3>1
    <3>3. \A i \in 1 .. n : i \in 1 .. n + 1
      BY <3>1
    <3>4. n + 1 \in 1 .. n + 1
      BY <3>1
    <3>5. Range(p) = Range(path) \cup {m}
      BY <3>1, <3>2, <3>3, <3>4 DEF Range
    <3> QED
      BY <3>5 DEF p
  <2>2. M \ Range(Append(path, m)) = S \ {m}
    BY <2>1
  <2>3. Cardinality(S \ {m}) = Cardinality(S) - 1
    <3> HIDE DEF S
    <3> QED
      BY <1>1, FS_RemoveElement
  <2>4. Left(M, Append(path, m)) = Left(M, path) - 1
    BY <2>2, <2>3 DEF Left
  <2>5. Append(path, m) \in Seq(M)
    OBVIOUS
  <2>6. Left(M, path) \in Nat
    BY <1>2 DEF Left
  <2> QED
    BY <2>4, <2>5, <2>6
<1> QED
  BY <1>2, <1>3 DEF Left

\* Longer paths are searched, and what is found is a path or nothing.
Ahead(search, M, path) ==
    \A p \in Seq(M) : Left(M, p) < Left(M, path) => search[p] \in [Bests(M) -> Bests(M)]

\* What the search does with m, one of the migrations in its order.
Turn(at, search, path, b, m) ==
    IF Applicable(Reached(at, path), m, path) THEN search[Append(path, m)][b] ELSE b

\* The fold over the order of the search, as a function of positions.
TurnSteps(g, at, order, search, path, best) ==
    g = [T \in SUBSET DOMAIN order |->
            IF T = {} THEN best
            ELSE LET b == g[T \ {Max(T)}]
                     m == order[Max(T)] IN
                 IF Applicable(Reached(at, path), m, path)
                 THEN search[Append(path, m)][b] ELSE b]

\* The best paths after each of the turns.
Turns(b, M, at, order, search, path, best) ==
    /\ b \in [0 .. Len(order) -> Bests(M)] /\ b[0] = best
    /\ \A i \in 1 .. Len(order) : b[i] = Turn(at, search, path, b[i - 1], order[i])

LEMMA SearchInTurns ==
    ASSUME NEW M, IsFiniteSet(M), NEW at, NEW order \in Seq(M), NEW search,
           NEW path \in Seq(M), Ahead(search, M, path), NEW best \in Bests(M),
           ~AtTarget(Reached(at, path), M)
    PROVE  \E b : /\ Turns(b, M, at, order, search, path, best)
                  /\ b[Len(order)] = Search(at, M, order, search, path, best)
<1> DEFINE I == DOMAIN order
           B == Bests(M)
           pick == [T \in SUBSET I |-> Max(T)]
           F == [i \in I |-> [b \in B |-> Turn(at, search, path, b, order[i])]]
           h == CHOOSE g : TurnSteps(g, at, order, search, path, best)
           v == [i \in 0 .. Len(order) |-> h[1 .. i]]
<1>1. I = 1 .. Len(order) /\ Len(order) \in Nat /\ IsFiniteSet(I)
  BY FS_Interval
<1>2. \A i \in I : order[i] \in M
  OBVIOUS
<1> HIDE DEF I
<1>3. \A i \in I : \A b \in B : Turn(at, search, path, b, order[i]) \in B
  <2> SUFFICES ASSUME NEW i \in I, NEW b \in B
               PROVE  Turn(at, search, path, b, order[i]) \in B
    OBVIOUS
  <2> DEFINE m == order[i]
  <2>1. m \in M
    BY <1>2
  <2>2. CASE Applicable(Reached(at, path), m, path)
    <3>1. search[Append(path, m)] \in [B -> B]
      BY <2>1, <2>2, LeftFalls DEF Applicable, Ahead
    <3>2. search[Append(path, m)][b] \in B
      BY <3>1
    <3> QED
      BY <2>2, <3>2 DEF Turn
  <2>3. CASE ~Applicable(Reached(at, path), m, path)
    BY <2>3 DEF Turn
  <2> QED
    BY <2>2, <2>3
<1>4. F \in [I -> [B -> B]]
  <2> HIDE DEF B
  <2> QED
    BY <1>3
<1>5. \A T \in SUBSET I : T # {} => Max(T) \in T
  BY <1>1, LastPosition
<1>6. \E g : TurnSteps(g, at, order, search, path, best)
  <2>1. Picks(pick, I)
    BY <1>5 DEF Picks
  <2>2. PICK g \in [SUBSET I -> B] : FoldOf(g, I, best, pick, F)
    <3> best \in B
      OBVIOUS
    <3> HIDE DEF F, pick, B
    <3> QED
      BY <1>1, <1>4, <2>1, SubsetRecursion
  <2> HIDE DEF B
  <2>3. ASSUME NEW T \in SUBSET I
        PROVE  g[T] = IF T = {} THEN best
                      ELSE Turn(at, search, path, g[T \ {Max(T)}], order[Max(T)])
    <3>1. CASE T = {}
      BY <2>2, <3>1 DEF FoldOf
    <3>2. CASE T # {}
      <4>1. Max(T) \in I /\ T \ {Max(T)} \in SUBSET I
        BY <1>5, <3>2
      <4>2. g[T \ {Max(T)}] \in B
        BY <4>1
      <4>3. g[T] = F[Max(T)][g[T \ {Max(T)}]]
        <5> HIDE DEF F
        <5> QED
          BY <2>2, <3>2 DEF FoldOf
      <4> QED
        BY <4>1, <4>2, <4>3, <3>2
    <3> QED
      BY <3>1, <3>2
  <2>4. TurnSteps(g, at, order, search, path, best)
    BY <2>3 DEF TurnSteps, I, Turn
  <2> QED
    BY <2>4
<1>7. TurnSteps(h, at, order, search, path, best)
  BY <1>6
<1>8. Search(at, M, order, search, path, best) = h[I]
  BY DEF Search, FoldLeft, MapThenFoldSet, TurnSteps, I
<1> HIDE DEF h
<1>9. v[0] = best
  <2>1. 1 .. 0 = {} /\ 1 .. 0 \in SUBSET I /\ 0 \in 0 .. Len(order)
    BY <1>1
  <2> QED
    BY <1>7, <2>1 DEF TurnSteps, I
<1>10. ASSUME NEW i \in 1 .. Len(order)
       PROVE  v[i] = Turn(at, search, path, v[i - 1], order[i])
  <2>0. i \in Nat /\ i # 0 /\ i - 1 \in Nat /\ i <= Len(order) /\ Len(order) \in Nat
    BY <1>1
  <2>1. /\ 1 .. i \in SUBSET I /\ 1 .. i # {} /\ i \in Nat \ {0}
        /\ i \in 0 .. Len(order) /\ i - 1 \in 0 .. Len(order)
    <3>1. \A j \in 1 .. i : j \in 1 .. Len(order)
      BY <2>0
    <3>2. i \in 1 .. i
      BY <2>0
    <3>3. 1 .. i \in SUBSET I /\ 1 .. i # {}
      BY <1>1, <3>1, <3>2, Zenon
    <3>4. i \in 0 .. Len(order) /\ i - 1 \in 0 .. Len(order)
      BY <2>0
    <3> QED
      BY <2>0, <3>3, <3>4
  <2>2. Max(1 .. i) = i /\ (1 .. i) \ {i} = 1 .. i - 1
    BY <2>1, LastPosition
  <2>3. h[1 .. i] = Turn(at, search, path, h[(1 .. i) \ {Max(1 .. i)}],
                         order[Max(1 .. i)])
    BY <1>7, <2>1 DEF TurnSteps, I, Turn
  <2> QED
    BY <2>1, <2>2, <2>3
<1>11. \A i \in 0 .. Len(order) : v[i] \in B
  <2> DEFINE C == {i \in Nat : i <= Len(order) => v[i] \in B}
  <2>1. 0 \in C
    BY <1>9
  <2>2. ASSUME NEW i \in Nat, i \in C  PROVE  i + 1 \in C
    <3> HIDE DEF v, B
    <3> SUFFICES ASSUME i + 1 <= Len(order)  PROVE  v[i + 1] \in B
      OBVIOUS
    <3>1. i + 1 \in 1 .. Len(order) /\ (i + 1) - 1 = i
      BY <1>1
    <3>2. v[i] \in B
      BY <2>2, <1>1
    <3>3. v[i + 1] = Turn(at, search, path, v[i], order[i + 1])
      BY <1>10, <3>1
    <3> QED
      BY <3>1, <3>2, <3>3, <1>1, <1>3
  <2>3. Nat \subseteq C
    <3> HIDE DEF C
    <3> QED
      BY <2>1, <2>2, NatSetInduction
  <2> HIDE DEF v, B
  <2> QED
    BY <2>3
<1>12. v[Len(order)] = Search(at, M, order, search, path, best)
  BY <1>1, <1>8
<1>13. v \in [0 .. Len(order) -> B]
  <2>1. v = [i \in 0 .. Len(order) |-> v[i]]
    OBVIOUS
  <2> HIDE DEF v, B
  <2> QED
    BY <1>11, <2>1
<1>14. Turns(v, M, at, order, search, path, best)
  <2> HIDE DEF v
  <2> QED
    BY <1>9, <1>10, <1>13 DEF Turns
<1> HIDE DEF v
<1> QED
  BY <1>12, <1>14

\* The search gives a path or nothing.
LEMMA SearchTyped ==
    ASSUME NEW M, IsFiniteSet(M), NEW at, NEW order \in Seq(M), NEW search,
           NEW path \in Seq(M), Ahead(search, M, path), NEW best \in Bests(M)
    PROVE  Search(at, M, order, search, path, best) \in Bests(M)
<1>1. CASE AtTarget(Reached(at, path), M)
  <2>1. path \in Bests(M)
    BY DEF Bests
  <2> QED
    BY <1>1, <2>1 DEF Search
<1>2. CASE ~AtTarget(Reached(at, path), M)
  <2>1. PICK b : /\ Turns(b, M, at, order, search, path, best)
                 /\ b[Len(order)] = Search(at, M, order, search, path, best)
    BY <1>2, SearchInTurns
  <2>2. Len(order) \in 0 .. Len(order)
    OBVIOUS
  <2> QED
    BY <2>1, <2>2 DEF Turns
<1> QED
  BY <1>1, <1>2

\* The search only asks for what it finds from longer paths.
LEMMA SearchDescends ==
    ASSUME NEW M, IsFiniteSet(M), NEW at, NEW order \in Seq(M),
           NEW f \in [Seq(M) -> [Bests(M) -> Bests(M)]],
           NEW g \in [Seq(M) -> [Bests(M) -> Bests(M)]],
           NEW path \in Seq(M), NEW best \in Bests(M),
           \A p \in Seq(M) : Left(M, p) < Left(M, path) => f[p] = g[p]
    PROVE  Search(at, M, order, f, path, best) = Search(at, M, order, g, path, best)
<1>1. CASE AtTarget(Reached(at, path), M)
  BY <1>1 DEF Search
<1>2. CASE ~AtTarget(Reached(at, path), M)
  <2>0. Ahead(f, M, path) /\ Ahead(g, M, path)
    BY DEF Ahead
  <2>1. PICK b : /\ Turns(b, M, at, order, f, path, best)
                 /\ b[Len(order)] = Search(at, M, order, f, path, best)
    BY <1>2, <2>0, SearchInTurns
  <2>2. PICK c : /\ Turns(c, M, at, order, g, path, best)
                 /\ c[Len(order)] = Search(at, M, order, g, path, best)
    BY <1>2, <2>0, SearchInTurns
  <2>3. ASSUME NEW m \in M, NEW x  PROVE  Turn(at, f, path, x, m) = Turn(at, g, path, x, m)
    <3>1. CASE m \in Range(path)
      BY <3>1 DEF Turn, Applicable
    <3>2. CASE m \notin Range(path)
      <4>1. f[Append(path, m)] = g[Append(path, m)]
        BY <3>2, LeftFalls
      <4> QED
        BY <4>1 DEF Turn
    <3> QED
      BY <3>1, <3>2
  <2> DEFINE C == {i \in Nat : i <= Len(order) => b[i] = c[i]}
  <2>4. 0 \in C
    BY <2>1, <2>2 DEF Turns
  <2>5. ASSUME NEW i \in Nat, i \in C  PROVE  i + 1 \in C
    <3> SUFFICES ASSUME i + 1 <= Len(order)  PROVE  b[i + 1] = c[i + 1]
      OBVIOUS
    <3>1. /\ i + 1 \in 1 .. Len(order) /\ (i + 1) - 1 = i /\ i <= Len(order)
          /\ order[i + 1] \in M
      OBVIOUS
    <3>2. b[i + 1] = Turn(at, f, path, b[i], order[i + 1])
      BY <2>1, <3>1 DEF Turns
    <3>3. c[i + 1] = Turn(at, g, path, c[i], order[i + 1])
      BY <2>2, <3>1 DEF Turns
    <3>4. b[i] = c[i]
      BY <2>5, <3>1
    <3> QED
      BY <2>3, <3>1, <3>2, <3>3, <3>4
  <2>6. Nat \subseteq C
    <3> HIDE DEF C
    <3> QED
      BY <2>4, <2>5, NatSetInduction
  <2>7. b[Len(order)] = c[Len(order)]
    <3> Len(order) \in Nat
      OBVIOUS
    <3> QED
      BY <2>6
  <2> QED
    BY <2>1, <2>2, <2>7
<1> QED
  BY <1>1, <1>2

\* search is the recursive function of Solve.
SearchOf(search, at, M, order) ==
    search = [path \in Seq(M) |->
                 [best \in Seq(M) \cup {None} |->
                     Search(at, M, order, search, path, best)]]

\* The recursion of the search is defined: no path grows beyond all migrations.
LEMMA SearchExists ==
    ASSUME NEW M, IsFiniteSet(M), NEW at, NEW order \in Seq(M)
    PROVE  \E search \in [Seq(M) -> [Bests(M) -> Bests(M)]] :
               SearchOf(search, at, M, order)
<1> DEFINE X == Seq(M)
           B == Bests(M)
           D == [B -> B]
           height == [path \in X |-> Left(M, path)]
           F == [f \in [X -> D] |->
                    [path \in X |->
                        [best \in B |-> Search(at, M, order, f, path, best)]]]
           d0 == [best \in B |-> best]
<1>1. d0 \in D
  OBVIOUS
<1>2. height \in [X -> Nat]
  <2> HIDE DEF X
  <2> QED
    BY LeftFalls DEF X
<1>3. \A f \in [X -> D] : \A path \in X : \A best \in B :
          Search(at, M, order, f, path, best) \in B
  BY SearchTyped DEF Ahead
<1>4. F \in [[X -> D] -> [X -> D]]
  <2> HIDE DEF X, B
  <2> QED
    BY <1>3
<1>5. ASSUME NEW f \in [X -> D], NEW g \in [X -> D], NEW x \in X,
             \A y \in X : height[y] < height[x] => f[y] = g[y]
      PROVE  F[f][x] = F[g][x]
  <2>1. \A y \in Seq(M) : Left(M, y) < Left(M, x) => f[y] = g[y]
    BY <1>5
  <2>2. \A best \in B :
            Search(at, M, order, f, x, best) = Search(at, M, order, g, x, best)
    BY <2>1, SearchDescends
  <2> HIDE DEF X, B
  <2> QED
    BY <2>2
<1>6. Descends(F, X, D, height)
  <2> HIDE DEF F, X, D, height
  <2> QED
    BY <1>2, <1>4, <1>5 DEF Descends
<1>7. PICK f \in [X -> D] : F[f] = f
  <2> HIDE DEF F, X, D, height, d0
  <2> QED
    BY <1>1, <1>6, HeightRecursion
<1>8. SearchOf(f, at, M, order)
  <2> HIDE DEF X
  <2>1. f = [path \in X |-> [best \in B |-> Search(at, M, order, f, path, best)]]
    <3> HIDE DEF B
    <3> QED
      BY <1>7
  <2> QED
    BY <2>1 DEF SearchOf, Bests, X
<1> QED
  BY <1>8

\* And any function that satisfies it gives paths or nothing.
LEMMA SearchOfTyped ==
    ASSUME NEW M, IsFiniteSet(M), NEW at, NEW order \in Seq(M),
           NEW search, SearchOf(search, at, M, order)
    PROVE  search \in [Seq(M) -> [Bests(M) -> Bests(M)]]
<1> DEFINE B == Bests(M)
           C == {n \in Nat : \A path \in Seq(M) :
                     Left(M, path) < n => search[path] \in [B -> B]}
<1>1. \A path \in Seq(M) : Left(M, path) \in Nat
  BY LeftFalls
<1>2. 0 \in C
  BY <1>1
<1>3. ASSUME NEW n \in Nat, n \in C  PROVE  n + 1 \in C
  <2>1. ASSUME NEW path \in Seq(M), Left(M, path) < n + 1
        PROVE  search[path] \in [B -> B]
    <3>1. \A p \in Seq(M) : Left(M, p) < Left(M, path) => Left(M, p) < n
      BY <1>1, <2>1
    <3>2. Ahead(search, M, path)
      BY <1>3, <3>1 DEF Ahead
    <3>3. \A best \in B : Search(at, M, order, search, path, best) \in B
      BY <3>2, SearchTyped
    <3>4. search[path] = [best \in B |-> Search(at, M, order, search, path, best)]
      BY DEF SearchOf, Bests
    <3> HIDE DEF B
    <3> QED
      BY <3>3, <3>4
  <2> QED
    BY <2>1
<1>4. Nat \subseteq C
  <2> HIDE DEF C
  <2> QED
    BY <1>2, <1>3, NatSetInduction
<1>5. \A path \in Seq(M) : search[path] \in [B -> B]
  <2>1. \A path \in Seq(M) : Left(M, path) + 1 \in Nat /\ Left(M, path) < Left(M, path) + 1
    BY <1>1
  <2> QED
    BY <1>4, <2>1
<1>6. search = [path \in Seq(M) |-> search[path]]
  BY DEF SearchOf
<1> HIDE DEF B
<1> QED
  BY <1>5, <1>6 DEF B

\* A path whose migrations can be applied one after the other, each once.
OnWay(at, M, path) ==
    /\ path \in Seq(M) /\ IsInjective(path)
    /\ \A i \in 1 .. Len(path) :
          CanApply(Reached(at, SubSeq(path, 1, i - 1)), path[i])

\* A path the search may return.
Good(at, M, path) == OnWay(at, M, path) /\ AtTarget(Reached(at, path), M)

\* A path of length l, or a shorter one.
NoLonger(path, l) == path # None /\ Len(path) <= l

\* path is how order begins.
Begins(path, order) ==
    Len(path) <= Len(order) /\ path = SubSeq(order, 1, Len(path))

\* A path on the way, and one more migration that can be applied.
LEMMA OnWayNext ==
    ASSUME NEW at, NEW M, NEW path, OnWay(at, M, path),
           NEW m \in M, Applicable(Reached(at, path), m, path)
    PROVE  OnWay(at, M, Append(path, m))
<1> DEFINE p == Append(path, m)
           n == Len(path)
<1>1. /\ path \in Seq(M) /\ p \in Seq(M) /\ n \in Nat /\ Len(p) = n + 1
      /\ DOMAIN path = 1 .. n /\ DOMAIN p = 1 .. n + 1
      /\ p[n + 1] = m /\ \A i \in 1 .. n : p[i] = path[i]
  BY DEF OnWay
<1>2. \A i \in 0 .. n : SubSeq(p, 1, i) = SubSeq(path, 1, i)
  BY <1>1
<1>3. SubSeq(p, 1, n) = path
  BY <1>1
<1> HIDE DEF p, n
<1>4. \A i \in 1 .. n + 1 : i \in 1 .. n \/ i = n + 1
  BY <1>1
<1>5. IsInjective(p)
  <2>1. \A i \in 1 .. n : path[i] # m
    BY <1>1 DEF Applicable, Range
  <2>2. \A i, j \in 1 .. n : path[i] = path[j] => i = j
    BY <1>1 DEF OnWay, IsInjective
  <2>3. \A i, j \in 1 .. n + 1 : p[i] = p[j] => i = j
    BY <1>1, <1>4, <2>1, <2>2
  <2> QED
    BY <1>1, <2>3 DEF IsInjective
<1>6. ASSUME NEW i \in 1 .. n + 1
      PROVE  CanApply(Reached(at, SubSeq(p, 1, i - 1)), p[i])
  <2>1. CASE i = n + 1
    <3>1. i - 1 = n
      BY <1>1, <2>1
    <3> QED
      BY <1>1, <1>3, <2>1, <3>1 DEF Applicable
  <2>2. CASE i \in 1 .. n
    <3>1. i - 1 \in 0 .. n
      BY <1>1, <2>2
    <3> QED
      BY <1>1, <1>2, <2>2, <3>1 DEF OnWay, n
  <2> QED
    BY <1>4, <2>1, <2>2
<1>7. OnWay(at, M, p)
  BY <1>1, <1>5, <1>6 DEF OnWay
<1> QED
  BY <1>7 DEF p

\* What there is to be said of what the search finds from a path.
Finds(search, at, M, path) ==
    \A best \in Bests(M) :
        LET found == search[path][best] IN
        /\ \A l \in Nat : NoLonger(best, l) => NoLonger(found, l)
        /\ OnWay(at, M, path) /\ (best = None \/ Good(at, M, best))
               => found = None \/ Good(at, M, found)
        /\ \A order : Good(at, M, order) /\ Begins(path, order)
               => NoLonger(found, Len(order))

\* How a good order goes on from a path that is on the way but not at its end.
LEMMA GoesOn ==
    ASSUME NEW at, NEW M, NEW path \in Seq(M), ~AtTarget(Reached(at, path), M),
           NEW o, Good(at, M, o), Begins(path, o)
    PROVE  \E m \in M : /\ Applicable(Reached(at, path), m, path)
                        /\ Append(path, m) \in Seq(M)
                        /\ Begins(Append(path, m), o)
<1> DEFINE n == Len(path)
           m == o[n + 1]
<1>1. /\ o \in Seq(M) /\ n \in Nat /\ Len(o) \in Nat /\ n <= Len(o)
      /\ DOMAIN path = 1 .. n /\ DOMAIN o = 1 .. Len(o) /\ path = SubSeq(o, 1, n)
  BY DEF Good, OnWay, Begins
<1>2. n # Len(o)
  <2> SUFFICES ASSUME n = Len(o)  PROVE  FALSE
    OBVIOUS
  <2>1. SubSeq(o, 1, Len(o)) = o
    BY <1>1
  <2>2. path = o
    BY <1>1, <2>1
  <2> QED
    BY <2>2 DEF Good
<1>3. n + 1 \in 1 .. Len(o) /\ (n + 1) - 1 = n /\ m \in M
  <2>1. n + 1 \in 1 .. Len(o) /\ (n + 1) - 1 = n
    <3> DEFINE k == Len(o)
    <3>1. n \in Nat /\ k \in Nat /\ n <= k /\ n # k
      BY <1>1, <1>2
    <3> HIDE DEF n, k
    <3>2. n + 1 \in 1 .. k /\ (n + 1) - 1 = n
      BY <3>1
    <3> QED
      BY <3>2 DEF k
  <2>2. \A i \in 1 .. Len(o) : o[i] \in M
    BY <1>1
  <2> QED
    BY <2>1, <2>2
<1>4. \A i \in 1 .. n : i \in 1 .. Len(o) /\ path[i] = o[i] /\ i # n + 1
  BY <1>1, FirstOf
<1>5. CanApply(Reached(at, path), m)
  <2>1. CanApply(Reached(at, SubSeq(o, 1, (n + 1) - 1)), o[n + 1])
    BY <1>3 DEF Good, OnWay
  <2> QED
    BY <1>1, <1>3, <2>1
<1>6. m \notin Range(path)
  <2>1. \A i \in 1 .. n : o[i] # m
    <3> HIDE DEF n
    <3> QED
      BY <1>1, <1>3, <1>4 DEF Good, OnWay, IsInjective
  <2> QED
    BY <1>1, <1>4, <2>1 DEF Range
<1>7. Append(path, m) \in Seq(M) /\ Begins(Append(path, m), o)
  <2>1. Append(path, m) \in Seq(M) /\ Len(Append(path, m)) = n + 1
    BY <1>3
  <2>2. Append(path, m) = SubSeq(o, 1, n + 1)
    <3>1. Append(SubSeq(o, 1, n), o[n + 1]) = SubSeq(o, 1, n + 1)
      <4> HIDE DEF n
      <4> QED
        BY <1>1, <1>3
    <3> QED
      BY <1>1, <3>1
  <2> QED
    BY <1>1, <1>3, <2>1, <2>2 DEF Begins
<1> QED
  BY <1>3, <1>5, <1>6, <1>7 DEF Applicable
\* What is found from longer paths tells what is found from this one.
LEMMA FindsFrom ==
    ASSUME NEW M \in SUBSET Migrations, IsFiniteSet(M), NEW at,
           NEW order \in Seq(M), Range(order) = M,
           NEW search \in [Seq(M) -> [Bests(M) -> Bests(M)]],
           SearchOf(search, at, M, order), NEW path \in Seq(M),
           \A p \in Seq(M) : Left(M, p) < Left(M, path) => Finds(search, at, M, p)
    PROVE  Finds(search, at, M, path)
<1> SUFFICES ASSUME NEW best \in Bests(M)
             PROVE  LET found == search[path][best] IN
                    /\ \A l \in Nat : NoLonger(best, l) => NoLonger(found, l)
                    /\ OnWay(at, M, path) /\ (best = None \/ Good(at, M, best))
                           => found = None \/ Good(at, M, found)
                    /\ \A o : Good(at, M, o) /\ Begins(path, o)
                           => NoLonger(found, Len(o))
  BY DEF Finds
<1> DEFINE found == search[path][best]
<1>1. found = Search(at, M, order, search, path, best)
  BY DEF SearchOf, Bests
<1>2. \A p \in Seq(M) : p # None /\ Len(p) \in Nat
  <2>1. \A p \in Seq(M) : p \in Seq(Migrations)
    OBVIOUS
  <2> QED
    BY <2>1, ConstantsAssumption
<1>3. CASE AtTarget(Reached(at, path), M)
  <2>1. found = IF Improves(path, best) THEN path ELSE best
    BY <1>1, <1>3 DEF Search
  <2>2. path # None /\ Len(path) \in Nat /\ (best # None => Len(best) \in Nat)
    BY <1>2 DEF Bests
  <2> HIDE DEF found
  <2>3. ASSUME NEW l \in Nat, NoLonger(best, l)  PROVE  NoLonger(found, l)
    BY <2>1, <2>2, <2>3 DEF NoLonger, Improves
  <2>4. ASSUME OnWay(at, M, path), best = None \/ Good(at, M, best)
        PROVE  found = None \/ Good(at, M, found)
    BY <1>3, <2>1, <2>4 DEF Good
  <2>5. ASSUME NEW o, Good(at, M, o), Begins(path, o)  PROVE  NoLonger(found, Len(o))
    <3>1. Len(o) \in Nat /\ Len(path) <= Len(o)
      BY <1>2, <2>5 DEF Good, OnWay, Begins
    <3> QED
      BY <2>1, <2>2, <3>1 DEF NoLonger, Improves
  <2> QED
    BY <2>3, <2>4, <2>5 DEF found
<1>4. CASE ~AtTarget(Reached(at, path), M)
  <2>0. Ahead(search, M, path)
    BY DEF Ahead
  <2>1. PICK b : /\ Turns(b, M, at, order, search, path, best)
                 /\ b[Len(order)] = Search(at, M, order, search, path, best)
    BY <1>4, <2>0, SearchInTurns
  <2> DEFINE n == Len(order)
  <2>2. /\ n \in Nat /\ found = b[n]
        /\ b \in [0 .. n -> Bests(M)] /\ b[0] = best
        /\ \A i \in 1 .. n : order[i] \in M
        /\ \A m \in M : \E i \in 1 .. n : order[i] = m
    <3>1. \A m \in M : \E i \in 1 .. n : order[i] = m
      BY DEF Range
    <3> QED
      BY <1>1, <2>1, <3>1 DEF Turns
  <2>3. ASSUME NEW i \in Nat, i + 1 <= n
        PROVE  /\ i + 1 \in 1 .. n /\ order[i + 1] \in M /\ b[i] \in Bests(M)
               /\ b[i + 1] = Turn(at, search, path, b[i], order[i + 1])
    <3>1. i + 1 \in 1 .. n /\ i \in 0 .. n /\ (i + 1) - 1 = i
      BY <2>2, <2>3
    <3> QED
      BY <2>1, <2>2, <3>1 DEF Turns
  <2> HIDE DEF n, found
  <2>4. ASSUME NEW m \in M, m \notin Range(path)
        PROVE  Append(path, m) \in Seq(M) /\ Finds(search, at, M, Append(path, m))
    BY <2>4, LeftFalls
  <2>5. ASSUME NEW i \in Nat, i + 1 <= n, NEW l \in Nat, NoLonger(b[i], l)
        PROVE  NoLonger(b[i + 1], l)
    <3> DEFINE m == order[i + 1]
    <3>1. m \in M /\ b[i] \in Bests(M) /\ b[i + 1] = Turn(at, search, path, b[i], m)
      BY <2>3, <2>5
    <3> HIDE DEF m
    <3>2. CASE Applicable(Reached(at, path), m, path)
      <4>1. Finds(search, at, M, Append(path, m))
        BY <2>4, <3>1, <3>2 DEF Applicable
      <4>2. b[i + 1] = search[Append(path, m)][b[i]]
        BY <3>1, <3>2 DEF Turn
      <4> QED
        BY <2>5, <3>1, <4>1, <4>2 DEF Finds
    <3>3. CASE ~Applicable(Reached(at, path), m, path)
      BY <2>5, <3>1, <3>3 DEF Turn
    <3> QED
      BY <3>2, <3>3
  <2>6. ASSUME NEW j \in Nat, j <= n, NEW l \in Nat, NoLonger(b[j], l)
        PROVE  NoLonger(found, l)
    <3> DEFINE C == {k \in Nat : j + k <= n => NoLonger(b[j + k], l)}
    <3>1. 0 \in C
      BY <2>6
    <3>2. ASSUME NEW k \in Nat, k \in C  PROVE  k + 1 \in C
      <4> SUFFICES ASSUME j + (k + 1) <= n  PROVE  NoLonger(b[j + (k + 1)], l)
        OBVIOUS
      <4>1. j + k \in Nat /\ (j + k) + 1 <= n /\ j + k <= n /\ (j + k) + 1 = j + (k + 1)
        BY <2>2
      <4>2. NoLonger(b[j + k], l)
        BY <3>2, <4>1
      <4>3. NoLonger(b[(j + k) + 1], l)
        BY <2>5, <4>1, <4>2
      <4> QED
        BY <4>1, <4>3
    <3>3. Nat \subseteq C
      <4> HIDE DEF C
      <4> QED
        BY <3>1, <3>2, NatSetInduction
    <3>4. n - j \in Nat /\ j + (n - j) = n
      BY <2>2, <2>6
    <3>5. n <= n
      BY <2>2
    <3>6. NoLonger(b[j + (n - j)], l)
      BY <3>3, <3>4, <3>5
    <3> QED
      BY <2>2, <3>4, <3>6
  <2>7. ASSUME NEW l \in Nat, NoLonger(best, l)  PROVE  NoLonger(found, l)
    BY <2>2, <2>6, <2>7
  <2>8. ASSUME OnWay(at, M, path), best = None \/ Good(at, M, best)
        PROVE  found = None \/ Good(at, M, found)
    <3> DEFINE C == {i \in Nat : i <= n => b[i] = None \/ Good(at, M, b[i])}
    <3>1. 0 \in C
      BY <2>2, <2>8
    <3>2. ASSUME NEW i \in Nat, i \in C  PROVE  i + 1 \in C
      <4> SUFFICES ASSUME i + 1 <= n  PROVE  b[i + 1] = None \/ Good(at, M, b[i + 1])
        OBVIOUS
      <4> DEFINE m == order[i + 1]
      <4>1. /\ m \in M /\ b[i] \in Bests(M)
            /\ b[i + 1] = Turn(at, search, path, b[i], m)
        BY <2>3
      <4>2. b[i] = None \/ Good(at, M, b[i])
        <5>1. i <= n
          BY <2>2
        <5> QED
          BY <3>2, <5>1
      <4> HIDE DEF m
      <4>3. CASE Applicable(Reached(at, path), m, path)
        <5>1. Finds(search, at, M, Append(path, m))
          BY <2>4, <4>1, <4>3 DEF Applicable
        <5>2. OnWay(at, M, Append(path, m))
          BY <2>8, <4>1, <4>3, OnWayNext
        <5>3. b[i + 1] = search[Append(path, m)][b[i]]
          BY <4>1, <4>3 DEF Turn
        <5> QED
          BY <4>1, <4>2, <5>1, <5>2, <5>3 DEF Finds
      <4>4. CASE ~Applicable(Reached(at, path), m, path)
        BY <4>1, <4>2, <4>4 DEF Turn
      <4> QED
        BY <4>3, <4>4
    <3>3. Nat \subseteq C
      <4> HIDE DEF C
      <4> QED
        BY <3>1, <3>2, NatSetInduction
    <3> QED
      BY <2>2, <3>3
  <2>9. ASSUME NEW o, Good(at, M, o), Begins(path, o)  PROVE  NoLonger(found, Len(o))
    <3>1. PICK m \in M : /\ Applicable(Reached(at, path), m, path)
                         /\ Append(path, m) \in Seq(M)
                         /\ Begins(Append(path, m), o)
      BY <1>4, <2>9, GoesOn
    <3>2. PICK j \in 1 .. n : order[j] = m
      BY <2>2
    <3>3. j - 1 \in Nat /\ j \in Nat /\ (j - 1) + 1 = j /\ j <= n /\ Len(o) \in Nat
      BY <2>2, <2>9 DEF Good, OnWay
    <3>4. b[j - 1] \in Bests(M) /\ b[j] = Turn(at, search, path, b[j - 1], m)
      <4>1. /\ b[j - 1] \in Bests(M)
            /\ b[(j - 1) + 1] = Turn(at, search, path, b[j - 1], order[(j - 1) + 1])
        BY <2>3, <3>3
      <4> QED
        BY <3>2, <3>3, <4>1
    <3>5. b[j] = search[Append(path, m)][b[j - 1]]
      BY <3>1, <3>4 DEF Turn
    <3>6. Finds(search, at, M, Append(path, m))
      BY <2>4, <3>1 DEF Applicable
    <3>7. NoLonger(b[j], Len(o))
      BY <2>9, <3>1, <3>4, <3>5, <3>6 DEF Finds
    <3> QED
      BY <2>6, <3>3, <3>7
  <2> QED
    BY <2>7, <2>8, <2>9 DEF found
<1> QED
  BY <1>3, <1>4
\* The search finds an order when there is one, and a shortest, from any path.
LEMMA FindsAll ==
    ASSUME NEW M \in SUBSET Migrations, IsFiniteSet(M), NEW at,
           NEW order \in Seq(M), Range(order) = M,
           NEW search \in [Seq(M) -> [Bests(M) -> Bests(M)]],
           SearchOf(search, at, M, order)
    PROVE  \A path \in Seq(M) : Finds(search, at, M, path)
<1> DEFINE C == {n \in Nat : \A path \in Seq(M) :
                     Left(M, path) < n => Finds(search, at, M, path)}
<1>1. 0 \in C
  <2>1. \A path \in Seq(M) : ~(Left(M, path) < 0)
    BY LeftFalls
  <2> QED
    BY <2>1
<1>2. ASSUME NEW n \in Nat, n \in C  PROVE  n + 1 \in C
  <2>1. ASSUME NEW path \in Seq(M), Left(M, path) < n + 1
        PROVE  Finds(search, at, M, path)
    <3>1. \A p \in Seq(M) : Left(M, p) \in Nat
      BY LeftFalls
    <3>2. \A p \in Seq(M) : Left(M, p) < Left(M, path) => Left(M, p) < n
      BY <2>1, <3>1
    <3>3. \A p \in Seq(M) : Left(M, p) < Left(M, path) => Finds(search, at, M, p)
      BY <1>2, <3>2
    <3> QED
      BY <3>3, FindsFrom
  <2> QED
    BY <2>1
<1>3. Nat \subseteq C
  <2> HIDE DEF C
  <2> QED
    BY <1>1, <1>2, NatSetInduction
<1>4. ASSUME NEW path \in Seq(M)  PROVE  Finds(search, at, M, path)
  <2>1. Left(M, path) \in Nat /\ Left(M, path) + 1 \in Nat
        /\ Left(M, path) < Left(M, path) + 1
    BY LeftFalls
  <2> QED
    BY <1>3, <2>1
<1> QED
  BY <1>4

\* GoodOrders, told as what the search looks for.
LEMMA GoodOrdersAre ==
    ASSUME NEW M, IsFiniteSet(M), NEW at, NEW o
    PROVE  o \in GoodOrders(at, M) <=> Good(at, M, o)
<1>1. ASSUME o \in GoodOrders(at, M)  PROVE  Good(at, M, o)
  <2>1. PICK n \in 0 .. Cardinality(M) : o \in [1 .. n -> M] /\ IsInjective(o)
    BY <1>1 DEF GoodOrders, Orders
  <2>2. n \in Nat
    BY <2>1, FS_CardinalityType
  <2>3. o \in Seq(M) /\ Len(o) = n /\ DOMAIN o = 1 .. n
    BY <2>1, <2>2
  <2> QED
    BY <1>1, <2>1, <2>3 DEF GoodOrders, Good, OnWay
<1>2. ASSUME Good(at, M, o)  PROVE  o \in GoodOrders(at, M)
  <2> DEFINE n == Len(o)
  <2>1. n \in Nat /\ o \in [1 .. n -> M] /\ IsInjective(o) /\ DOMAIN o = 1 .. n
    BY <1>2 DEF Good, OnWay
  <2> HIDE DEF n
  <2>2. o \in Injection(1 .. n, M)
    BY <2>1 DEF Injection, IsInjective
  <2>3. Cardinality(1 .. n) <= Cardinality(M)
    BY <2>2, FS_Injection
  <2>4. Cardinality(1 .. n) = n
    BY <2>1, FS_Interval
  <2>5. Cardinality(M) \in Nat
    BY FS_CardinalityType
  <2>6. n \in 0 .. Cardinality(M)
    BY <2>1, <2>3, <2>4, <2>5
  <2>7. o \in Orders(M)
    BY <2>1, <2>6 DEF Orders
  <2> QED
    BY <1>2, <2>1, <2>7 DEF GoodOrders, Good, OnWay, n
<1> QED
  BY <1>1, <1>2

-----------------------------------------------------------------------------
(* The order the search tries migrations in.                               *)

\* The oldest of some migrations is one of them.
LEMMA OldestIsIn ==
    ASSUME NEW S \in SUBSET Migrations, S # {}
    PROVE  Oldest(S) \in S
<1> DEFINE Versioned(T) == {m.ver : m \in T}
<1>1. ASSUME NEW T \in SUBSET S, T # {}, NEW mod, \A m \in T : m.mod = mod
      PROVE  \E m \in T : \A n \in T : ~SortsBefore(n, m)
  <2>1. Versioned(T) \subseteq Nat /\ Versioned(T) # {}
    BY <1>1 DEF Migrations
  <2>2. PICK v \in Versioned(T) : \A w \in Versioned(T) : v <= w
    <3> HIDE DEF Versioned
    <3> QED
      BY <2>1, LeastNatural
  <2>3. PICK m \in T : m.ver = v
    BY <2>2
  <2>4. ASSUME NEW n \in T  PROVE  ~SortsBefore(n, m)
    <3>1. v <= n.ver /\ v \in Nat /\ n.ver \in Nat
      BY <2>1, <2>2
    <3>2. ~(n.ver < m.ver)
      BY <2>3, <3>1
    <3> QED
      BY <1>1, <3>2 DEF SortsBefore
  <2> QED
    BY <2>4
<1> DEFINE T == {m \in S : m.mod = "organizer"}
<1>2. \E m \in S : \A n \in S : ~SortsBefore(n, m)
  <2>1. CASE T = {}
    <3>1. \A m \in S : m.mod = "server"
      BY <2>1 DEF Migrations, Modules
    <3> HIDE DEF Versioned
    <3> QED
      BY <1>1, <3>1
  <2>2. CASE T # {}
    <3>1. PICK m \in T : \A n \in T : ~SortsBefore(n, m)
      <4>1. T \in SUBSET S /\ \A m \in T : m.mod = "organizer"
        OBVIOUS
      <4> HIDE DEF Versioned, T
      <4> QED
        BY <1>1, <2>2, <4>1
    <3>2. ASSUME NEW n \in S, n \notin T  PROVE  ~SortsBefore(n, m)
      BY <3>1, <3>2 DEF SortsBefore
    <3> QED
      BY <3>1, <3>2
  <2> QED
    BY <2>1, <2>2
<1> QED
  BY <1>2 DEF Oldest

\* The fold of OldestFirst, as a function of sets of migrations.
SortSteps(g, M) ==
    g = [S \in SUBSET M |->
            IF S = {} THEN <<>> ELSE <<Oldest(S)>> \o g[S \ {Oldest(S)}]]

\* Sorting keeps every migration, and adds none.
LEMMA OldestFirstSorts ==
    ASSUME NEW M \in SUBSET Migrations, IsFiniteSet(M)
    PROVE  OldestFirst(M) \in Seq(M) /\ Range(OldestFirst(M)) = M
<1> DEFINE D == Seq(M)
           pick == [S \in SUBSET M |-> Oldest(S)]
           F == [m \in M |-> [later \in D |-> <<m>> \o later]]
           h == CHOOSE g : SortSteps(g, M)
<1>1. \A S \in SUBSET M : S # {} => Oldest(S) \in S
  BY OldestIsIn
<1>2. \A m \in M : \A later \in D : <<m>> \o later \in D
  OBVIOUS
<1>3. F \in [M -> [D -> D]]
  <2> HIDE DEF D
  <2> QED
    BY <1>2
<1>4. \E g : SortSteps(g, M)
  <2>1. Picks(pick, M)
    BY <1>1 DEF Picks
  <2>2. PICK g \in [SUBSET M -> D] : FoldOf(g, M, <<>>, pick, F)
    <3> <<>> \in D
      OBVIOUS
    <3> HIDE DEF F, pick, D
    <3> QED
      BY <1>3, <2>1, SubsetRecursion
  <2> HIDE DEF D
  <2>3. ASSUME NEW S \in SUBSET M
        PROVE  g[S] = IF S = {} THEN <<>> ELSE <<Oldest(S)>> \o g[S \ {Oldest(S)}]
    <3>1. CASE S = {}
      BY <2>2, <3>1 DEF FoldOf
    <3>2. CASE S # {}
      <4>1. Oldest(S) \in M /\ S \ {Oldest(S)} \in SUBSET M
        BY <1>1, <3>2
      <4>2. g[S \ {Oldest(S)}] \in D
        BY <4>1
      <4>3. g[S] = F[Oldest(S)][g[S \ {Oldest(S)}]]
        <5> HIDE DEF F
        <5> QED
          BY <2>2, <3>2 DEF FoldOf
      <4> QED
        BY <4>1, <4>2, <4>3, <3>2
    <3> QED
      BY <3>1, <3>2
  <2>4. SortSteps(g, M)
    BY <2>3 DEF SortSteps
  <2> QED
    BY <2>4
<1>5. SortSteps(h, M)
  BY <1>4
<1>6. OldestFirst(M) = h[M]
  BY DEF OldestFirst, MapThenFoldSet, SortSteps
<1> HIDE DEF h
<1>7. h[M] \in Seq(M) /\ Range(h[M]) = M
  <2> DEFINE C == {S \in SUBSET M : h[S] \in Seq(M) /\ Range(h[S]) = S}
  <2>1. ASSUME NEW S \in SUBSET M, \A m \in S : S \ {m} \in C  PROVE  S \in C
    <3>1. CASE S = {}
      <4>1. h[S] = <<>>
        BY <1>5, <3>1 DEF SortSteps
      <4>2. <<>> \in Seq(M) /\ Range(<<>>) = {}
        BY DEF Range
      <4> QED
        BY <3>1, <4>1, <4>2
    <3>2. CASE S # {}
      <4> DEFINE m == Oldest(S)
                 later == h[S \ {m}]
                 s == <<m>> \o later
                 n == Len(later)
      <4>1. m \in S /\ m \in M
        BY <1>1, <3>2
      <4>2. h[S] = s
        BY <1>5, <3>2 DEF SortSteps
      <4>3. later \in Seq(M) /\ Range(later) = S \ {m}
        BY <2>1, <4>1
      <4> HIDE DEF later, m
      <4>4. /\ s \in Seq(M) /\ n \in Nat /\ DOMAIN later = 1 .. n
            /\ DOMAIN s = 1 .. n + 1 /\ s[1] = m
            /\ \A i \in 1 .. n : s[i + 1] = later[i]
        BY <4>1, <4>3
      <4> HIDE DEF s, n
      <4>5. /\ 1 \in 1 .. n + 1 /\ \A i \in 1 .. n : i + 1 \in 1 .. n + 1
            /\ \A i \in 1 .. n + 1 : i = 1 \/ (i - 1 \in 1 .. n /\ (i - 1) + 1 = i)
        BY <4>4
      <4>6. \A x : x \in Range(s) <=> x = m \/ x \in Range(later)
        <5>1. ASSUME NEW x \in Range(s)  PROVE  x = m \/ x \in Range(later)
          <6>1. PICK i \in 1 .. n + 1 : x = s[i]
            BY <4>4, <5>1 DEF Range
          <6>2. CASE i = 1
            BY <4>4, <6>1, <6>2
          <6>3. CASE i # 1
            <7>1. i - 1 \in 1 .. n /\ x = later[i - 1]
              BY <4>4, <4>5, <6>1, <6>3
            <7> QED
              BY <4>4, <7>1 DEF Range
          <6> QED
            BY <6>2, <6>3
        <5>2. m \in Range(s)
          BY <4>4, <4>5 DEF Range
        <5>3. ASSUME NEW x \in Range(later)  PROVE  x \in Range(s)
          BY <4>4, <4>5 DEF Range
        <5> QED
          BY <5>1, <5>2, <5>3
      <4>7. Range(s) = S
        BY <4>1, <4>3, <4>6
      <4> QED
        BY <4>2, <4>4, <4>7
    <3> QED
      BY <3>1, <3>2
  <2>2. \A S \in SUBSET M : S \in C
    <3> HIDE DEF C
    <3> QED
      BY <2>1, SubsetInduction
  <2> QED
    BY <2>2
<1> QED
  BY <1>6, <1>7

-----------------------------------------------------------------------------
(* The solver.                                                             *)

\* What SolverIsRight says of the solver's answer.
SolvesRightly(at, M, found) ==
    IF found = None THEN GoodOrders(at, M) = {}
    ELSE /\ found \in GoodOrders(at, M)
         /\ \A o \in GoodOrders(at, M) : Len(found) <= Len(o)

\* The solver on migrations all of which lead on from where the modules are.
LEMMA SolveIsRight ==
    ASSUME NEW M \in SUBSET Migrations, IsFiniteSet(M), NEW at,
           \A m \in M : at[m.mod] = None \/ m.ver > at[m.mod]
    PROVE  SolvesRightly(at, M, Solve(at, M))
<1> DEFINE order == OldestFirst(M)
           s == CHOOSE search : SearchOf(search, at, M, order)
<1>1. {m \in M : at[m.mod] = None \/ m.ver > at[m.mod]} = M
  OBVIOUS
<1>2. Solve(at, M) = s[<<>>][None]
  BY <1>1 DEF Solve, SearchOf
<1> HIDE DEF order
<1>9. order \in Seq(M) /\ Range(order) = M
  BY OldestFirstSorts DEF order
<1>3. PICK search \in [Seq(M) -> [Bests(M) -> Bests(M)]] : SearchOf(search, at, M, order)
  BY <1>9, SearchExists
<1>4. SearchOf(s, at, M, order)
  BY <1>3
<1> HIDE DEF s
<1>5. s \in [Seq(M) -> [Bests(M) -> Bests(M)]]
  BY <1>4, <1>9, SearchOfTyped
<1>6. Finds(s, at, M, <<>>)
  <2>1. <<>> \in Seq(M)
    OBVIOUS
  <2> QED
    BY <1>4, <1>5, <1>9, <2>1, FindsAll
<1> DEFINE found == Solve(at, M)
<1>7. /\ found = None \/ Good(at, M, found)
      /\ \A o : Good(at, M, o) => NoLonger(found, Len(o))
  <2>1. None \in Bests(M)
    BY DEF Bests
  <2>2. OnWay(at, M, <<>>)
    BY DEF OnWay, IsInjective
  <2>3. \A o : Good(at, M, o) => Begins(<<>>, o)
    <3> SUFFICES ASSUME NEW o, Good(at, M, o)  PROVE  Begins(<<>>, o)
      OBVIOUS
    <3>1. o \in Seq(M)
      BY DEF Good, OnWay
    <3>2. SubSeq(o, 1, 0) = <<>> /\ Len(o) \in Nat
      BY <3>1, FirstOf
    <3> QED
      BY <3>2 DEF Begins
  <2> QED
    BY <1>2, <1>6, <2>1, <2>2, <2>3 DEF Finds
<1> HIDE DEF found
<1>8. \A o : o \in GoodOrders(at, M) <=> Good(at, M, o)
  BY GoodOrdersAre
<1> QED
  BY <1>7, <1>8 DEF SolvesRightly, NoLonger, found
-----------------------------------------------------------------------------
(* Databases and the migrations they have not seen.                        *)

LEMMA ImageFinite ==
    ASSUME NEW S, IsFiniteSet(S), NEW f, DOMAIN f = S, NEW T, T = {f[x] : x \in S}
    PROVE  IsFiniteSet(T)
<1> DEFINE g == [x \in S |-> f[x]]
<1>1. g \in Surjection(S, T)
  BY DEF Surjection
<1> HIDE DEF g
<1> QED
  BY <1>1, FS_Surjection

\* What is in a database of the n migrations of a server and those of g.
Within(d, n, g) == d \in [server : 0 .. n, organizer : SUBSET {m.ver : m \in g}]

\* The migration to version v of the server.
ServerStep(v) ==
    LET prev == IF v = 1 THEN None ELSE v - 1 IN
    Migration("server", v, {Dep("server", prev, prev)})

LEMMA GraphVersions ==
    ASSUME NEW g \in Graphs, NEW V \in SUBSET {m.ver : m \in g}
    PROVE  IsFiniteSet(V) /\ V \subseteq Nat \ {0}
<1>1. IsFiniteSet(g) /\ \A m \in g : m.ver \in Nat \ {0}
  BY ConstantsAssumption DEF LeadsUp, Migrations
<1> DEFINE f == [m \in g |-> m.ver]
           T == {m.ver : m \in g}
<1>2. DOMAIN f = g /\ T = {f[m] : m \in g}
  OBVIOUS
<1>3. IsFiniteSet(T)
  <2> HIDE DEF f, T
  <2> QED
    BY <1>1, <1>2, ImageFinite
<1>4. IsFiniteSet(V)
  <2>1. V \in SUBSET T
    OBVIOUS
  <2> HIDE DEF T
  <2> QED
    BY <1>3, <2>1, FS_Subset
<1> QED
  BY <1>1, <1>4

\* The versions of a database.
LEMMA VersionsAre ==
    ASSUME NEW n \in Nat, NEW g \in Graphs, NEW d, Within(d, n, g)
    PROVE  /\ Versions(d) \in Ats
           /\ Versions(d)["server"] = IF d.server = 0 THEN None ELSE d.server
           /\ Versions(d)["organizer"] \in Nat
           /\ Versions(d).organizer = Versions(d)["organizer"]
           /\ d.organizer = {} => Versions(d)["organizer"] = 0
           /\ d.organizer # {} => Versions(d)["organizer"] \in d.organizer
           /\ \A v \in d.organizer : v <= Versions(d)["organizer"]
           /\ d.server \in 0 .. n /\ d.organizer \subseteq {m.ver : m \in g}
<1>1. d.server \in 0 .. n /\ d.organizer \subseteq {m.ver : m \in g}
  BY DEF Within
<1>2. IsFiniteSet(d.organizer) /\ d.organizer \subseteq Nat \ {0}
  BY <1>1, GraphVersions
<1> DEFINE top == IF d.organizer = {} THEN 0 ELSE Max(d.organizer)
           srv == IF d.server = 0 THEN None ELSE d.server
<1>3. /\ top \in Nat
      /\ d.organizer # {} => top \in d.organizer
      /\ \A v \in d.organizer : v <= top
  <2>1. CASE d.organizer = {}
    BY <2>1
  <2>2. CASE d.organizer # {}
    <3>1. d.organizer \subseteq Nat
      BY <1>2
    <3>2. Max(d.organizer) \in d.organizer /\ \A v \in d.organizer : v <= Max(d.organizer)
      BY <1>2, <2>2, <3>1, Greatest
    <3> QED
      BY <2>2, <3>1, <3>2
  <2> QED
    BY <2>1, <2>2
<1>4. d.organizer = {} => top = 0
  OBVIOUS
<1>5. srv \in Nat \cup {None}
  BY <1>1
<1>6. Versions(d) = [server |-> srv, organizer |-> top]
  BY DEF Versions
<1> HIDE DEF srv, top
<1>7. /\ Versions(d)["server"] = srv /\ Versions(d)["organizer"] = top
      /\ Versions(d).organizer = top
  BY <1>6
<1>8. Versions(d) \in Ats
  BY <1>3, <1>5, <1>6 DEF Ats, Modules
<1> QED
  BY <1>1, <1>3, <1>4, <1>7, <1>8 DEF srv

LEMMA ServerStepIs ==
    ASSUME NEW v \in Nat \ {0}
    PROVE  /\ ServerStep(v) \in Migrations
           /\ ServerStep(v).mod = "server" /\ ServerStep(v).ver = v
           /\ \A at \in Ats : CanApply(at, ServerStep(v)) =>
                  IF v = 1 THEN TRUE ELSE at["server"] = v - 1
<1> DEFINE prev == IF v = 1 THEN None ELSE v - 1
           dep == Dep("server", prev, prev)
<1>1. ServerStep(v) = [mod |-> "server", ver |-> v, deps |-> {dep}]
  BY DEF ServerStep, Migration
<1>2. prev \in Nat \cup {None} /\ dep = [mod |-> "server", min |-> prev, max |-> prev]
  BY DEF Dep
<1>3. dep \in Deps
  <2> HIDE DEF prev, dep
  <2> QED
    BY <1>2 DEF Deps, Modules
<1>4. ASSUME NEW at \in Ats, CanApply(at, ServerStep(v)), v # 1
      PROVE  at["server"] = v - 1
  <2>1. Meets(at, dep)
    BY <1>1, <1>4 DEF CanApply
  <2>2. dep.mod = "server" /\ dep.min = prev /\ dep.max = prev
    BY <1>2
  <2>3. prev = v - 1 /\ v - 1 \in Nat /\ v - 1 # None
    BY <1>4, ConstantsAssumption
  <2>4. at["server"] \in Nat \cup {None}
    BY DEF Ats, Modules
  <2>5. at["server"] # None /\ at["server"] >= v - 1 /\ at["server"] <= v - 1
    <3> HIDE DEF dep, prev
    <3> QED
      BY <2>1, <2>2, <2>3 DEF Meets
  <2> QED
    BY <2>3, <2>4, <2>5
<1> HIDE DEF dep
<1> QED
  BY <1>1, <1>3, <1>4 DEF Migrations, Modules

\* Pending, as server steps and migrations of the organizer.
LEMMA PendingAre ==
    ASSUME NEW n \in Nat, NEW g \in Graphs, NEW d, Within(d, n, g)
    PROVE  /\ Pending(d, n, g) =
                  {ServerStep(v) : v \in d.server + 1 .. n}
                  \cup {m \in g : m.ver > Versions(d)["organizer"]}
           /\ Pending(d, n, g) \in SUBSET Migrations
           /\ IsFiniteSet(Pending(d, n, g))
           /\ \A m \in Pending(d, n, g) :
                 Versions(d)[m.mod] = None \/ m.ver > Versions(d)[m.mod]
           /\ Pending(d, n, g) \subseteq Pending(Empty, n, g)
<1> DEFINE Steps(e) == {ServerStep(v) : v \in e.server + 1 .. n}
           Newer(e) == {m \in g : m.ver > Versions(e)["organizer"]}
<1>1. ASSUME NEW e, Within(e, n, g)  PROVE  Pending(e, n, g) = Steps(e) \cup Newer(e)
  <2>1. Versions(e).organizer = Versions(e)["organizer"]
    BY <1>1, VersionsAre
  <2> QED
    BY <2>1 DEF Pending, ServerStep
<1>2. d.server \in 0 .. n
  BY VersionsAre
<1>3. \A v \in d.server + 1 .. n : v \in Nat \ {0} /\ v > d.server
  BY <1>2
<1>4. ASSUME NEW m \in g  PROVE  m \in Migrations /\ m.mod = "organizer"
  BY ConstantsAssumption DEF LeadsUp
<1>5. Steps(d) \cup Newer(d) \in SUBSET Migrations
  BY <1>3, <1>4, ServerStepIs
<1>6. IsFiniteSet(Steps(d) \cup Newer(d))
  <2> DEFINE I == d.server + 1 .. n
             f == [v \in I |-> ServerStep(v)]
  <2>1. IsFiniteSet(I)
    BY <1>2, FS_Interval
  <2>2. DOMAIN f = I /\ Steps(d) = {f[v] : v \in I}
    OBVIOUS
  <2>3. IsFiniteSet(Steps(d))
    <3> HIDE DEF I, f, Steps
    <3> QED
      BY <2>1, <2>2, ImageFinite
  <2>4. IsFiniteSet(Newer(d))
    <3>1. IsFiniteSet(g) /\ Newer(d) \in SUBSET g
      BY ConstantsAssumption
    <3> HIDE DEF Newer
    <3> QED
      BY <3>1, FS_Subset
  <2> HIDE DEF Steps, Newer
  <2> QED
    BY <2>3, <2>4, FS_Union
<1>7. ASSUME NEW m \in Steps(d) \cup Newer(d)
      PROVE  Versions(d)[m.mod] = None \/ m.ver > Versions(d)[m.mod]
  <2>1. CASE m \in Steps(d)
    <3>1. PICK v \in d.server + 1 .. n : m = ServerStep(v)
      BY <2>1
    <3>2. m.mod = "server" /\ m.ver = v
      BY <1>3, <3>1, ServerStepIs
    <3>3. Versions(d)["server"] = None \/ Versions(d)["server"] = d.server
      BY VersionsAre
    <3> QED
      BY <1>2, <3>1, <3>2, <3>3
  <2>2. CASE m \in Newer(d)
    BY <1>4, <2>2
  <2> QED
    BY <2>1, <2>2
<1>8. Steps(d) \cup Newer(d) \subseteq Pending(Empty, n, g)
  <2>1. Within(Empty, n, g) /\ Empty.server = 0 /\ Empty.organizer = {}
    BY DEF Within, Empty
  <2>2. Versions(Empty)["organizer"] = 0
    BY <2>1, VersionsAre
  <2>3. Steps(d) \subseteq Steps(Empty)
    BY <1>2, <2>1
  <2>4. Newer(d) \subseteq Newer(Empty)
    <3>1. \A m \in g : m.ver \in Nat
      BY <1>4 DEF Migrations
    <3>2. Versions(d)["organizer"] \in Nat
      BY VersionsAre
    <3>3. \A m \in g : m.ver > Versions(d)["organizer"] => m.ver > 0
      BY <3>1, <3>2
    <3> QED
      BY <2>2, <3>3
  <2>5. Pending(Empty, n, g) = Steps(Empty) \cup Newer(Empty)
    BY <1>1, <2>1
  <2> HIDE DEF Steps, Newer
  <2> QED
    BY <2>3, <2>4, <2>5
<1>9. Pending(d, n, g) = Steps(d) \cup Newer(d)
  BY <1>1
<1> QED
  BY <1>5, <1>6, <1>7, <1>8, <1>9
-----------------------------------------------------------------------------
(* Plans.                                                                  *)

\* m leads its module to a later version.
Rises(at, m) == at[m.mod] = None \/ at[m.mod] < m.ver

\* Every migration of a path meets what it depends on, and leads up from there.
InTurn(at, path) ==
    \A i \in 1 .. Len(path) :
        LET now == Reached(at, SubSeq(path, 1, i - 1)) IN
        CanApply(now, path[i]) /\ Rises(now, path[i])

\* Both modules are at the latest version, that of n and of g.
UpToDate(at, n, g) ==
    /\ IF at["server"] = None THEN n = 0 ELSE at["server"] >= n
    /\ \A m \in g : m.ver <= at["organizer"]

\* The versions on the way, one after the other.
LEMMA OnTheWay ==
    ASSUME NEW at \in Ats, NEW path \in Seq(Migrations)
    PROVE  \A i \in 1 .. Len(path) :
               LET now == Reached(at, SubSeq(path, 1, i - 1))
                   next == Reached(at, SubSeq(path, 1, i)) IN
               /\ now \in Ats /\ next \in Ats /\ path[i] \in Migrations
               /\ next[path[i].mod] = path[i].ver
               /\ \A mod \in Modules : mod # path[i].mod => next[mod] = now[mod]
<1> SUFFICES ASSUME NEW i \in 1 .. Len(path)
             PROVE  LET now == Reached(at, SubSeq(path, 1, i - 1))
                        next == Reached(at, SubSeq(path, 1, i)) IN
                    /\ now \in Ats /\ next \in Ats /\ path[i] \in Migrations
                    /\ next[path[i].mod] = path[i].ver
                    /\ \A mod \in Modules : mod # path[i].mod => next[mod] = now[mod]
  OBVIOUS
<1>1. path[i] \in Migrations
  OBVIOUS
<1>2. i - 1 \in 0 .. Len(path)
  OBVIOUS
<1>3. SubSeq(path, 1, i - 1) \in Seq(Migrations)
  BY <1>2, FirstOf
<1> DEFINE now == Reached(at, SubSeq(path, 1, i - 1))
           next == Reached(at, SubSeq(path, 1, i))
<1>4. now \in Ats
  BY <1>3, ReachedNext
<1>5. next = Upgraded(now, path[i])
  BY ReachedNext
<1> HIDE DEF now, next
<1>6. /\ next \in Ats /\ next[path[i].mod] = path[i].ver
      /\ \A mod \in Modules : mod # path[i].mod => next[mod] = now[mod]
  BY <1>1, <1>4, <1>5, UpgradedTyped
<1> QED
  BY <1>1, <1>4, <1>6 DEF now, next

\* A module none of whose migrations is on a path stays where it is.
LEMMA Untouched ==
    ASSUME NEW at \in Ats, NEW path \in Seq(Migrations), NEW mod \in Modules,
           \A i \in 1 .. Len(path) : path[i].mod # mod
    PROVE  Reached(at, path)[mod] = at[mod]
<1> DEFINE now(i) == Reached(at, SubSeq(path, 1, i))
           C == {i \in Nat : i <= Len(path) => now(i)[mod] = at[mod]}
<1>1. now(0) = at /\ now(Len(path)) = Reached(at, path) /\ Len(path) \in Nat
  <2>1. SubSeq(path, 1, 0) = <<>> /\ SubSeq(path, 1, Len(path)) = path
    BY FirstOf
  <2>2. Len(path) \in Nat
    OBVIOUS
  <2> QED
    BY <2>1, <2>2, ReachedNext
<1>2. \A i \in 1 .. Len(path) : now(i)[mod] = now(i - 1)[mod]
  BY OnTheWay
<1> HIDE DEF now
<1>3. 0 \in C
  BY <1>1
<1>4. ASSUME NEW i \in Nat, i \in C  PROVE  i + 1 \in C
  <2> SUFFICES ASSUME i + 1 <= Len(path)  PROVE  now(i + 1)[mod] = at[mod]
    OBVIOUS
  <2>1. i + 1 \in 1 .. Len(path) /\ (i + 1) - 1 = i /\ i <= Len(path)
    BY <1>1
  <2>2. now(i + 1)[mod] = now((i + 1) - 1)[mod]
    BY <1>2, <2>1
  <2> QED
    BY <1>4, <2>1, <2>2
<1>5. Nat \subseteq C
  <2> HIDE DEF C
  <2> QED
    BY <1>3, <1>4, NatSetInduction
<1> QED
  BY <1>1, <1>5

\* On a path of pending migrations no module goes back: those of the organizer
\* say so themselves; the server's first depends on nothing, but comes once.
LEMMA PathRises ==
    ASSUME NEW n \in Nat, NEW g \in Graphs, NEW d, Within(d, n, g),
           NEW path, OnWay(Versions(d), Pending(d, n, g), path)
    PROVE  InTurn(Versions(d), path)
<1> DEFINE at == Versions(d)
           M == Pending(d, n, g)
           now(i) == Reached(at, SubSeq(path, 1, i))
           k == Len(path)
<1>1. /\ at \in Ats /\ at["server"] = IF d.server = 0 THEN None ELSE d.server
      /\ d.server \in 0 .. n
  BY VersionsAre
<1>2. /\ path \in Seq(M) /\ path \in Seq(Migrations) /\ k \in Nat
      /\ \A i \in 1 .. k : path[i] \in M
  <2>1. M \in SUBSET Migrations /\ path \in Seq(M)
    BY PendingAre DEF OnWay
  <2> HIDE DEF M
  <2> QED
    BY <2>1
<1>3. ASSUME NEW m \in M
      PROVE  \/ m \in g /\ m.mod = "organizer" /\ LeadsUp(m)
             \/ \E v \in d.server + 1 .. n : m = ServerStep(v)
  BY PendingAre, ConstantsAssumption DEF LeadsUp
<1>4. \A v \in d.server + 1 .. n : v \in Nat \ {0} /\ (v = 1 => d.server = 0)
  BY <1>1
<1>5. now(0) = at
  BY <1>1, <1>2, FirstOf, ReachedNext
<1>6. \A i \in 1 .. k : /\ CanApply(now(i - 1), path[i])
                        /\ now(i - 1) \in Ats
                        /\ now(i)[path[i].mod] = path[i].ver
                        /\ path[i].mod # "server" => now(i)["server"] = now(i - 1)["server"]
  BY <1>1, <1>2, OnTheWay DEF OnWay, Modules
<1> HIDE DEF now, M, k
\* Until the server's first migration has come, it has no version.
<1> DEFINE C == {i \in Nat : i <= k => \/ now(i)["server"] = None
                                       \/ at["server"] # None
                                       \/ \E j \in 1 .. i : path[j] = ServerStep(1)}
<1>7. 0 \in C
  BY <1>5
<1>8. ASSUME NEW i \in Nat, i \in C  PROVE  i + 1 \in C
  <2> SUFFICES ASSUME i + 1 <= k, now(i + 1)["server"] # None, at["server"] = None
               PROVE  \E j \in 1 .. i + 1 : path[j] = ServerStep(1)
    OBVIOUS
  <2>1. i + 1 \in 1 .. k /\ (i + 1) - 1 = i /\ i <= k /\ path[i + 1] \in M
    BY <1>2
  <2>2. CASE now(i)["server"] # None
    <3>1. PICK j \in 1 .. i : path[j] = ServerStep(1)
      BY <1>8, <2>1, <2>2
    <3>2. j \in 1 .. i + 1
      OBVIOUS
    <3> QED
      BY <3>1, <3>2
  <2>3. CASE now(i)["server"] = None
    <3>1. path[i + 1].mod = "server"
      BY <1>6, <2>1, <2>3
    <3>2. PICK v \in d.server + 1 .. n : path[i + 1] = ServerStep(v)
      BY <1>3, <2>1, <3>1
    <3>3. v = 1
      <4>1. CanApply(now(i), ServerStep(v)) /\ now(i) \in Ats /\ v \in Nat \ {0}
        BY <1>4, <1>6, <2>1, <3>2
      <4>2. v - 1 # None
        BY <4>1, ConstantsAssumption
      <4> QED
        BY <2>3, <4>1, <4>2, ServerStepIs
    <3>4. i + 1 \in 1 .. i + 1
      OBVIOUS
    <3> QED
      BY <3>2, <3>3, <3>4
  <2> QED
    BY <2>2, <2>3
<1>9. Nat \subseteq C
  <2> HIDE DEF C
  <2> QED
    BY <1>7, <1>8, NatSetInduction
<1>10. ASSUME NEW i \in 1 .. k  PROVE  Rises(now(i - 1), path[i])
  <2> DEFINE a == now(i - 1)
             m == path[i]
  <2>1. CanApply(a, m) /\ a \in Ats /\ m \in M
    BY <1>2, <1>6
  <2>2. i - 1 \in Nat /\ i - 1 <= k /\ \A j \in 1 .. i - 1 : j \in 1 .. k /\ j # i
    BY <1>2 DEF k
  <2> HIDE DEF a, m
  <2>3. ASSUME m.mod = "organizer", LeadsUp(m)  PROVE  Rises(a, m)
    <3>1. PICK dep \in m.deps :
              dep.mod = "organizer" /\ dep.max # None /\ dep.max < m.ver
      BY <2>3 DEF LeadsUp
    <3>2. Meets(a, dep) /\ dep \in Deps /\ m.ver \in Nat
      BY <2>1, <2>3, <3>1 DEF CanApply, LeadsUp, Migrations
    <3>3. dep.max \in Nat /\ a["organizer"] \in Nat \cup {None}
      BY <2>1, <3>1, <3>2 DEF Deps, Ats, Modules
    <3>4. a["organizer"] # None => a["organizer"] <= dep.max
      BY <3>1, <3>2 DEF Meets
    <3> QED
      BY <2>3, <3>1, <3>2, <3>3, <3>4 DEF Rises
  <2>4. ASSUME NEW v \in d.server + 1 .. n, m = ServerStep(v)  PROVE  Rises(a, m)
    <3>1. v \in Nat \ {0} /\ m.mod = "server" /\ m.ver = v
      BY <1>4, <2>4, ServerStepIs
    <3>2. CASE v # 1
      <4>1. a["server"] = v - 1
        BY <2>1, <2>4, <3>1, <3>2, ServerStepIs
      <4> QED
        BY <3>1, <4>1 DEF Rises
    <3>3. CASE v = 1
      <4>1. at["server"] = None
        BY <1>1, <1>4, <3>3
      <4>2. \A j \in 1 .. i - 1 : path[j] # ServerStep(1)
        <5>1. IsInjective(path) /\ DOMAIN path = 1 .. k
          BY <1>2 DEF OnWay, k, M
        <5>2. path[i] = ServerStep(1)
          BY <2>4, <3>3 DEF m
        <5> QED
          BY <2>2, <5>1, <5>2 DEF IsInjective
      <4>3. now(i - 1)["server"] = None
        BY <1>9, <2>2, <4>1, <4>2
      <4> QED
        BY <3>1, <4>3 DEF Rises, a
    <3> QED
      BY <3>2, <3>3
  <2> QED
    BY <1>3, <2>1, <2>3, <2>4 DEF a, m
<1>11. ASSUME NEW i \in 1 .. Len(path)
       PROVE  /\ CanApply(Reached(at, SubSeq(path, 1, i - 1)), path[i])
              /\ Rises(Reached(at, SubSeq(path, 1, i - 1)), path[i])
  BY <1>6, <1>10 DEF now, k
<1> QED
  BY <1>11 DEF InTurn
\* What the solver gives for a database can be applied to it, migration by
\* migration, and brings both modules to the latest version.
LEMMA PlanLeads ==
    ASSUME NEW n \in Nat, NEW g \in Graphs, NEW d, Within(d, n, g),
           NEW path, Good(Versions(d), Pending(d, n, g), path)
    PROVE  /\ path \in Seq(Pending(Empty, n, g))
           /\ InTurn(Versions(d), path)
           /\ UpToDate(Reached(Versions(d), path), n, g)
<1> DEFINE at == Versions(d)
           M == Pending(d, n, g)
           end == Reached(at, path)
           Mods == {m.mod : m \in M}
           Vers(mod) == {m.ver : m \in {l \in M : l.mod = mod}}
<1>1. /\ at \in Ats /\ at["server"] = IF d.server = 0 THEN None ELSE d.server
      /\ at["organizer"] \in Nat /\ d.server \in 0 .. n
  BY VersionsAre
<1>2. /\ M = {ServerStep(v) : v \in d.server + 1 .. n}
             \cup {m \in g : m.ver > at["organizer"]}
      /\ M \in SUBSET Migrations /\ IsFiniteSet(M) /\ M \subseteq Pending(Empty, n, g)
  BY PendingAre
<1>3. InTurn(at, path)
  BY PathRises DEF Good
<1>4. path \in Seq(M)
  BY DEF Good, OnWay
<1>5. path \in Seq(Pending(Empty, n, g)) /\ path \in Seq(Migrations)
  <2> HIDE DEF M
  <2> QED
    BY <1>2, <1>4
<1>6. \A mod \in Mods : end[mod] = Max(Vers(mod))
  BY DEF Good, AtTarget
<1>7. \A mod \in Modules : mod \notin Mods => end[mod] = at[mod]
  <2> SUFFICES ASSUME NEW mod \in Modules, mod \notin Mods  PROVE  end[mod] = at[mod]
    OBVIOUS
  <2>1. \A i \in 1 .. Len(path) : path[i] \in M
    <3> HIDE DEF M
    <3> QED
      BY <1>4
  <2>2. \A i \in 1 .. Len(path) : path[i].mod # mod
    BY <2>1
  <2> QED
    BY <1>1, <1>5, <2>2, Untouched
<1> HIDE DEF end
<1>8. ASSUME NEW m \in M
      PROVE  m.mod \in Mods /\ end[m.mod] \in Nat /\ m.ver <= end[m.mod]
  <2> DEFINE V == Vers(m.mod)
             f == [l \in M |-> l.ver]
  <2>1. V \subseteq Nat /\ m.ver \in V
    BY <1>2 DEF Migrations
  <2>2. IsFiniteSet(V)
    <3>1. DOMAIN f = M
      OBVIOUS
    <3>2. IsFiniteSet({f[l] : l \in M})
      <4> HIDE DEF f
      <4> QED
        BY <1>2, <3>1, ImageFinite
    <3>3. V \in SUBSET {f[l] : l \in M}
      OBVIOUS
    <3> HIDE DEF V, f
    <3> QED
      BY <3>2, <3>3, FS_Subset
  <2>3. Max(V) \in V /\ m.ver <= Max(V)
    <3> HIDE DEF V
    <3> QED
      BY <2>1, <2>2, Greatest
  <2>4. m.mod \in Mods
    OBVIOUS
  <2>5. end[m.mod] = Max(V)
    BY <1>6, <2>4
  <2> HIDE DEF V
  <2> QED
    BY <2>1, <2>3, <2>4, <2>5
<1> HIDE DEF Vers
<1>9. ASSUME NEW mod \in Mods  PROVE  end[mod] \in Nat /\ end[mod] # None
  <2>1. end[mod] \in Nat
    BY <1>8
  <2> QED
    BY <2>1, ConstantsAssumption
<1>10. IF end["server"] = None THEN n = 0 ELSE end["server"] >= n
  <2>1. CASE d.server < n
    <3>1. n \in d.server + 1 .. n /\ n \in Nat \ {0}
      BY <1>1, <2>1
    <3>2. ServerStep(n) \in M /\ ServerStep(n).mod = "server" /\ ServerStep(n).ver = n
      BY <1>2, <3>1, ServerStepIs
    <3> HIDE DEF M, Mods
    <3>3. end["server"] \in Nat /\ n <= end["server"] /\ end["server"] # None
      BY <1>8, <1>9, <3>2
    <3> QED
      BY <3>3
  <2>2. CASE ~(d.server < n)
    <3>1. d.server = n /\ d.server + 1 .. n = {}
      BY <1>1, <2>2
    <3>2. \A m \in M : m.mod = "organizer"
      BY <1>2, <3>1, ConstantsAssumption DEF LeadsUp
    <3>3. "server" \notin Mods
      BY <3>2
    <3>4. end["server"] = at["server"]
      BY <1>7, <3>3 DEF Modules
    <3>5. CASE n = 0
      BY <1>1, <3>1, <3>4, <3>5
    <3>6. CASE n # 0
      <4>1. end["server"] = n /\ n # None
        BY <1>1, <3>1, <3>4, <3>6, ConstantsAssumption
      <4> QED
        BY <4>1
    <3> QED
      BY <3>5, <3>6
  <2> QED
    BY <2>1, <2>2
<1>11. ASSUME NEW m \in g  PROVE  m.ver <= end["organizer"]
  <2>1. m.mod = "organizer" /\ m.ver \in Nat
    BY ConstantsAssumption DEF LeadsUp, Migrations
  <2>2. CASE m \in M
    BY <1>8, <2>1, <2>2
  <2>3. CASE m \notin M
    <3>1. m.ver <= at["organizer"]
      BY <1>1, <1>2, <2>1, <2>3
    <3>2. CASE "organizer" \in Mods
      <4>1. PICK l \in M : l.mod = "organizer"
        BY <3>2
      <4>2. \A v \in d.server + 1 .. n : ServerStep(v).mod = "server"
        <5>1. \A v \in d.server + 1 .. n : v \in Nat \ {0}
          BY <1>1
        <5> QED
          BY <5>1, ServerStepIs
      <4>3. l.ver > at["organizer"] /\ l.ver \in Nat
        BY <1>2, <4>1, <4>2 DEF Migrations
      <4>4. l.ver <= end["organizer"] /\ end["organizer"] \in Nat
        <5> HIDE DEF M, Mods
        <5> QED
          BY <1>8, <4>1
      <4> QED
        BY <1>1, <2>1, <3>1, <4>3, <4>4
    <3>3. CASE "organizer" \notin Mods
      <4>1. end["organizer"] = at["organizer"]
        BY <1>7, <3>3 DEF Modules
      <4> QED
        BY <3>1, <4>1
    <3> QED
      BY <3>2, <3>3
  <2> QED
    BY <2>2, <2>3
<1> QED
  BY <1>3, <1>5, <1>10, <1>11 DEF UpToDate, end

\* A database at the latest versions has nothing pending.
LEMMA UpToDateIs ==
    ASSUME NEW n \in Nat, NEW g \in Graphs, NEW d, Within(d, n, g),
           UpToDate(Versions(d), n, g)
    PROVE  Pending(d, n, g) = {}
<1>1. /\ Versions(d)["server"] = IF d.server = 0 THEN None ELSE d.server
      /\ Versions(d)["organizer"] \in Nat /\ d.server \in 0 .. n
  BY VersionsAre
<1>2. Pending(d, n, g) = {ServerStep(v) : v \in d.server + 1 .. n}
                         \cup {m \in g : m.ver > Versions(d)["organizer"]}
  BY PendingAre
<1>3. d.server + 1 .. n = {}
  <2>1. d.server >= n
    BY <1>1, ConstantsAssumption DEF UpToDate
  <2> QED
    BY <1>1, <2>1
<1>4. \A m \in g : ~(m.ver > Versions(d)["organizer"])
  <2>1. \A m \in g : m.ver \in Nat
    BY ConstantsAssumption DEF LeadsUp, Migrations
  <2> QED
    BY <1>1, <2>1 DEF UpToDate
<1> QED
  BY <1>2, <1>3, <1>4

\* Applying a migration that leads up from where its module is.
LEMMA MigratedIs ==
    ASSUME NEW n \in Nat, NEW g \in Graphs, NEW d, Within(d, n, g),
           NEW m \in Pending(Empty, n, g), Rises(Versions(d), m)
    PROVE  /\ Within(Migrated(d, m), n, g)
           /\ Versions(Migrated(d, m)) = Upgraded(Versions(d), m)
           /\ Migrated(d, m).server >= d.server
           /\ Versions(Migrated(d, m)).organizer >= Versions(d).organizer
<1> DEFINE at == Versions(d)
           e == Migrated(d, m)
<1>1. /\ at \in Ats /\ at["server"] = IF d.server = 0 THEN None ELSE d.server
      /\ at["organizer"] \in Nat /\ at.organizer = at["organizer"]
      /\ d.server \in 0 .. n /\ d.organizer \subseteq {l.ver : l \in g}
      /\ \A v \in d.organizer : v <= at["organizer"]
  BY VersionsAre
<1>2. \/ m \in g /\ m.mod = "organizer"
      \/ \E v \in 1 .. n : m = ServerStep(v)
  <2>1. Within(Empty, n, g) /\ Empty.server = 0
    BY DEF Within, Empty
  <2>2. Pending(Empty, n, g) = {ServerStep(v) : v \in 0 + 1 .. n}
                               \cup {l \in g : l.ver > Versions(Empty)["organizer"]}
    BY <2>1, PendingAre
  <2> QED
    BY <2>2, ConstantsAssumption DEF LeadsUp
<1>3. ASSUME NEW v \in 1 .. n, m = ServerStep(v)
      PROVE  /\ Within(e, n, g) /\ Versions(e) = Upgraded(at, m)
             /\ e.server >= d.server /\ Versions(e).organizer >= at.organizer
  <2>1. v \in Nat \ {0} /\ m.mod = "server" /\ m.ver = v
    BY <1>3, ServerStepIs
  <2>2. e = [server |-> v, organizer |-> d.organizer]
    BY <2>1 DEF Migrated, Within
  <2> HIDE DEF e
  <2>3. Within(e, n, g) /\ e.server = v /\ e.organizer = d.organizer
    BY <1>1, <2>2 DEF Within
  <2>4. e.server >= d.server
    BY <1>1, <2>1, <2>3, ConstantsAssumption DEF Rises
  <2>5. Versions(e) = [server |-> v, organizer |-> at.organizer]
    BY <2>1, <2>3 DEF Versions
  <2>6. Versions(e) = Upgraded(at, m)
    BY <1>1, <2>1, <2>5 DEF Upgraded, Versions
  <2> QED
    BY <1>1, <2>3, <2>4, <2>5, <2>6
<1>4. ASSUME m \in g, m.mod = "organizer"
      PROVE  /\ Within(e, n, g) /\ Versions(e) = Upgraded(at, m)
             /\ e.server >= d.server /\ Versions(e).organizer >= at.organizer
  <2>1. m.ver \in Nat \ {0}
    BY <1>4, ConstantsAssumption DEF LeadsUp, Migrations
  <2>2. e = [server |-> d.server, organizer |-> d.organizer \cup {m.ver}]
    BY <1>4 DEF Migrated, Within
  <2> HIDE DEF e
  <2>3. Within(e, n, g) /\ e.server = d.server /\ e.organizer = d.organizer \cup {m.ver}
    BY <1>1, <1>4, <2>2 DEF Within
  <2>4. at["organizer"] < m.ver
    BY <1>1, <1>4, ConstantsAssumption DEF Rises
  <2>5. /\ Versions(e).organizer \in e.organizer
        /\ \A v \in e.organizer : v <= Versions(e).organizer
        /\ Versions(e).organizer \in Nat
    BY <2>3, VersionsAre
  <2>6. Versions(e).organizer = m.ver
    <3> DEFINE top == Versions(e).organizer
    <3> HIDE DEF top
    <3>1. top \in d.organizer \/ top = m.ver
      BY <2>3, <2>5 DEF top
    <3>2. m.ver <= top /\ top \in Nat
      BY <2>3, <2>5 DEF top
    <3>3. top = m.ver
      BY <1>1, <2>1, <2>4, <3>1, <3>2
    <3> QED
      BY <3>3 DEF top
  <2>7. Versions(e) = [server |-> IF d.server = 0 THEN None ELSE d.server,
                       organizer |-> m.ver]
    BY <2>3, <2>6 DEF Versions
  <2>8. Versions(e) = Upgraded(at, m)
    BY <1>1, <1>4, <2>7 DEF Upgraded, Versions
  <2> QED
    BY <1>1, <2>1, <2>3, <2>4, <2>6, <2>8
<1> HIDE DEF e, at
<1>5. /\ Within(e, n, g) /\ Versions(e) = Upgraded(at, m)
      /\ e.server >= d.server /\ Versions(e).organizer >= at.organizer
  BY <1>2, <1>3, <1>4
<1> QED
  BY <1>5 DEF e, at

\* The rest of a plan, once its first migration has been applied.
LEMMA RestInTurn ==
    ASSUME NEW at \in Ats, NEW path \in Seq(Migrations), path # <<>>,
           InTurn(at, path)
    PROVE  /\ CanApply(at, Head(path)) /\ Rises(at, Head(path))
           /\ InTurn(Upgraded(at, Head(path)), Tail(path))
           /\ Reached(Upgraded(at, Head(path)), Tail(path)) = Reached(at, path)
<1> DEFINE tail == Tail(path)
           k == Len(tail)
           up == Upgraded(at, Head(path))
<1>1. /\ tail \in Seq(Migrations) /\ k \in Nat /\ Len(path) = k + 1
      /\ Head(path) = path[1] /\ path[1] \in Migrations
      /\ \A i \in 1 .. k : tail[i] = path[i + 1]
  OBVIOUS
<1>2. SubSeq(path, 1, 0) = <<>> /\ SubSeq(path, 1, Len(path)) = path
      /\ SubSeq(tail, 1, Len(tail)) = tail
  BY <1>1, FirstOf
<1>3. \A i \in 0 .. k : Reached(up, SubSeq(tail, 1, i)) = Reached(at, SubSeq(path, 1, i + 1))
  BY ReachedTail
<1> HIDE DEF tail, up
<1>4. Reached(at, <<>>) = at
  BY ReachedNext
<1>5. CanApply(at, Head(path)) /\ Rises(at, Head(path))
  <2>1. 1 \in 1 .. Len(path) /\ 1 - 1 = 0
    BY <1>1
  <2> QED
    BY <1>1, <1>2, <1>4, <2>1 DEF InTurn
<1>6. ASSUME NEW i \in 1 .. k
      PROVE  LET now == Reached(up, SubSeq(tail, 1, i - 1)) IN
             CanApply(now, tail[i]) /\ Rises(now, tail[i])
  <2>1. i - 1 \in 0 .. k /\ (i - 1) + 1 = i /\ i + 1 \in 1 .. Len(path)
        /\ (i + 1) - 1 = i
    BY <1>1
  <2>2. Reached(up, SubSeq(tail, 1, i - 1)) = Reached(at, SubSeq(path, 1, i))
    BY <1>3, <2>1
  <2> QED
    BY <1>1, <2>1, <2>2 DEF InTurn
<1>7. Reached(up, tail) = Reached(at, path)
  <2>1. k \in 0 .. k
    BY <1>1
  <2> QED
    BY <1>1, <1>2, <1>3, <2>1
<1> QED
  BY <1>5, <1>6, <1>7 DEF InTurn, tail, up
-----------------------------------------------------------------------------
(* The server at start.                                                    *)

\* Once a start has begun there is a file, and a start that migrates, or has
\* left a broken file, knows an original; what is planned fits what is in the file;
\* an archive being written is broken until then.
Planned ==
    /\ pc # "down" => db # None
    /\ pc \notin {"down", "serving"} \/ db = Torn => original # None
    /\ pc = "archive" => newest \in {None, Torn}
    /\ pc \in {"backup", "archive", "apply"} =>
          /\ db \in Contents
          /\ InTurn(Versions(db), plan)
          /\ UpToDate(Reached(Versions(db), plan), release, graph)

\* The inductive invariant.
MigrationsInv == TypeOK /\ ArchivedBefore /\ Planned /\ ServesMigrated

LEMMA ContentsAre ==
    ASSUME TypeOK
    PROVE  /\ release \in Nat /\ graph \in Graphs
           /\ \A d : d \in Contents <=> Within(d, release, graph)
           /\ None \notin Contents /\ Torn \notin Contents /\ None # Torn
           /\ Empty \in Contents
<1>1. release \in Nat /\ graph \in Graphs
  BY ConstantsAssumption DEF TypeOK
<1>2. \A d : d \in Contents <=> Within(d, release, graph)
  BY DEF Contents, Within
<1>3. Empty \in Contents
  BY <1>1 DEF Empty, Contents
<1>4. Contents \subseteq [server : Nat, organizer : SUBSET Nat]
  <2>1. \A m \in graph : m.ver \in Nat
    BY <1>1, ConstantsAssumption DEF LeadsUp, Migrations
  <2>2. {m.ver : m \in graph} \subseteq Nat /\ 0 .. release \subseteq Nat
    BY <2>1
  <2> DEFINE vers == {m.ver : m \in graph}
  <2> HIDE DEF vers
  <2>3. [server : 0 .. release, organizer : SUBSET vers]
            \subseteq [server : Nat, organizer : SUBSET Nat]
    BY <2>2 DEF vers
  <2> QED
    BY <2>3 DEF Contents, vers
<1>5. None \notin Contents /\ Torn \notin Contents /\ None # Torn
  BY <1>4, ConstantsAssumption
<1> QED
  BY <1>1, <1>2, <1>3, <1>5

\* The solver, on what is pending in any database.
LEMMA SolvedPending ==
    ASSUME NEW n \in Nat, NEW g \in Graphs, NEW d, Within(d, n, g)
    PROVE  SolvesRightly(Versions(d), Pending(d, n, g),
                         Solve(Versions(d), Pending(d, n, g)))
<1> DEFINE M == Pending(d, n, g)
           at == Versions(d)
<1>1. /\ M \in SUBSET Migrations /\ IsFiniteSet(M)
      /\ \A m \in M : at[m.mod] = None \/ m.ver > at[m.mod]
  BY PendingAre
<1> HIDE DEF M, at
<1>2. SolvesRightly(at, M, Solve(at, M))
  BY <1>1, SolveIsRight
<1> QED
  BY <1>2 DEF at, M

LEMMA InitMigrations == Init => MigrationsInv
<1> SUFFICES ASSUME Init  PROVE  MigrationsInv
  OBVIOUS
<1>1. release \in Releases /\ graph \in Graphs /\ release \in Nat
  BY ConstantsAssumption DEF Init
<1>2. db \in Contents \cup {None}
  <2>1. \A r \in 1 .. release : r \in 0 .. release
    BY <1>1
  <2> QED
    BY <2>1 DEF Init, Contents
<1>3. TypeOK
  <2>1. <<>> \in Seq(Pending(Empty, release, graph))
    OBVIOUS
  <2>2. 0 \in 0 .. MaxFaults
    BY ConstantsAssumption
  <2> QED
    BY <1>1, <1>2, <2>1, <2>2 DEF Init, TypeOK
<1>4. db # Torn
  BY <1>2, <1>3, ContentsAre
<1> QED
  BY <1>3, <1>4, InitArchived DEF Init, MigrationsInv, Planned, ServesMigrated

LEMMA FaultTyped ==
    ASSUME faults \in 0 .. MaxFaults, Fault
    PROVE  faults' \in 0 .. MaxFaults
  BY ConstantsAssumption DEF Fault

\* Nothing but the migrations of a server and its organizer is ever planned for.
LEMMA SameMigrations ==
    ASSUME UNCHANGED progVars
    PROVE  /\ release' = release /\ graph' = graph
           /\ Contents' = Contents
           /\ Pending(Empty, release, graph)' = Pending(Empty, release, graph)
  BY DEF progVars, Contents

LEMMA MakesPlan ==
    ASSUME MigrationsInv, MakePlan
    PROVE  TypeOK' /\ Planned' /\ ServesMigrated'
<1> DEFINE M == Pending(db, release, graph)
           found == Solve(Versions(db), M)
<1>1. /\ pc = "plan" /\ db # Torn
      /\ UNCHANGED <<progVars, db, archiveVars, asked, unrestored, faults>>
      /\ IF M = {} THEN Serve /\ original' = None
         ELSE IF found = None THEN Fail /\ UNCHANGED original
         ELSE pc' = "backup" /\ plan' = found /\ UNCHANGED <<saved, original>>
  BY DEF MakePlan
<1>2. TypeOK /\ db \in Contents
  BY <1>1 DEF MigrationsInv, TypeOK, Planned
<1>3. /\ release' = release /\ graph' = graph /\ Contents' = Contents
      /\ Pending(Empty, release, graph)' = Pending(Empty, release, graph)
  BY <1>1, SameMigrations
<1>4. release \in Nat /\ graph \in Graphs /\ Within(db, release, graph)
  BY <1>2, ContentsAre
<1>5. db' = db /\ pc' \in {"serving", "down", "backup"}
      /\ (pc' = "serving" => M = {})
      /\ (pc' = "backup" => found # None /\ plan' = found)
      /\ (pc' # "backup" => plan' = <<>> /\ saved' = None)
      /\ (pc' = "backup" => saved' = saved)
      /\ original' \in {None, original}
      /\ (pc' # "serving" => original' = original)
  <2> HIDE DEF M, found
  <2> QED
    BY <1>1 DEF Serve, Fail
<1>6. M' = M
  BY <1>3, <1>5
<1>7. ASSUME pc' = "backup"
      PROVE  /\ plan' \in Seq(Pending(Empty, release, graph))
             /\ InTurn(Versions(db), plan')
             /\ UpToDate(Reached(Versions(db), plan'), release, graph)
  <2>1. SolvesRightly(Versions(db), M, found)
    BY <1>4, SolvedPending
  <2> DEFINE at == Versions(db)
  <2> HIDE DEF found, M, at
  <2>2. found \in GoodOrders(at, M)
    BY <1>5, <1>7, <2>1 DEF SolvesRightly, at
  <2>3. IsFiniteSet(M)
    BY <1>4, PendingAre DEF M
  <2>4. Good(at, M, found)
    BY <2>2, <2>3, GoodOrdersAre
  <2>5. /\ found \in Seq(Pending(Empty, release, graph))
        /\ InTurn(Versions(db), found)
        /\ UpToDate(Reached(Versions(db), found), release, graph)
    BY <1>4, <2>4, PlanLeads DEF M, at
  <2> QED
    BY <1>5, <1>7, <2>5
<1> HIDE DEF found
<1>8. TypeOK'
  <2>1. plan' \in Seq(Pending(Empty, release, graph))
    <3>1. <<>> \in Seq(Pending(Empty, release, graph))
      OBVIOUS
    <3> QED
      BY <1>5, <1>7, <3>1
  <2>2. db' \in Contents' /\ saved' \in Contents' \cup {None}
        /\ original' \in Contents' \cup {None} /\ UNCHANGED archiveVars
    BY <1>1, <1>2, <1>3, <1>5 DEF TypeOK
  <2>3. plan' \in Seq(Pending(Empty, release, graph)')
    BY <1>3, <2>1
  <2> QED
    BY <1>1, <1>2, <1>3, <1>5, <2>2, <2>3 DEF TypeOK, archiveVars
<1>9. Planned'
  <2>1. pc' = "backup" =>
            /\ db' \in Contents' /\ InTurn(Versions(db'), plan')
            /\ UpToDate(Reached(Versions(db'), plan'), release', graph')
    BY <1>2, <1>3, <1>5, <1>7
  <2>2. db' # None /\ db' # Torn
    BY <1>2, <1>5, ContentsAre
  <2>3. original # None
    BY <1>1 DEF MigrationsInv, Planned
  <2> QED
    BY <1>5, <2>1, <2>2, <2>3 DEF Planned
<1>10. ServesMigrated'
  BY <1>5, <1>6 DEF ServesMigrated
<1> QED
  BY <1>8, <1>9, <1>10
\* The head of a plan leads up from the database it is applied to, and the rest
\* of the plan from there.
LEMMA NextOfPlan ==
    ASSUME MigrationsInv, pc = "apply", plan # <<>>
    PROVE  /\ Migrated(db, Head(plan)) \in Contents
           /\ CanApply(Versions(db), Head(plan))
           /\ Versions(Migrated(db, Head(plan))).organizer >= Versions(db).organizer
           /\ Migrated(db, Head(plan)).server >= db.server
           /\ Tail(plan) \in Seq(Pending(Empty, release, graph))
           /\ InTurn(Versions(Migrated(db, Head(plan))), Tail(plan))
           /\ UpToDate(Reached(Versions(Migrated(db, Head(plan))), Tail(plan)),
                       release, graph)
<1> DEFINE M == Pending(Empty, release, graph)
           m == Head(plan)
           at == Versions(db)
<1>1. /\ TypeOK /\ db \in Contents /\ plan \in Seq(M)
      /\ InTurn(at, plan) /\ UpToDate(Reached(at, plan), release, graph)
  BY DEF MigrationsInv, TypeOK, Planned
<1>2. /\ release \in Nat /\ graph \in Graphs /\ Within(db, release, graph)
      /\ Within(Empty, release, graph)
  BY <1>1, ContentsAre
<1>3. M \in SUBSET Migrations
  BY <1>2, PendingAre
<1>4. at \in Ats
  BY <1>2, VersionsAre
<1> HIDE DEF M, at
<1>5. m \in M /\ Tail(plan) \in Seq(M) /\ plan \in Seq(Migrations)
  BY <1>1, <1>3
<1> HIDE DEF m
<1>6. /\ CanApply(at, m) /\ Rises(at, m)
      /\ InTurn(Upgraded(at, m), Tail(plan))
      /\ Reached(Upgraded(at, m), Tail(plan)) = Reached(at, plan)
  BY <1>1, <1>4, <1>5, RestInTurn DEF m
<1>7. /\ Within(Migrated(db, m), release, graph)
      /\ Versions(Migrated(db, m)) = Upgraded(at, m)
      /\ Migrated(db, m).server >= db.server
      /\ Versions(Migrated(db, m)).organizer >= Versions(db).organizer
  BY <1>2, <1>5, <1>6, MigratedIs DEF M, at
<1>8. Migrated(db, m) \in Contents
  BY <1>1, <1>7, ContentsAre
<1> QED
  BY <1>1, <1>5, <1>6, <1>7, <1>8 DEF m, M, at

LEMMA Applies ==
    ASSUME MigrationsInv, Apply
    PROVE  TypeOK' /\ Planned' /\ ServesMigrated'
<1>1. /\ pc = "apply" /\ plan # <<>> /\ TypeOK
      /\ db' = Migrated(db, Head(plan))
      /\ \/ plan' = Tail(plan) /\ UNCHANGED <<pc, faults>>
         \/ Fault /\ pc' = "restore" /\ UNCHANGED plan
      /\ UNCHANGED <<progVars, archiveVars, saved, asked, original, unrestored>>
  BY DEF Apply, MigrationsInv
<1>2. /\ release' = release /\ graph' = graph /\ Contents' = Contents
      /\ Pending(Empty, release, graph)' = Pending(Empty, release, graph)
  BY <1>1, SameMigrations
<1>3. /\ Migrated(db, Head(plan)) \in Contents
      /\ Tail(plan) \in Seq(Pending(Empty, release, graph))
      /\ InTurn(Versions(Migrated(db, Head(plan))), Tail(plan))
      /\ UpToDate(Reached(Versions(Migrated(db, Head(plan))), Tail(plan)),
                  release, graph)
  BY <1>1, NextOfPlan
<1>4. db' \in Contents'
  BY <1>1, <1>2, <1>3
<1>5. plan' \in Seq(Pending(Empty, release, graph)')
  BY <1>1, <1>2, <1>3 DEF TypeOK
<1>6. faults' \in 0 .. MaxFaults
  BY <1>1, FaultTyped DEF TypeOK
<1>7. TypeOK'
  BY <1>1, <1>2, <1>4, <1>5, <1>6 DEF TypeOK, archiveVars
<1>8. Planned'
  <2>1. db' # None
    BY <1>1, <1>2, <1>4, ContentsAre
  <2>0. original' # None
    BY <1>1 DEF MigrationsInv, Planned
  <2>2. CASE plan' = Tail(plan) /\ pc' = pc
    BY <1>1, <1>2, <1>3, <1>4, <2>0, <2>1, <2>2 DEF Planned
  <2>3. CASE pc' = "restore"
    BY <2>0, <2>1, <2>3 DEF Planned
  <2> QED
    BY <1>1, <2>2, <2>3
<1>9. ServesMigrated'
  BY <1>1 DEF ServesMigrated
<1> QED
  BY <1>7, <1>8, <1>9

LEMMA Verifies ==
    ASSUME MigrationsInv, Verify
    PROVE  TypeOK' /\ Planned' /\ ServesMigrated'
<1>1. /\ pc = "apply" /\ plan = <<>> /\ TypeOK /\ db \in Contents /\ original # None
      /\ UpToDate(Reached(Versions(db), plan), release, graph)
      /\ UNCHANGED <<progVars, db, archiveVars, asked, unrestored>>
      /\ \/ Serve /\ original' = None /\ UNCHANGED faults
         \/ Fault /\ pc' = "restore" /\ UNCHANGED <<plan, saved, original>>
  BY DEF Verify, MigrationsInv, Planned
<1>2. /\ release' = release /\ graph' = graph /\ Contents' = Contents
      /\ Pending(Empty, release, graph)' = Pending(Empty, release, graph)
  BY <1>1, SameMigrations
<1>3. release \in Nat /\ graph \in Graphs /\ Within(db, release, graph) /\ db # None
      /\ db # Torn
  BY <1>1, ContentsAre
<1>4. Pending(db, release, graph) = {}
  <2>1. Versions(db) \in Ats
    BY <1>3, VersionsAre
  <2>2. <<>> \in Seq(Migrations)
    OBVIOUS
  <2>3. Reached(Versions(db), <<>>) = Versions(db)
    BY <2>1, <2>2, ReachedNext
  <2> QED
    BY <1>1, <1>3, <2>3, UpToDateIs
<1>5. /\ pc' \in {"serving", "restore"} /\ plan' = <<>>
      /\ saved' \in {None, saved} /\ original' \in {None, original}
      /\ (pc' = "restore" => original' # None)
  BY <1>1 DEF Serve
<1>6. faults' \in 0 .. MaxFaults
  BY <1>1, FaultTyped DEF TypeOK
<1>7. TypeOK'
  <2>1. plan' \in Seq(Pending(Empty, release, graph)')
    BY <1>5
  <2> QED
    BY <1>1, <1>2, <1>5, <1>6, <2>1 DEF TypeOK, archiveVars
<1>8. Planned'
  BY <1>1, <1>3, <1>5 DEF Planned
<1>9. ServesMigrated'
  <2>1. Pending(db, release, graph)' = Pending(db, release, graph)
    BY <1>1, <1>2
  <2> QED
    BY <1>4, <2>1 DEF ServesMigrated
<1> QED
  BY <1>7, <1>8, <1>9

LEMMA BacksUp ==
    ASSUME MigrationsInv, BackUp \/ WriteBackUp
    PROVE  TypeOK' /\ Planned' /\ ServesMigrated'
<1>1. /\ pc \in {"backup", "archive"} /\ TypeOK /\ Planned
      /\ UNCHANGED <<progVars, db, asked, original, unrestored>>
  BY DEF BackUp, WriteBackUp, MigrationsInv
<1>2. /\ release' = release /\ graph' = graph /\ Contents' = Contents
      /\ Pending(Empty, release, graph)' = Pending(Empty, release, graph)
  BY <1>1, SameMigrations
<1>3. /\ db \in Contents /\ InTurn(Versions(db), plan)
      /\ UpToDate(Reached(Versions(db), plan), release, graph)
      /\ db # None /\ original # None
  BY <1>1 DEF Planned
<1>4. /\ plan' \in {<<>>, plan} /\ (Fault \/ UNCHANGED faults)
      /\ \/ pc' = "archive" /\ plan' = plan /\ saved' = saved /\ newest' = Torn
         \/ pc' = "apply" /\ plan' = plan /\ saved' = db
         \/ pc' = "down" /\ saved' = None
  BY DEF BackUp, WriteBackUp, Fail
<1>5. /\ backups' \subseteq Contents /\ newest' \in Contents \cup {None, Torn}
      /\ replaced' \subseteq Contents
  <2>1. /\ backups \subseteq Contents /\ newest \in Contents \cup {None, Torn}
        /\ replaced \subseteq Contents
    BY <1>1 DEF TypeOK
  <2>2. CASE BackUp
    BY <1>3, <2>1, <2>2 DEF BackUp
  <2>3. CASE WriteBackUp
    BY <1>3, <2>1, <2>3 DEF WriteBackUp, Archived
  <2> QED
    BY <2>2, <2>3
<1>6. faults' \in 0 .. MaxFaults
  BY <1>1, <1>4, FaultTyped DEF TypeOK
<1>7. TypeOK'
  <2>1. plan' \in Seq(Pending(Empty, release, graph)')
    <3>1. <<>> \in Seq(Pending(Empty, release, graph)')
      OBVIOUS
    <3> QED
      BY <1>1, <1>2, <1>4, <3>1 DEF TypeOK
  <2> QED
    BY <1>1, <1>2, <1>3, <1>4, <1>5, <1>6, <2>1 DEF TypeOK
<1>8. Planned'
  BY <1>1, <1>2, <1>3, <1>4 DEF Planned
<1>9. ServesMigrated'
  BY <1>4 DEF ServesMigrated
<1> QED
  BY <1>7, <1>8, <1>9

LEMMA Starts ==
    ASSUME MigrationsInv, NEW migrate \in BOOLEAN, Start(migrate)
    PROVE  TypeOK' /\ Planned' /\ ServesMigrated'
<1>1. /\ TypeOK /\ Planned /\ asked' \in BOOLEAN
      /\ pc' = IF asked' THEN "plan" ELSE "serving"
      /\ db' = IF db = None THEN Empty ELSE db
      /\ original' = IF asked' /\ original = None THEN db' ELSE original
      /\ (db = None => asked')
      /\ unrestored' \in BOOLEAN
      /\ UNCHANGED <<progVars, archiveVars, plan, saved, faults>>
  BY DEF Start, MigrationsInv
<1>2. /\ release' = release /\ graph' = graph /\ Contents' = Contents
      /\ Pending(Empty, release, graph)' = Pending(Empty, release, graph)
  BY <1>1, SameMigrations
<1>3. Empty \in Contents /\ None \notin Contents /\ Torn # None /\ Torn \notin Contents
  BY <1>1, ContentsAre
<1>4. db' \in Contents \cup {Torn} /\ db' # None
  BY <1>1, <1>3 DEF TypeOK
<1>5. original' \in Contents \cup {None} /\ (asked' \/ db' = Torn => original' # None)
  <2>1. db' = Torn => db = Torn
    BY <1>1, <1>3
  <2>2. db = Torn => original # None
    BY <1>1 DEF Planned
  <2>3. original \in Contents \cup {None}
    BY <1>1 DEF TypeOK
  <2> QED
    BY <1>1, <1>4, <2>1, <2>2, <2>3
<1>6. TypeOK'
  BY <1>1, <1>2, <1>4, <1>5 DEF TypeOK, archiveVars
<1>7. Planned'
  BY <1>1, <1>4, <1>5 DEF Planned
<1>8. ServesMigrated'
  BY <1>1 DEF ServesMigrated
<1> QED
  BY <1>6, <1>7, <1>8

LEMMA Restores ==
    ASSUME MigrationsInv, Overwrite \/ Unpack
    PROVE  TypeOK' /\ Planned' /\ ServesMigrated'
<1>1. /\ TypeOK /\ Planned /\ ArchivedBefore /\ pc \in {"restore", "unpack"}
      /\ UNCHANGED <<progVars, archiveVars, asked, original>>
      /\ unrestored' \in BOOLEAN /\ (Fault \/ UNCHANGED faults)
      /\ \/ db' = Torn /\ pc' = "unpack" /\ UNCHANGED <<plan, saved>>
         \/ db' \in {saved, db} /\ pc' = "down" /\ plan' = <<>> /\ saved' = None
  BY DEF Overwrite, Unpack, Fail, MigrationsInv, TypeOK
<1>2. /\ release' = release /\ graph' = graph /\ Contents' = Contents
      /\ Pending(Empty, release, graph)' = Pending(Empty, release, graph)
  BY <1>1, SameMigrations
<1>3. saved \in Contents /\ original # None /\ db # None
  BY <1>1 DEF ArchivedBefore, TypeOK, Planned
<1>4. Torn # None /\ None \notin Contents /\ faults' \in 0 .. MaxFaults
  BY <1>1, ContentsAre, FaultTyped DEF TypeOK
<1>5. TypeOK'
  <2>1. plan' \in Seq(Pending(Empty, release, graph)')
    <3>1. <<>> \in Seq(Pending(Empty, release, graph)')
      OBVIOUS
    <3> QED
      BY <1>1, <1>2, <3>1 DEF TypeOK
  <2> QED
    BY <1>1, <1>2, <1>3, <1>4, <2>1 DEF TypeOK, archiveVars
<1>6. Planned'
  BY <1>1, <1>3, <1>4 DEF Planned
<1>7. ServesMigrated'
  BY <1>1 DEF ServesMigrated
<1> QED
  BY <1>5, <1>6, <1>7

LEMMA Ends ==
    ASSUME MigrationsInv, PlanFails \/ ApplyFails \/ Crash \/ Stop
    PROVE  TypeOK' /\ Planned' /\ ServesMigrated'
<1>1. /\ TypeOK /\ Planned
      /\ UNCHANGED <<progVars, db, archiveVars, asked, original>>
      /\ unrestored' \in BOOLEAN
      /\ Fault \/ UNCHANGED faults
      /\ \/ pc' = "down" /\ plan' = <<>> /\ saved' = None
         \/ pc = "apply" /\ pc' = "restore" /\ UNCHANGED <<plan, saved>>
  BY DEF PlanFails, ApplyFails, Crash, Stop, Fail, MigrationsInv, TypeOK
<1>2. /\ release' = release /\ graph' = graph /\ Contents' = Contents
      /\ Pending(Empty, release, graph)' = Pending(Empty, release, graph)
  BY <1>1, SameMigrations
<1>3. faults' \in 0 .. MaxFaults
  BY <1>1, FaultTyped DEF TypeOK
<1>4. TypeOK'
  <2>1. plan' \in Seq(Pending(Empty, release, graph)')
    <3>1. <<>> \in Seq(Pending(Empty, release, graph)')
      OBVIOUS
    <3> QED
      BY <1>1, <1>2, <3>1 DEF TypeOK
  <2> QED
    BY <1>1, <1>2, <1>3, <2>1 DEF TypeOK, archiveVars
<1>5. Planned'
  BY <1>1 DEF Planned
<1>6. ServesMigrated'
  BY <1>1 DEF ServesMigrated
<1> QED
  BY <1>4, <1>5, <1>6

LEMMA Ticks ==
    ASSUME MigrationsInv, Tick
    PROVE  TypeOK' /\ Planned' /\ ServesMigrated'
<1>1. /\ TypeOK /\ Planned /\ ServesMigrated /\ newest' = None
      /\ backups' \subseteq backups \cup ({newest} \ {None, Torn})
      /\ UNCHANGED <<progVars, db, replaced, pc, plan, saved, asked, original,
                     unrestored, faults>>
  BY DEF Tick, MigrationsInv
<1>2. /\ release' = release /\ graph' = graph /\ Contents' = Contents
      /\ Pending(Empty, release, graph)' = Pending(Empty, release, graph)
      /\ Pending(db, release, graph)' = Pending(db, release, graph)
  BY <1>1, SameMigrations
<1>3. TypeOK'
  BY <1>1, <1>2 DEF TypeOK
<1>4. Planned'
  BY <1>1, <1>2 DEF Planned
<1>5. ServesMigrated'
  BY <1>1, <1>2 DEF ServesMigrated
<1> QED
  BY <1>3, <1>4, <1>5

\* No step takes the original away from where it is kept.
LEMMA NextArchived == MigrationsInv /\ [Next]_vars => ArchivedBefore'
<1> SUFFICES ASSUME MigrationsInv, [Next]_vars
             PROVE  ArchivedBefore'
  OBVIOUS
<1>0. /\ ArchivedBefore /\ (pc # "down" => db # None)
      /\ original # Torn /\ saved # Torn /\ None # Torn
  BY ContentsAre DEF MigrationsInv, Planned, TypeOK
<1> USE DEF ArchivedBefore, OriginalIsKept
<1>1. ASSUME NEW migrate \in BOOLEAN, Start(migrate)
      PROVE  ArchivedBefore'
  BY <1>0, <1>1 DEF Start, archiveVars
<1>2. CASE PlanFails
  BY <1>0, <1>2 DEF PlanFails, Fail, archiveVars
<1>3. CASE MakePlan
  <2> DEFINE migrations == Pending(db, release, graph)
             found == Solve(Versions(db), migrations)
  <2>1. /\ UNCHANGED <<db, archiveVars>>
        /\ pc' \in {"down", "backup", "serving"}
        /\ original' = None \/ original' = original
    <3> HIDE DEF migrations, found
    <3>1. /\ UNCHANGED <<db, archiveVars>>
          /\ IF migrations = {} THEN Serve /\ original' = None
             ELSE IF found = None THEN Fail /\ UNCHANGED original
             ELSE pc' = "backup" /\ UNCHANGED original
      BY <1>3 DEF MakePlan, migrations, found
    <3> QED
      BY <3>1 DEF Serve, Fail
  <2> QED
    BY <1>0, <2>1 DEF archiveVars
<1>4. CASE BackUp
  BY <1>0, <1>4 DEF BackUp, Fail
<1>5. CASE WriteBackUp
  <2>1. /\ pc = "archive" /\ pc' \in {"apply", "down"}
        /\ UNCHANGED <<db, replaced, original>>
        /\ pc' = "apply" => saved' = db /\ Archived
        /\ Archived \/ UNCHANGED <<backups, newest>>
    BY <1>5 DEF WriteBackUp, Fail
  <2>2. newest \in {None, Torn}
    BY <1>5 DEF MigrationsInv, Planned, WriteBackUp
  <2>3. Archived => /\ db \in backups' \cup {newest'}
                    /\ original \in backups => original \in backups'
    BY DEF Archived
  <2>4. original # None /\ original \in backups \cup {newest}
            => original \in backups
    BY <1>0, <2>2
  <2>5. CASE Archived
    BY <1>0, <2>1, <2>3, <2>4, <2>5
  <2>6. CASE pc' = "down" /\ UNCHANGED <<backups, newest>>
    BY <1>0, <2>1, <2>6
  <2> QED
    BY <2>1, <2>5, <2>6
<1>6. CASE Apply \/ ApplyFails
  BY <1>0, <1>6 DEF Apply, ApplyFails, archiveVars
<1>7. CASE Verify
  BY <1>0, <1>7 DEF Verify, Serve, archiveVars
<1>8. CASE Overwrite \/ Unpack
  BY <1>0, <1>8 DEF Overwrite, Unpack, Fail, archiveVars
<1>9. CASE Tick
  BY <1>0, <1>9 DEF Tick
<1>10. CASE Crash \/ Stop
  BY <1>0, <1>10 DEF Crash, Stop, Fail, archiveVars
<1>11. CASE UNCHANGED vars
  BY <1>0, <1>11 DEF vars, archiveVars
<1> QED
  BY <1>1, <1>2, <1>3, <1>4, <1>5, <1>6, <1>7, <1>8, <1>9, <1>10, <1>11
     DEF Next, Migrating

LEMMA NextMigrations == MigrationsInv /\ [Next]_vars => MigrationsInv'
<1> SUFFICES ASSUME MigrationsInv, [Next]_vars
             PROVE  MigrationsInv'
  OBVIOUS
<1>1. ArchivedBefore'
  BY NextArchived DEF MigrationsInv
<1>2. TypeOK' /\ Planned' /\ ServesMigrated'
  <2>1. ASSUME NEW migrate \in BOOLEAN, Start(migrate)
        PROVE  TypeOK' /\ Planned' /\ ServesMigrated'
    BY <2>1, Starts
  <2>2. CASE PlanFails \/ ApplyFails \/ Crash \/ Stop
    BY <2>2, Ends
  <2>3. CASE MakePlan
    BY <2>3, MakesPlan
  <2>4. CASE BackUp \/ WriteBackUp
    BY <2>4, BacksUp
  <2>5. CASE Apply
    BY <2>5, Applies
  <2>6. CASE Verify
    BY <2>6, Verifies
  <2>7. CASE Overwrite \/ Unpack
    BY <2>7, Restores
  <2>8. CASE Tick
    BY <2>8, Ticks
  <2>9. CASE UNCHANGED vars
    <3>1. Pending(db, release, graph)' = Pending(db, release, graph)
      BY <2>9 DEF vars, progVars
    <3>2. TypeOK'
      BY <2>9 DEF MigrationsInv, TypeOK, Contents, vars, progVars, archiveVars
    <3>3. Planned'
      BY <2>9 DEF MigrationsInv, Planned, Contents, vars, progVars, archiveVars
    <3>4. ServesMigrated'
      BY <2>9, <3>1 DEF MigrationsInv, ServesMigrated, vars
    <3> QED
      BY <3>2, <3>3, <3>4
  <2> QED
    BY <2>1, <2>2, <2>3, <2>4, <2>5, <2>6, <2>7, <2>8, <2>9 DEF Next, Migrating
<1> QED
  BY <1>1, <1>2 DEF MigrationsInv

LEMMA InvariantMigrations == Spec => []MigrationsInv
  BY InitMigrations, NextMigrations, PTL DEF Spec

\* Every variable keeps its type: what is planned are migrations of the installed
\* server and organizer, and what is archived, saved or restored is a whole database.
THEOREM TypeCorrect == Spec => []TypeOK
<1>1. MigrationsInv => TypeOK
  BY DEF MigrationsInv
<1> QED
  BY InvariantMigrations, <1>1, PTL

\* The content from before the first attempt at migrating is in the file or in an
\* archive, or in one truncated by a later start within the same second
\* (backup_sqlite_database, restore_sqlite_database, migrate_db).
THEOREM OriginalKept == Spec => []OriginalIsKept
<1>1. MigrationsInv => OriginalIsKept
  BY DEF MigrationsInv, ArchivedBefore
<1> QED
  BY InvariantMigrations, <1>1, PTL

LEMMA NextFromOriginal ==
    WorksFromOriginal /\ [Next]_vars => WorksFromOriginal'
<1> SUFFICES ASSUME WorksFromOriginal, [Next]_vars
             PROVE  WorksFromOriginal'
  OBVIOUS
<1> USE DEF WorksFromOriginal
<1>1. ASSUME NEW migrate \in BOOLEAN, Start(migrate)
      PROVE  WorksFromOriginal'
  BY <1>1 DEF Start
<1>2. CASE PlanFails
  BY <1>2 DEF PlanFails, Fail
<1>3. CASE MakePlan
  <2> DEFINE migrations == Pending(db, release, graph)
             found == Solve(Versions(db), migrations)
  <2> HIDE DEF migrations, found
  <2>1. /\ UNCHANGED <<db, unrestored>> /\ pc = "plan"
        /\ IF migrations = {} THEN Serve /\ original' = None
           ELSE IF found = None THEN Fail /\ UNCHANGED original
           ELSE pc' = "backup" /\ UNCHANGED original
    BY <1>3 DEF MakePlan, migrations, found
  <2> QED
    BY <2>1 DEF Serve, Fail
<1>4. CASE BackUp \/ WriteBackUp \/ Tick
  BY <1>4 DEF BackUp, WriteBackUp, Tick, Fail
<1>5. CASE Apply \/ ApplyFails
  BY <1>5 DEF Apply, ApplyFails
<1>6. CASE Verify
  BY <1>6 DEF Verify, Serve
<1>7. CASE Overwrite \/ Unpack
  BY <1>7 DEF Overwrite, Unpack, Fail
<1>8. CASE Crash \/ Stop
  BY <1>8 DEF Crash, Stop, Fail
<1>9. CASE UNCHANGED vars
  BY <1>9 DEF vars
<1> QED
  BY <1>1, <1>2, <1>3, <1>4, <1>5, <1>6, <1>7, <1>8, <1>9 DEF Next, Migrating

\* Whatever step of migrating fails, and in however many starts, the database is left
\* migrated or as it was, unless a crash or a failure keeps the backup from being
\* restored (migrate_db, restore_sqlite_database).
THEOREM RollsBack == Spec => []AllOrNothing
<1>1. Init => WorksFromOriginal
  BY DEF Init, WorksFromOriginal
<1>2. WorksFromOriginal => AllOrNothing
  BY DEF WorksFromOriginal, AllOrNothing
<1> QED
  BY <1>1, NextFromOriginal, <1>2, PTL DEF Spec

\* A server that was to migrate serves the latest version of both modules, whatever
\* failed or crashed before (migrate_db in lib.rs, the search in migration_solver.rs).
THEOREM MigratedWhenServing == Spec => []ServesMigrated
<1>1. MigrationsInv => ServesMigrated
  BY DEF MigrationsInv
<1> QED
  BY InvariantMigrations, <1>1, PTL

\* The search finds an order whenever there is one, and a shortest: for any graph of
\* migrations and any database (solve_migration_graph, depth_first_search).
THEOREM ShortestOrderFound == Spec => []SolverIsRight
<1>1. MigrationsInv => SolverIsRight
  <2> SUFFICES ASSUME MigrationsInv, pc = "plan", db # Torn
               PROVE  SolvesRightly(Versions(db), Pending(db, release, graph),
                          Solve(Versions(db), Pending(db, release, graph)))
    BY DEF SolverIsRight, SolvesRightly
  <2>1. TypeOK /\ db \in Contents
    BY DEF MigrationsInv, TypeOK, Planned
  <2> QED
    BY <2>1, ContentsAre, SolvedPending
<1> QED
  BY InvariantMigrations, <1>1, PTL

\* No migration meets a database that lacks what it depends on, and no module goes
\* back to an older version but by restoring the backup (migrate_db).
THEOREM InOrder == Spec => AppliedInOrder
<1>1. MigrationsInv /\ [Next]_vars =>
          ((pc = "apply" /\ db' # db)
              => (/\ CanApply(Versions(db), Head(plan))
                  /\ Versions(db').organizer >= Versions(db).organizer
                  /\ db'.server >= db.server))
  <2> SUFFICES ASSUME MigrationsInv, [Next]_vars, pc = "apply", db' # db
               PROVE  /\ CanApply(Versions(db), Head(plan))
                      /\ Versions(db').organizer >= Versions(db).organizer
                      /\ db'.server >= db.server
    OBVIOUS
  <2>1. plan # <<>> /\ db' = Migrated(db, Head(plan))
    BY DEF Next, Migrating, Start, PlanFails, MakePlan, BackUp, WriteBackUp, Apply,
           ApplyFails, Verify, Overwrite, Unpack, Tick, Crash, Stop, vars
  <2> QED
    BY <2>1, NextOfPlan
<1> QED
  BY InvariantMigrations, <1>1, PTL DEF Spec, AppliedInOrder
=============================================================================
