--------------------------- MODULE FoldersProofs ---------------------------
(***************************************************************************)
(* Proofs about Folders, for any users, files, databases and numbers of    *)
(* commands.                                                               *)
(***************************************************************************)
EXTENDS Folders, Inductions

\* What following parents needs: a parent is a folder.
Closed(d) ==
    /\ IsFiniteSet(DOMAIN d.folders) /\ None \notin DOMAIN d.folders
    /\ \A f \in DOMAIN d.folders : Parent(d, f) \in DOMAIN d.folders \cup {None}

\* What Typed says, row by row, and that the tables are functions.
Tabular(d) ==
    d = [users |-> d.users,
         folders |-> [f \in DOMAIN d.folders |-> d.folders[f]],
         files |-> [m \in DOMAIN d.files |-> d.files[m]],
         next |-> d.next]

TypedRows(d) ==
    /\ d.users \subseteq Users
    /\ d.next \in Nat \ {0} /\ DOMAIN d.folders \subseteq 1 .. d.next - 1
    /\ \A f \in DOMAIN d.folders :
        d.folders[f] \in [owner : d.users, parent : DOMAIN d.folders \cup {None}]
    /\ DOMAIN d.files \subseteq Files
    /\ \A m \in DOMAIN d.files :
        d.files[m] \in [owner : d.users, folder : DOMAIN d.folders \cup {None}]

Sound(d) == Typed(d) /\ Agreeing(d)

-----------------------------------------------------------------------------
(* Ancestors.                                                              *)

\* One step up from each of fs.
Up(d, fs) == fs \cup ({Parent(d, g) : g \in fs} \ {None})

Ups(up, d, f) ==
    up = [n \in Nat |-> IF n = 0 THEN {f}
                        ELSE LET fs == up[n - 1] IN
                             fs \cup ({Parent(d, g) : g \in fs} \ {None})]

LEMMA UpTyped ==
    ASSUME NEW d, Closed(d), NEW fs \in SUBSET DOMAIN d.folders
    PROVE  Up(d, fs) \in SUBSET DOMAIN d.folders
  BY DEF Up, Closed

\* The recursion of Above is defined: it is that of its steps.
LEMMA AboveUps ==
    ASSUME NEW d, Closed(d), NEW f \in DOMAIN d.folders
    PROVE  \E up \in [Nat -> SUBSET DOMAIN d.folders] :
               /\ up[0] = {f}
               /\ \A n \in Nat : up[n + 1] = Up(d, up[n])
               /\ Above(d, f) = up[Cardinality(DOMAIN d.folders)]
<1> DEFINE D == SUBSET DOMAIN d.folders
           F == [fs \in D |-> Up(d, fs)]
           h == CHOOSE up : Ups(up, d, f)
<1>1. F \in [D -> D]
  BY UpTyped
<1>2. PICK g \in [Nat -> D] : g[0] = {f} /\ \A n \in Nat : g[n + 1] = F[g[n]]
  <2>1. {f} \in D
    OBVIOUS
  <2> HIDE DEF D, F
  <2> QED
    BY <1>1, <2>1, NatRecursion
<1>3. \A n \in Nat : g[n + 1] = Up(d, g[n])
  BY <1>2
<1>4. Ups(g, d, f)
  <2>1. ASSUME NEW n \in Nat
        PROVE  g[n] = IF n = 0 THEN {f}
                      ELSE LET fs == g[n - 1] IN
                           fs \cup ({Parent(d, e) : e \in fs} \ {None})
    <3>1. CASE n = 0
      BY <1>2, <3>1
    <3>2. CASE n # 0
      <4>1. n - 1 \in Nat /\ (n - 1) + 1 = n
        BY <3>2
      <4>2. g[n] = Up(d, g[n - 1])
        BY <4>1, <1>3
      <4> QED
        BY <3>2, <4>2 DEF Up
    <3> QED
      BY <3>1, <3>2
  <2> QED
    BY <2>1 DEF Ups
<1>5. Ups(h, d, f)
  <2> HIDE DEF Ups
  <2> QED
    BY <1>4
<1>6. Above(d, f) = h[Cardinality(DOMAIN d.folders)]
  BY DEF Above, Ups
<1>7. h[0] = {f} /\ \A n \in Nat : h[n + 1] = Up(d, h[n])
  <2> HIDE DEF h
  <2>1. h[0] = {f}
    BY <1>5 DEF Ups
  <2>2. ASSUME NEW n \in Nat  PROVE  h[n + 1] = Up(d, h[n])
    <3>1. n + 1 \in Nat /\ n + 1 # 0 /\ (n + 1) - 1 = n
      OBVIOUS
    <3> QED
      BY <3>1, <1>5 DEF Ups, Up
  <2> QED
    BY <2>1, <2>2
<1>8. h \in [Nat -> D]
  <2> DEFINE C == {n \in Nat : h[n] \in D}
  <2> HIDE DEF h
  <2>1. 0 \in C
    BY <1>7
  <2>2. ASSUME NEW n \in Nat, n \in C  PROVE  n + 1 \in C
    BY <2>2, <1>7, UpTyped
  <2>3. Nat \subseteq C
    <3> HIDE DEF C
    <3> QED
      BY <2>1, <2>2, NatSetInduction
  <2>4. h = [n \in Nat |-> h[n]]
    BY <1>5 DEF Ups
  <2> QED
    BY <2>3, <2>4
<1> QED
  BY <1>6, <1>7, <1>8

\* Above: the folder and all folders it lies in, and no others.
LEMMA AboveClosed ==
    ASSUME NEW d, Closed(d), NEW f \in DOMAIN d.folders
    PROVE  /\ f \in Above(d, f)
           /\ Above(d, f) \subseteq DOMAIN d.folders
           /\ \A g \in Above(d, f) :
                  Parent(d, g) # None => Parent(d, g) \in Above(d, f)
<1> DEFINE D == DOMAIN d.folders
<1>1. PICK up \in [Nat -> SUBSET D] :
          /\ up[0] = {f}
          /\ \A n \in Nat : up[n + 1] = Up(d, up[n])
          /\ Above(d, f) = up[Cardinality(D)]
  BY AboveUps
<1>2. Cardinality(D) \in Nat
  BY FS_CardinalityType DEF Closed
<1>3. \A n \in Nat : up[n] \in SUBSET D /\ IsFiniteSet(up[n]) /\ Cardinality(up[n]) \in Nat
    <2> SUFFICES ASSUME NEW n \in Nat
                 PROVE  up[n] \in SUBSET D /\ IsFiniteSet(up[n]) /\ Cardinality(up[n]) \in Nat
      OBVIOUS
    <2>1. up[n] \in SUBSET D
      BY <1>1
    <2>2. IsFiniteSet(up[n])
      BY <2>1, FS_Subset DEF Closed
    <2> QED
      BY <2>1, <2>2, FS_CardinalityType
<1>4. \A n \in Nat : f \in up[n] /\ (up[n + 1] = up[n] \/ Cardinality(up[n]) > n)
  <2> DEFINE C == {n \in Nat : f \in up[n] /\ (up[n + 1] = up[n] \/ Cardinality(up[n]) > n)}
  <2>1. 0 \in C
    <3>1. Cardinality({f}) = 1
      BY FS_Singleton
    <3>2. Cardinality(up[0]) > 0
      BY <3>1, <1>1
    <3> QED
      BY <3>2, <1>1
  <2>2. ASSUME NEW n \in Nat, n \in C  PROVE  n + 1 \in C
    <3>1. n + 1 \in Nat /\ f \in up[n]
      BY <2>2
    <3>2. up[n + 1] = Up(d, up[n]) /\ up[(n + 1) + 1] = Up(d, up[n + 1])
      BY <1>1, <3>1
    <3>3. up[n] \subseteq up[n + 1] /\ f \in up[n + 1]
      BY <3>1, <3>2 DEF Up
    <3>4. CASE up[n + 1] = up[n]
      BY <3>1, <3>2, <3>3, <3>4
    <3>5. CASE up[n + 1] # up[n] /\ Cardinality(up[n]) > n
      <4>1. IsFiniteSet(up[n + 1]) /\ up[n] \in SUBSET up[n + 1]
        BY <3>1, <3>3, <1>3
      <4>2. Cardinality(up[n]) <= Cardinality(up[n + 1])
            /\ Cardinality(up[n]) # Cardinality(up[n + 1])
        BY <4>1, <3>5, FS_Subset
      <4>3. Cardinality(up[n]) \in Nat /\ Cardinality(up[n + 1]) \in Nat
        BY <3>1, <1>3
      <4>4. Cardinality(up[n + 1]) > n + 1
        BY <4>2, <4>3, <3>5
      <4> QED
        BY <3>1, <3>3, <4>4
    <3> QED
      BY <2>2, <3>4, <3>5
  <2>3. Nat \subseteq C
    <3> HIDE DEF C
    <3> QED
      BY <2>1, <2>2, NatSetInduction
  <2> QED
    BY <2>3
<1> DEFINE n == Cardinality(D)
<1>5. up[n + 1] = up[n]
  <2>1. Cardinality(up[n]) <= n
    BY <1>2, <1>3, FS_Subset DEF Closed
  <2>2. n \in Nat /\ Cardinality(up[n]) \in Nat
    BY <1>2, <1>3
  <2> HIDE DEF n
  <2> QED
    BY <1>4, <2>1, <2>2
<1>6. Up(d, up[n]) = up[n]
  BY <1>1, <1>2, <1>5
<1>7. up[n] \in SUBSET D /\ f \in up[n]
  BY <1>2, <1>3, <1>4
<1> QED
  BY <1>1, <1>6, <1>7 DEF Up

LEMMA AboveLeast ==
    ASSUME NEW d, Closed(d), NEW f \in DOMAIN d.folders, NEW S, f \in S,
           \A g \in S \cap DOMAIN d.folders :
               Parent(d, g) # None => Parent(d, g) \in S
    PROVE  Above(d, f) \subseteq S
<1>1. PICK up \in [Nat -> SUBSET DOMAIN d.folders] :
          /\ up[0] = {f}
          /\ \A n \in Nat : up[n + 1] = Up(d, up[n])
          /\ Above(d, f) = up[Cardinality(DOMAIN d.folders)]
  BY AboveUps
<1> DEFINE C == {n \in Nat : up[n] \subseteq S}
<1>2. 0 \in C
  BY <1>1
<1>3. ASSUME NEW n \in Nat, n \in C  PROVE  n + 1 \in C
  <2>1. up[n] \subseteq S /\ up[n] \subseteq DOMAIN d.folders
    BY <1>1, <1>3
  <2>2. Up(d, up[n]) \subseteq S
    BY <2>1 DEF Up
  <2> QED
    BY <1>1, <2>2
<1>4. Nat \subseteq C
  <2> HIDE DEF C
  <2> QED
    BY <1>2, <1>3, NatSetInduction
<1> QED
  BY <1>1, <1>4, FS_CardinalityType DEF Closed

\* What lies in a folder below f is below f, and all else below f lies in one.
LEMMA BelowClosed ==
    ASSUME NEW d, Closed(d), NEW f \in DOMAIN d.folders
    PROVE  /\ f \in Below(d, f)
           /\ Below(d, f) \subseteq DOMAIN d.folders
           /\ \A g \in DOMAIN d.folders :
                  Parent(d, g) # None /\ Parent(d, g) \in Below(d, f) => g \in Below(d, f)
           /\ \A g \in Below(d, f) \ {f} :
                  Parent(d, g) # None /\ Parent(d, g) \in Below(d, f)
<1>1. f \in Below(d, f)
  BY AboveClosed DEF Below
<1>2. ASSUME NEW g \in DOMAIN d.folders, Parent(d, g) # None
      PROVE  /\ Parent(d, g) \in DOMAIN d.folders
             /\ Above(d, Parent(d, g)) \subseteq Above(d, g)
  <2>1. Parent(d, g) \in DOMAIN d.folders
    BY <1>2 DEF Closed
  <2>2. Parent(d, g) \in Above(d, g)
    BY <1>2, AboveClosed
  <2> QED
    BY <2>1, <2>2, AboveClosed, AboveLeast
<1>3. ASSUME NEW g \in DOMAIN d.folders, f \in Above(d, g), g # f
      PROVE  Parent(d, g) # None /\ f \in Above(d, Parent(d, g))
  <2>1. CASE Parent(d, g) = None
    <3>1. Above(d, g) \subseteq {g}
      BY <2>1, AboveLeast
    <3> QED
      BY <3>1, <1>3
  <2>2. CASE Parent(d, g) # None
    <3> DEFINE p == Parent(d, g)
               S == {g} \cup Above(d, p)
    <3>1. p \in DOMAIN d.folders
      BY <2>2, <1>2
    <3>2. p \in Above(d, p) /\ \A h \in Above(d, p) : Parent(d, h) # None => Parent(d, h) \in Above(d, p)
      BY <3>1, AboveClosed
    <3>3. \A h \in S \cap DOMAIN d.folders : Parent(d, h) # None => Parent(d, h) \in S
      BY <3>2
    <3>4. Above(d, g) \subseteq S
      <4>1. g \in S
        OBVIOUS
      <4> HIDE DEF S
      <4> QED
        BY <4>1, <3>3, AboveLeast
    <3> QED
      BY <2>2, <3>4, <1>3
  <2> QED
    BY <2>1, <2>2
<1> QED
  BY <1>1, <1>2, <1>3 DEF Below

-----------------------------------------------------------------------------
(* Operations on databases.                                                *)

LEMMA TypedAs ==
    ASSUME NEW d
    PROVE  Typed(d) <=> Tabular(d) /\ TypedRows(d)
<1>1. ASSUME Typed(d)  PROVE  Tabular(d) /\ TypedRows(d)
  <2> DEFINE fs == DOMAIN d.folders
             ms == DOMAIN d.files
  <2>1. d \in [users : SUBSET Users,
              folders : [fs -> [owner : d.users, parent : fs \cup {None}]],
              files : [ms -> [owner : d.users, folder : fs \cup {None}]],
              next : Nat \ {0}]
    BY <1>1 DEF Typed
  <2>2. TypedRows(d)
    BY <1>1, <2>1 DEF Typed, TypedRows
  <2>3. d = [users |-> d.users, folders |-> d.folders, files |-> d.files, next |-> d.next]
    BY <2>1
  <2>4. d.folders = [f \in DOMAIN d.folders |-> d.folders[f]]
        /\ d.files = [m \in DOMAIN d.files |-> d.files[m]]
    BY <2>1
  <2> QED
    BY <2>2, <2>3, <2>4 DEF Tabular
<1>2. ASSUME Tabular(d), TypedRows(d)  PROVE  Typed(d)
  <2> DEFINE fs == DOMAIN d.folders
             ms == DOMAIN d.files
  <2>1. d.folders = [f \in fs |-> d.folders[f]] /\ d.files = [m \in ms |-> d.files[m]]
        /\ d = [users |-> d.users, folders |-> d.folders, files |-> d.files, next |-> d.next]
    BY <1>2 DEF Tabular
  <2>2. d.folders \in [fs -> [owner : d.users, parent : fs \cup {None}]]
    BY <1>2, <2>1 DEF TypedRows
  <2>3. d.files \in [ms -> [owner : d.users, folder : fs \cup {None}]]
    BY <1>2, <2>1 DEF TypedRows
  <2>4. d.users \in SUBSET Users /\ d.next \in Nat \ {0}
    BY <1>2 DEF TypedRows
  <2>5. d \in [users : SUBSET Users,
              folders : [fs -> [owner : d.users, parent : fs \cup {None}]],
              files : [ms -> [owner : d.users, folder : fs \cup {None}]],
              next : Nat \ {0}]
    BY <2>1, <2>2, <2>3, <2>4
  <2> QED
    BY <1>2, <2>5 DEF Typed, TypedRows
<1> QED
  BY <1>1, <1>2

LEMMA SoundIs ==
    ASSUME NEW d
    PROVE  Sound(d) <=> Tabular(d) /\ TypedRows(d) /\ Agreeing(d)
  BY TypedAs DEF Sound

LEMMA RowsClosed ==
    ASSUME NEW d, TypedRows(d)
    PROVE  Closed(d) /\ d.next \notin DOMAIN d.folders
<1>1. DOMAIN d.folders \in SUBSET (1 .. d.next - 1) /\ d.next \in Nat \ {0}
  BY DEF TypedRows
<1>2. IsFiniteSet(1 .. d.next - 1)
  BY <1>1, FS_Interval
<1>3. IsFiniteSet(DOMAIN d.folders)
  BY <1>1, <1>2, FS_Subset
<1>4. None \notin DOMAIN d.folders
  BY <1>1, ConstantsAssumption
<1>5. \A f \in DOMAIN d.folders : Parent(d, f) \in DOMAIN d.folders \cup {None}
  BY DEF TypedRows, Parent
<1> QED
  BY <1>1, <1>3, <1>4, <1>5 DEF Closed

\* What db_get_or_create_user_root_folder makes of the tables.
RootedWith(d, u, e, root) ==
    /\ Tabular(e)
    /\ e.users = d.users /\ e.next \in {d.next, d.next + 1}
    /\ root \in 1 .. e.next - 1
    /\ root \in Roots(d, u) \/ (root = d.next /\ Roots(d, u) = {})
    /\ DOMAIN e.folders = DOMAIN d.folders \cup {root}
    /\ e.folders[root] = [owner |-> u, parent |-> None]
    /\ \A f \in DOMAIN d.folders \ {root} :
           e.folders[f] = IF f \in Roots(d, u) THEN [owner |-> u, parent |-> root]
                          ELSE d.folders[f]
    /\ DOMAIN e.files = DOMAIN d.files
    /\ \A m \in DOMAIN d.files :
           e.files[m] = IF d.files[m].owner = u /\ d.files[m].folder = None
                        THEN [owner |-> u, folder |-> root] ELSE d.files[m]

LEMMA RootedShape ==
    ASSUME NEW d, Tabular(d), TypedRows(d), NEW u
    PROVE  \E root : RootedWith(d, u, Rooted(d, u), root)
<1> DEFINE roots == Roots(d, u)
           root == IF roots = {} THEN d.next ELSE Min(roots)
           merged == [f \in DOMAIN d.folders |->
               IF f \in roots THEN [owner |-> u, parent |-> root] ELSE d.folders[f]]
           folders == Put(merged, root, [owner |-> u, parent |-> None])
           files == [m \in DOMAIN d.files |->
                IF d.files[m].owner = u /\ d.files[m].folder = None
                THEN [owner |-> u, folder |-> root] ELSE d.files[m]]
           next == IF roots = {} THEN d.next + 1 ELSE d.next
           e == Rooted(d, u)
<1>1. d = [users |-> d.users, folders |-> d.folders, files |-> d.files, next |-> d.next]
  BY DEF Tabular
<1>2. e = [users |-> d.users, folders |-> folders, files |-> files, next |-> next]
  <2>1. e = [d EXCEPT !.folders = folders, !.files = files, !.next = next]
    BY DEF Rooted
  <2> HIDE DEF e, folders, files, next
  <2> QED
    BY <1>1, <2>1
<1>3. d.next \in Nat \ {0} /\ DOMAIN d.folders \subseteq 1 .. d.next - 1
  BY DEF TypedRows
<1>4. roots \subseteq DOMAIN d.folders /\ roots \subseteq Nat
  BY <1>3 DEF Roots
<1>5. roots # {} => root \in roots
  <2> SUFFICES ASSUME roots # {}  PROVE  Min(roots) \in roots
    OBVIOUS
  <2>1. \E x \in roots : \A y \in roots : x <= y
    <3> HIDE DEF roots
    <3> QED
      BY <1>4, LeastNatural
  <2> HIDE DEF roots
  <2> QED
    BY <2>1 DEF Min
<1>6. root \in 1 .. next - 1
  <2>1. CASE roots = {}
    BY <2>1, <1>3
  <2>2. CASE roots # {}
    BY <2>2, <1>3, <1>4, <1>5
  <2> QED
    BY <2>1, <2>2
<1>7. /\ DOMAIN folders = DOMAIN d.folders \cup {root}
      /\ folders[root] = [owner |-> u, parent |-> None]
      /\ \A f \in DOMAIN d.folders \ {root} :
             folders[f] = IF f \in roots THEN [owner |-> u, parent |-> root]
                          ELSE d.folders[f]
  <2> HIDE DEF roots, root
  <2> QED
    BY DEF Put
<1>8. \A m \in DOMAIN d.files :
          files[m] = IF d.files[m].owner = u /\ d.files[m].folder = None
                     THEN [owner |-> u, folder |-> root] ELSE d.files[m]
  BY DEF files
<1>9. RootedWith(d, u, e, root)
  <2> HIDE DEF e, folders, roots
  <2>1. root \in roots \/ (root = d.next /\ roots = {})
    BY <1>5
  <2>2. next \in {d.next, d.next + 1} /\ DOMAIN files = DOMAIN d.files
    OBVIOUS
  <2>3. Tabular(e)
    <3>1. folders = [f \in DOMAIN folders |-> folders[f]]
      BY DEF folders, Put
    <3>2. files = [m \in DOMAIN files |-> files[m]]
      OBVIOUS
    <3> HIDE DEF files, next
    <3> QED
      BY <3>1, <3>2, <1>2 DEF Tabular
  <2> HIDE DEF root, next, files
  <2> QED
    BY <1>2, <1>6, <1>7, <1>8, <2>1, <2>2, <2>3 DEF RootedWith, roots
<1> QED
  BY <1>9

LEMMA RootedSound ==
    ASSUME NEW d, Sound(d), NEW u \in d.users
    PROVE  Sound(Rooted(d, u)) /\ Rooted(d, u).users = d.users
<1>1. PICK root : RootedWith(d, u, Rooted(d, u), root)
  BY RootedShape, SoundIs
<1> DEFINE e == Rooted(d, u)
<1> HIDE DEF e
<1>2. RootedWith(d, u, e, root)
  BY <1>1 DEF e
<1>3. TypedRows(d) /\ Agreeing(d) /\ None \notin DOMAIN d.folders /\ d.next \notin DOMAIN d.folders
  BY SoundIs, RowsClosed DEF Closed
<1>4. \A f \in DOMAIN e.folders :
          e.folders[f] \in [owner : e.users, parent : DOMAIN e.folders \cup {None}]
  <2> SUFFICES ASSUME NEW f \in DOMAIN e.folders
               PROVE  e.folders[f] \in [owner : e.users, parent : DOMAIN e.folders \cup {None}]
    OBVIOUS
  <2>1. CASE f = root
    BY <2>1, <1>2 DEF RootedWith
  <2>2. CASE f # root
    <3>1. f \in DOMAIN d.folders \ {root}
      BY <2>2, <1>2 DEF RootedWith
    <3>2. d.folders[f] \in [owner : d.users, parent : DOMAIN d.folders \cup {None}]
      BY <3>1, <1>3 DEF TypedRows
    <3> QED
      BY <3>1, <3>2, <1>2 DEF RootedWith
  <2> QED
    BY <2>1, <2>2
<1>5. \A m \in DOMAIN e.files :
          e.files[m] \in [owner : e.users, folder : DOMAIN e.folders \cup {None}]
  <2> SUFFICES ASSUME NEW m \in DOMAIN d.files
               PROVE  e.files[m] \in [owner : e.users, folder : DOMAIN e.folders \cup {None}]
    BY <1>2 DEF RootedWith
  <2>1. d.files[m] \in [owner : d.users, folder : DOMAIN d.folders \cup {None}]
    BY <1>3 DEF TypedRows
  <2> QED
    BY <2>1, <1>2 DEF RootedWith
<1>6. TypedRows(e)
  <2>1. e.users \subseteq Users /\ DOMAIN e.files \subseteq Files
    BY <1>2, <1>3 DEF RootedWith, TypedRows
  <2>2. e.next \in Nat \ {0} /\ DOMAIN e.folders \subseteq 1 .. e.next - 1
    <3>1. d.next \in Nat \ {0} /\ DOMAIN d.folders \subseteq 1 .. d.next - 1
      BY <1>3 DEF TypedRows
    <3> QED
      BY <3>1, <1>2 DEF RootedWith
  <2> QED
    BY <2>1, <2>2, <1>2, <1>4, <1>5 DEF TypedRows, RootedWith
<1>7. ASSUME NEW f \in DOMAIN e.folders, Parent(e, f) # None
      PROVE  e.folders[f].owner = e.folders[Parent(e, f)].owner
  <2>1. f \in DOMAIN d.folders \ {root}
    BY <1>7, <1>2 DEF RootedWith, Parent
  <2>2. CASE f \in Roots(d, u)
    BY <2>1, <2>2, <1>2 DEF RootedWith, Parent
  <2>3. CASE f \notin Roots(d, u)
    <3>1. e.folders[f] = d.folders[f]
      BY <2>1, <2>3, <1>2 DEF RootedWith
    <3> DEFINE p == Parent(d, f)
    <3>2. Parent(e, f) = p /\ p # None /\ p \in DOMAIN d.folders
      BY <3>1, <2>1, <1>3, <1>7 DEF Parent, TypedRows
    <3>3. d.folders[f].owner = d.folders[p].owner
      BY <3>2, <2>1, <1>3 DEF Agreeing
    <3>4. e.folders[p].owner = d.folders[p].owner
      BY <3>2, <1>2, <1>3 DEF RootedWith, Roots
    <3> QED
      BY <3>1, <3>2, <3>3, <3>4
  <2> QED
    BY <2>2, <2>3
<1>8. ASSUME NEW m \in DOMAIN e.files, e.files[m].folder # None
      PROVE  e.files[m].owner = e.folders[e.files[m].folder].owner
  <2>1. m \in DOMAIN d.files
    BY <1>2 DEF RootedWith
  <2>2. CASE d.files[m].owner = u /\ d.files[m].folder = None
    BY <2>1, <2>2, <1>2 DEF RootedWith
  <2>3. CASE ~(d.files[m].owner = u /\ d.files[m].folder = None)
    <3> DEFINE f == d.files[m].folder
    <3>1. e.files[m] = d.files[m] /\ f # None
      BY <2>1, <2>3, <1>2, <1>8 DEF RootedWith
    <3>2. f \in DOMAIN d.folders /\ d.files[m].owner = d.folders[f].owner
      BY <3>1, <2>1, <1>3 DEF TypedRows, Agreeing
    <3>3. e.folders[f].owner = d.folders[f].owner
      BY <3>2, <1>2, <1>3 DEF RootedWith, Roots
    <3> QED
      BY <3>1, <3>2, <3>3
  <2> QED
    BY <2>2, <2>3
<1>9. Agreeing(e)
  BY <1>7, <1>8 DEF Agreeing
<1> QED
  BY <1>2, <1>6, <1>9, SoundIs DEF RootedWith, e

\* What others than u own in d is the same in e, but for the files ms.
Keeps(d, e, u, ms) ==
    /\ \A f \in DOMAIN d.folders : d.folders[f].owner # u =>
           f \in DOMAIN e.folders /\ e.folders[f] = d.folders[f]
    /\ \A m \in DOMAIN d.files \ ms : d.files[m].owner # u =>
           m \in DOMAIN e.files /\ e.files[m] = d.files[m]

LEMMA KeepsTransitive ==
    ASSUME NEW c, NEW d, NEW e, NEW u, NEW ms, Keeps(c, d, u, ms), Keeps(d, e, u, ms)
    PROVE  Keeps(c, e, u, ms)
  BY DEF Keeps

LEMMA RootedKeeps ==
    ASSUME NEW d, Sound(d), NEW u, NEW ms
    PROVE  Keeps(d, Rooted(d, u), u, ms)
<1>1. PICK root : RootedWith(d, u, Rooted(d, u), root)
  BY RootedShape, SoundIs
<1> DEFINE e == Rooted(d, u)
<1> HIDE DEF e
<1>2. RootedWith(d, u, e, root) /\ d.next \notin DOMAIN d.folders
  BY <1>1, SoundIs, RowsClosed DEF e
<1>3. ASSUME NEW f \in DOMAIN d.folders, d.folders[f].owner # u
      PROVE  f \in DOMAIN e.folders /\ e.folders[f] = d.folders[f]
  BY <1>2, <1>3 DEF RootedWith, Roots
<1>4. ASSUME NEW m \in DOMAIN d.files, d.files[m].owner # u
      PROVE  m \in DOMAIN e.files /\ e.files[m] = d.files[m]
  BY <1>2, <1>4 DEF RootedWith
<1> QED
  BY <1>3, <1>4 DEF Keeps, e

\* Databases form a set.
Tables ==
    [users : SUBSET Users,
     folders : UNION {[fs -> [owner : Users, parent : Nat \cup {None}]] : fs \in SUBSET Nat},
     files : UNION {[ms -> [owner : Users, folder : Nat \cup {None}]] : ms \in SUBSET Files},
     next : Nat]

LEMMA SoundTables ==
    ASSUME NEW d, Sound(d)
    PROVE  d \in Tables
<1>1. Tabular(d) /\ TypedRows(d)
  BY SoundIs
<1> DEFINE fs == DOMAIN d.folders
           ms == DOMAIN d.files
<1>2. fs \in SUBSET Nat /\ ms \in SUBSET Files
  BY <1>1 DEF TypedRows
<1>3. d.folders \in [fs -> [owner : Users, parent : Nat \cup {None}]]
  <2>1. \A f \in fs : d.folders[f] \in [owner : Users, parent : Nat \cup {None}]
    BY <1>1, <1>2 DEF TypedRows
  <2> QED
    BY <1>1, <2>1 DEF Tabular
<1>4. d.files \in [ms -> [owner : Users, folder : Nat \cup {None}]]
  <2>1. \A m \in ms : d.files[m] \in [owner : Users, folder : Nat \cup {None}]
    BY <1>1, <1>2 DEF TypedRows
  <2> QED
    BY <1>1, <2>1 DEF Tabular
<1>5. d.users \in SUBSET Users /\ d.next \in Nat
  BY <1>1 DEF TypedRows
<1>6. d = [users |-> d.users, folders |-> d.folders, files |-> d.files, next |-> d.next]
  BY <1>1 DEF Tabular
<1> QED
  BY <1>2, <1>3, <1>4, <1>5, <1>6 DEF Tables

\* RootedAll, the root folders of several users one after the other.
Chosen(us) == CHOOSE u \in us : TRUE

RootedSteps(g, d, us) ==
    g = [vs \in SUBSET us |->
            IF vs = {} THEN d ELSE Rooted(g[vs \ {Chosen(vs)}], Chosen(vs))]

LEMMA RootedAllSound ==
    ASSUME NEW d, Sound(d), NEW us \in SUBSET d.users
    PROVE  /\ Sound(RootedAll(d, us))
           /\ RootedAll(d, us).users = d.users
           /\ \A u : us = {u} => RootedAll(d, us) = Rooted(d, u)
<1> DEFINE D == {e \in Tables : Sound(e) /\ e.users = d.users}
           pick == [vs \in SUBSET us |-> Chosen(vs)]
           F == [u \in us |-> [e \in D |-> Rooted(e, u)]]
           h == CHOOSE g : RootedSteps(g, d, us)
<1>1. d \in D
  BY SoundTables
<1>2. \A u \in us : \A e \in D : Rooted(e, u) \in D
  BY RootedSound, SoundTables
<1>3. F \in [us -> [D -> D]]
  <2> HIDE DEF D
  <2> QED
    BY <1>2
<1>4. IsFiniteSet(us)
  BY SoundIs, ConstantsAssumption, FS_Subset DEF TypedRows
<1>5. \A vs \in SUBSET us : vs # {} => Chosen(vs) \in vs
  BY DEF Chosen
<1>6. \E g \in [SUBSET us -> D] : RootedSteps(g, d, us)
  <2>1. Picks(pick, us)
    BY <1>5 DEF Picks
  <2>2. PICK g \in [SUBSET us -> D] : FoldOf(g, us, d, pick, F)
    <3> HIDE DEF D, F, pick
    <3> QED
      BY <1>1, <1>3, <1>4, <2>1, SubsetRecursion
  <2>3. ASSUME NEW vs \in SUBSET us
        PROVE  g[vs] = IF vs = {} THEN d ELSE Rooted(g[vs \ {Chosen(vs)}], Chosen(vs))
    <3>1. CASE vs = {}
      BY <2>2, <3>1 DEF FoldOf
    <3>2. CASE vs # {}
      <4>1. Chosen(vs) \in us /\ vs \ {Chosen(vs)} \in SUBSET us
        BY <1>5, <3>2
      <4>2. g[vs \ {Chosen(vs)}] \in D
        <5> HIDE DEF D
        <5> QED
          BY <4>1
      <4>3. g[vs] = F[Chosen(vs)][g[vs \ {Chosen(vs)}]]
        <5> HIDE DEF F
        <5> QED
          BY <2>2, <3>2 DEF FoldOf
      <4> HIDE DEF D
      <4> QED
        BY <4>1, <4>2, <4>3, <3>2
    <3> QED
      BY <3>1, <3>2
  <2>4. RootedSteps(g, d, us)
    <3> HIDE DEF D
    <3> QED
      BY <2>3 DEF RootedSteps
  <2> HIDE DEF D
  <2> QED
    BY <2>4
<1>7. RootedSteps(h, d, us)
  <2> HIDE DEF RootedSteps
  <2> QED
    BY <1>6
<1>8. RootedAll(d, us) = h[us]
  BY DEF RootedAll, FoldSet, MapThenFoldSet, RootedSteps, Chosen
<1> HIDE DEF h
<1>9. h[{}] = d
  BY <1>7 DEF RootedSteps
<1>10. \A vs \in SUBSET us : vs # {} => h[vs] = Rooted(h[vs \ {Chosen(vs)}], Chosen(vs))
  BY <1>7 DEF RootedSteps
<1>11. h[us] \in D
  <2> DEFINE C == {vs \in SUBSET us : h[vs] \in D}
  <2>1. ASSUME NEW vs \in SUBSET us, \A u \in vs : vs \ {u} \in C  PROVE  vs \in C
    <3>1. CASE vs = {}
      BY <3>1, <1>1, <1>9
    <3>2. CASE vs # {}
      <4>1. Chosen(vs) \in vs
        BY <1>5, <3>2
      <4>2. h[vs \ {Chosen(vs)}] \in D
        BY <2>1, <4>1
      <4> HIDE DEF D
      <4> QED
        BY <4>1, <4>2, <3>2, <1>2, <1>10
    <3> QED
      BY <3>1, <3>2
  <2>2. \A vs \in SUBSET us : vs \in C
    <3> HIDE DEF C
    <3> QED
      BY <2>1, <1>4, SubsetInduction
  <2> QED
    BY <2>2
<1>12. \A u : us = {u} => h[us] = Rooted(d, u)
  <2> SUFFICES ASSUME NEW u, us = {u}  PROVE  h[us] = Rooted(d, u)
    OBVIOUS
  <2>1. Chosen(us) = u /\ us \ {Chosen(us)} = {}
    BY DEF Chosen
  <2> QED
    BY <2>1, <1>9, <1>10
<1> QED
  BY <1>8, <1>11, <1>12

\* After a handler has shown the page, the database is as sound as before.
LEMMA ShowSound ==
    ASSUME NEW u, NEW d, Sound(d), Show(u, d)
    PROVE  /\ Sound(db')
           /\ u \notin Admins => \A ms : Keeps(d, db', u, ms)
<1>1. CASE u \notin d.users
  BY <1>1 DEF Show, Keeps
<1>2. CASE u \in d.users
  <2>1. PICK us \in {{u}} \cup (IF u \in Admins THEN {d.users} ELSE {}) :
            db' = RootedAll(d, us)
    BY <1>2 DEF Show
  <2>2. us \in SUBSET d.users
    BY <1>2, <2>1
  <2>3. Sound(db')
    BY <2>1, <2>2, RootedAllSound
  <2>4. ASSUME u \notin Admins, NEW ms  PROVE  Keeps(d, db', u, ms)
    <3>1. us = {u}
      BY <2>1, <2>4
    <3>2. db' = Rooted(d, u)
      BY <2>1, <2>2, <3>1, RootedAllSound
    <3> QED
      BY <3>2, RootedKeeps
  <2> QED
    BY <2>3, <2>4
<1> QED
  BY <1>1, <1>2

-----------------------------------------------------------------------------
(* Making and moving folders.                                              *)

LEMMA WithFolderSound ==
    ASSUME NEW d, Sound(d), NEW f \in DOMAIN d.folders
    PROVE  Sound(WithFolder(d, f)) /\ \A u, ms : Keeps(d, WithFolder(d, f), u, ms)
<1> DEFINE row == [owner |-> d.folders[f].owner, parent |-> f]
           folders == Put(d.folders, d.next, row)
           e == WithFolder(d, f)
<1>1. Tabular(d) /\ TypedRows(d) /\ Agreeing(d) /\ d.next \notin DOMAIN d.folders
      /\ None \notin DOMAIN d.folders
  BY SoundIs, RowsClosed DEF Closed
<1>2. d = [users |-> d.users, folders |-> d.folders, files |-> d.files, next |-> d.next]
  BY <1>1 DEF Tabular
<1>3. e = [users |-> d.users, folders |-> folders, files |-> d.files, next |-> d.next + 1]
  <2>1. e = [d EXCEPT !.folders = folders, !.next = d.next + 1]
    BY DEF WithFolder
  <2> HIDE DEF e, folders
  <2> QED
    BY <1>2, <2>1
<1>4. /\ DOMAIN folders = DOMAIN d.folders \cup {d.next} /\ folders[d.next] = row
      /\ \A g \in DOMAIN d.folders : folders[g] = d.folders[g]
      /\ folders = [g \in DOMAIN folders |-> folders[g]]
  <2> HIDE DEF row
  <2> QED
    BY <1>1 DEF Put
<1> HIDE DEF e, folders
<1>5. Tabular(e)
  <2>1. d.files = [m \in DOMAIN d.files |-> d.files[m]]
    BY <1>1 DEF Tabular
  <2> QED
    BY <1>3, <1>4, <2>1 DEF Tabular
<1>6. TypedRows(e)
  BY <1>1, <1>3, <1>4 DEF TypedRows
<1>7. Agreeing(e)
  BY <1>1, <1>3, <1>4 DEF Agreeing, Parent, TypedRows
<1>8. \A u, ms : Keeps(d, e, u, ms)
  BY <1>3, <1>4 DEF Keeps
<1> QED
  BY <1>5, <1>6, <1>7, <1>8, SoundIs DEF e

\* All below a folder are its owner's.
LEMMA BelowOwner ==
    ASSUME NEW d, Sound(d), NEW f \in DOMAIN d.folders, NEW g \in Below(d, f)
    PROVE  d.folders[g].owner = d.folders[f].owner
<1> DEFINE S == {h \in DOMAIN d.folders : d.folders[h].owner = d.folders[g].owner}
<1>1. Closed(d) /\ Agreeing(d) /\ g \in DOMAIN d.folders /\ f \in Above(d, g)
  BY SoundIs, RowsClosed DEF Below
<1>2. \A h \in S \cap DOMAIN d.folders : Parent(d, h) # None => Parent(d, h) \in S
  BY <1>1 DEF Agreeing, Closed
<1>3. Above(d, g) \subseteq S
  <2>1. g \in S
    BY <1>1
  <2> HIDE DEF S
  <2> QED
    BY <1>1, <1>2, <2>1, AboveLeast
<1> QED
  BY <1>1, <1>3

\* Giving a folder and all below it to u makes owners agree, when they did but
\* for the folder itself, and u owns what the folder lies in.
LEMMA OwnedSound ==
    ASSUME NEW d, Tabular(d), TypedRows(d), NEW it \in DOMAIN d.folders,
           NEW u \in d.users,
           \A f \in DOMAIN d.folders \ {it} :
               Parent(d, f) # None => d.folders[f].owner = d.folders[Parent(d, f)].owner,
           Parent(d, it) # None => d.folders[Parent(d, it)].owner = u,
           \A m \in DOMAIN d.files : d.files[m].folder # None =>
               d.files[m].owner = d.folders[d.files[m].folder].owner
    PROVE  /\ Sound(Owned(d, it, u))
           /\ Owned(d, it, u).users = d.users
           /\ DOMAIN Owned(d, it, u).folders = DOMAIN d.folders
           /\ DOMAIN Owned(d, it, u).files = DOMAIN d.files
           /\ \A f \in Below(d, it) : Owned(d, it, u).folders[f].owner = u
           /\ \A f \in DOMAIN d.folders \ Below(d, it) :
                  Owned(d, it, u).folders[f] = d.folders[f]
           /\ \A m \in DOMAIN d.files : d.files[m].folder \notin Below(d, it) =>
                  Owned(d, it, u).files[m] = d.files[m]
<1> DEFINE below == Below(d, it)
           folders == [g \in DOMAIN d.folders |->
               IF g \in below THEN [owner |-> u, parent |-> d.folders[g].parent]
               ELSE d.folders[g]]
           files == [m \in DOMAIN d.files |->
               IF d.files[m].folder \in below
               THEN [owner |-> u, folder |-> d.files[m].folder] ELSE d.files[m]]
           e == Owned(d, it, u)
<1>1. Closed(d)
  BY RowsClosed
<1>2. /\ below \subseteq DOMAIN d.folders /\ None \notin below
      /\ \A g \in DOMAIN d.folders :
             Parent(d, g) # None /\ Parent(d, g) \in below => g \in below
      /\ \A g \in below \ {it} : Parent(d, g) # None /\ Parent(d, g) \in below
  BY <1>1, BelowClosed DEF Closed
<1>3. d = [users |-> d.users, folders |-> d.folders, files |-> d.files, next |-> d.next]
  BY DEF Tabular
<1>4. e = [users |-> d.users, folders |-> folders, files |-> files, next |-> d.next]
  <2>1. e = [d EXCEPT !.folders = folders, !.files = files]
    BY DEF Owned
  <2> HIDE DEF e, folders, files
  <2> QED
    BY <1>3, <2>1
<1> HIDE DEF below, e
<1>5. /\ DOMAIN folders = DOMAIN d.folders /\ DOMAIN files = DOMAIN d.files
      /\ folders = [g \in DOMAIN folders |-> folders[g]]
      /\ files = [m \in DOMAIN files |-> files[m]]
  OBVIOUS
<1>6. ASSUME NEW f \in below
       PROVE  folders[f].owner = u /\ folders[f].parent = Parent(d, f)
  <2>1. folders[f] = [owner |-> u, parent |-> d.folders[f].parent]
    BY <1>2
  <2> HIDE DEF folders
  <2> QED
    BY <2>1 DEF Parent
<1>7. \A f \in DOMAIN d.folders \ below : folders[f] = d.folders[f]
  OBVIOUS
<1>8. ASSUME NEW m \in DOMAIN d.files, d.files[m].folder \in below
       PROVE  files[m].owner = u /\ files[m].folder = d.files[m].folder
  <2>1. files[m] = [owner |-> u, folder |-> d.files[m].folder]
    BY <1>8
  <2> HIDE DEF files
  <2> QED
    BY <2>1
<1>9. \A m \in DOMAIN d.files : d.files[m].folder \notin below => files[m] = d.files[m]
  OBVIOUS
<1>10. ASSUME NEW f \in below
       PROVE  folders[f] \in [owner : d.users, parent : DOMAIN d.folders \cup {None}]
  <2>1. folders[f] = [owner |-> u, parent |-> d.folders[f].parent]
    BY <1>2
  <2>2. d.folders[f].parent \in DOMAIN d.folders \cup {None}
    BY <1>2 DEF TypedRows
  <2> HIDE DEF folders
  <2> QED
    BY <2>1, <2>2
<1>11. ASSUME NEW m \in DOMAIN d.files, d.files[m].folder \in below
       PROVE  files[m] \in [owner : d.users, folder : DOMAIN d.folders \cup {None}]
  <2>1. files[m] = [owner |-> u, folder |-> d.files[m].folder]
    BY <1>11
  <2>2. d.files[m].folder \in DOMAIN d.folders \cup {None}
    BY DEF TypedRows
  <2> HIDE DEF files
  <2> QED
    BY <2>1, <2>2
<1> HIDE DEF folders, files
<1>12. Tabular(e)
  BY <1>4, <1>5 DEF Tabular
<1>13. DOMAIN folders = DOMAIN d.folders /\ DOMAIN files = DOMAIN d.files
  BY <1>5
<1>14. \A f \in DOMAIN d.folders : folders[f].parent = Parent(d, f)
  BY <1>6, <1>7 DEF Parent
<1>15. \A m \in DOMAIN d.files : files[m].folder = d.files[m].folder
  BY <1>8, <1>9
<1>16. TypedRows(e)
  <2>1. ASSUME NEW f \in DOMAIN d.folders
        PROVE  folders[f] \in [owner : d.users, parent : DOMAIN d.folders \cup {None}]
    <3>1. CASE f \in below
      BY <1>10, <3>1
    <3>2. CASE f \notin below
      BY <1>7, <3>2 DEF TypedRows
    <3> QED
      BY <3>1, <3>2
  <2>2. ASSUME NEW m \in DOMAIN d.files
        PROVE  files[m] \in [owner : d.users, folder : DOMAIN d.folders \cup {None}]
    <3>1. CASE d.files[m].folder \in below
      BY <1>11, <3>1
    <3>2. CASE d.files[m].folder \notin below
      BY <1>9, <3>2 DEF TypedRows
    <3> QED
      BY <3>1, <3>2
  <2> QED
    BY <1>4, <1>13, <2>1, <2>2 DEF TypedRows
<1>17. ASSUME NEW f \in DOMAIN d.folders, folders[f].parent # None
      PROVE  folders[f].owner = folders[folders[f].parent].owner
  <2> DEFINE p == Parent(d, f)
  <2>1. folders[f].parent = p /\ p # None /\ p \in DOMAIN d.folders
    BY <1>1, <1>14, <1>17 DEF Closed
  <2> HIDE DEF p
  <2>2. CASE p \in below
    <3>1. f \in below
      BY <1>2, <2>1, <2>2 DEF p
    <3> QED
      BY <1>6, <2>1, <2>2, <3>1
  <2>3. CASE p \notin below /\ f \in below
    <3>1. f = it
      BY <1>2, <2>3 DEF p
    <3>2. d.folders[p].owner = u
      BY <2>1, <3>1 DEF p
    <3>3. folders[p].owner = u
      BY <1>7, <2>1, <2>3, <3>2
    <3> QED
      BY <1>6, <2>1, <2>3, <3>3
  <2>4. CASE p \notin below /\ f \notin below
    <3>1. f # it
      BY <1>1, <2>4, BelowClosed DEF below
    <3>2. d.folders[f].owner = d.folders[p].owner
      BY <2>1, <3>1 DEF p
    <3> QED
      BY <1>7, <2>1, <2>4, <3>2
  <2> QED
    BY <2>2, <2>3, <2>4
<1>18. ASSUME NEW m \in DOMAIN d.files, files[m].folder # None
      PROVE  files[m].owner = folders[files[m].folder].owner
  <2> DEFINE p == d.files[m].folder
  <2>1. files[m].folder = p /\ p # None
    BY <1>15, <1>18
  <2>2. p \in DOMAIN d.folders /\ d.files[m].owner = d.folders[p].owner
    BY <2>1 DEF TypedRows
  <2>3. CASE p \in below
    BY <1>6, <1>8, <2>1, <2>3
  <2>4. CASE p \notin below
    BY <1>7, <1>9, <2>1, <2>2, <2>4
  <2> QED
    BY <2>3, <2>4
<1>19. Agreeing(e)
  BY <1>4, <1>5, <1>17, <1>18 DEF Agreeing, Parent
<1> QED
  BY <1>4, <1>5, <1>12, <1>16, <1>19, <1>6, <1>7, <1>9, SoundIs DEF below, e

\* Moving an item that may be moved, into a folder one may move to.
LEMMA MovedToSound ==
    ASSUME NEW d, Sound(d), NEW u, NEW it, NEW dst \in DOMAIN d.folders,
           CanMove(d, u, it, dst), May(u, d.folders[dst].owner)
    PROVE  /\ Sound(MovedTo(d, it, dst)) /\ MovedTo(d, it, dst).users = d.users
           /\ dst \in DOMAIN MovedTo(d, it, dst).folders
           /\ MovedTo(d, it, dst).folders[dst].owner = d.folders[dst].owner
           /\ u \notin Admins => \A ms : Keeps(d, MovedTo(d, it, dst), u, ms)
<1> DEFINE owner == d.folders[dst].owner
<1>1. Tabular(d) /\ TypedRows(d) /\ Agreeing(d) /\ Closed(d)
  BY SoundIs, RowsClosed
<1>2. d = [users |-> d.users, folders |-> d.folders, files |-> d.files, next |-> d.next]
  BY <1>1 DEF Tabular
<1>3. owner \in d.users
  BY <1>1 DEF TypedRows
<1>4. it \in DOMAIN d.folders => it \notin DOMAIN d.files
  <2>1. DOMAIN d.folders \subseteq Nat /\ DOMAIN d.files \subseteq Files
    BY <1>1 DEF TypedRows
  <2> QED
    BY <2>1, ConstantsAssumption
<1>5. CASE it \in DOMAIN d.folders
  <2> DEFINE row == [owner |-> d.folders[it].owner, parent |-> dst]
             folders == Put(d.folders, it, row)
             c == [d EXCEPT !.folders = folders]
  <2>1. MovedTo(d, it, dst) = Owned(c, it, owner)
    BY <1>5 DEF MovedTo
  <2>2. it # dst /\ May(u, d.folders[it].owner)
    BY <1>4, <1>5 DEF CanMove
  <2>3. c = [users |-> d.users, folders |-> folders, files |-> d.files, next |-> d.next]
    <3> HIDE DEF folders
    <3> QED
      BY <1>2
  <2>4. /\ DOMAIN folders = DOMAIN d.folders /\ folders[it] = row
        /\ \A f \in DOMAIN d.folders \ {it} : folders[f] = d.folders[f]
        /\ folders = [f \in DOMAIN folders |-> folders[f]]
    <3> HIDE DEF row
    <3> QED
      BY <1>5 DEF Put
  <2> HIDE DEF folders, c
  <2>5. \A f \in DOMAIN d.folders : folders[f].owner = d.folders[f].owner
    BY <2>4
  <2>6. Tabular(c)
    BY <1>1, <2>3, <2>4 DEF Tabular
  <2>7. TypedRows(c)
    <3>1. \A f \in DOMAIN d.folders :
              folders[f] \in [owner : d.users, parent : DOMAIN d.folders \cup {None}]
      BY <1>1, <2>4 DEF TypedRows
    <3> QED
      BY <1>1, <2>3, <2>4, <3>1 DEF TypedRows
  <2>8. \A f \in DOMAIN c.folders \ {it} :
            Parent(c, f) # None => c.folders[f].owner = c.folders[Parent(c, f)].owner
    BY <1>1, <2>3, <2>4, <2>5 DEF Agreeing, Parent, Closed
  <2>9. Parent(c, it) = dst /\ c.folders[dst].owner = owner
    BY <2>3, <2>4, <2>5 DEF Parent
  <2>10. \A m \in DOMAIN c.files : c.files[m].folder # None =>
             c.files[m].owner = c.folders[c.files[m].folder].owner
    BY <1>1, <2>3, <2>5 DEF Agreeing, TypedRows
  <2> DEFINE e == Owned(c, it, owner)
  <2>11. it \in DOMAIN c.folders /\ owner \in c.users
    BY <1>3, <1>5, <2>3, <2>4
  <2>12. /\ Sound(e) /\ e.users = c.users
         /\ DOMAIN e.folders = DOMAIN c.folders
         /\ DOMAIN e.files = DOMAIN c.files
         /\ \A f \in Below(c, it) : e.folders[f].owner = owner
         /\ \A f \in DOMAIN c.folders \ Below(c, it) : e.folders[f] = c.folders[f]
         /\ \A m \in DOMAIN c.files : c.files[m].folder \notin Below(c, it) =>
                e.files[m] = c.files[m]
    <3> HIDE DEF owner
    <3> QED
      BY <2>6, <2>7, <2>8, <2>9, <2>10, <2>11, OwnedSound
  <2> HIDE DEF e
  <2>13. dst \in DOMAIN e.folders /\ e.folders[dst].owner = owner
    <3>1. dst \in DOMAIN c.folders
      BY <2>3, <2>4
    <3> HIDE DEF owner
    <3>2. CASE dst \in Below(c, it)
      BY <2>12, <3>1, <3>2
    <3>3. CASE dst \notin Below(c, it)
      BY <2>9, <2>12, <3>1, <3>3
    <3> QED
      BY <2>12, <3>1, <3>2, <3>3
  <2>14. ASSUME u \notin Admins, NEW ms  PROVE  Keeps(d, e, u, ms)
    <3>1. owner = u /\ d.folders[it].owner = u
      BY <2>2, <2>14 DEF May
    <3>2. Sound(c)
      <4>1. Agreeing(c)
        BY <2>3, <2>4, <2>5, <2>8, <2>9, <2>10, <3>1 DEF Agreeing
      <4> QED
        BY <2>6, <2>7, <4>1, SoundIs
    <3>3. \A f \in Below(c, it) : f \in DOMAIN d.folders /\ d.folders[f].owner = u
      <4>1. \A f \in Below(c, it) : f \in DOMAIN c.folders
        BY DEF Below
      <4> QED
        BY <2>3, <2>4, <2>5, <2>11, <3>1, <3>2, <4>1, BelowOwner
    <3>4. ASSUME NEW f \in DOMAIN d.folders, d.folders[f].owner # u
          PROVE  f \in DOMAIN e.folders /\ e.folders[f] = d.folders[f]
      BY <2>3, <2>4, <2>12, <3>1, <3>3, <3>4
    <3>5. ASSUME NEW m \in DOMAIN d.files, d.files[m].owner # u
          PROVE  m \in DOMAIN e.files /\ e.files[m] = d.files[m]
      <4>1. d.files[m].folder # None =>
                d.folders[d.files[m].folder].owner = d.files[m].owner
        BY <1>1 DEF Agreeing
      <4>2. None \notin Below(c, it)
        BY <1>1, <3>3 DEF Closed
      <4>3. d.files[m].folder \notin Below(c, it)
        BY <3>3, <3>5, <4>1, <4>2
      <4> QED
        BY <2>3, <2>12, <4>3
    <3> QED
      BY <3>4, <3>5 DEF Keeps
  <2> QED
    BY <2>1, <2>3, <2>12, <2>13, <2>14 DEF e
<1>6. CASE it \notin DOMAIN d.folders
  <2> DEFINE row == [owner |-> owner, folder |-> dst]
             files == Put(d.files, it, row)
             e == MovedTo(d, it, dst)
  <2>1. e = [users |-> d.users, folders |-> d.folders, files |-> files, next |-> d.next]
    <3>1. e = [d EXCEPT !.files = files]
      BY <1>6 DEF MovedTo
    <3> HIDE DEF e, files
    <3> QED
      BY <1>2, <3>1
  <2>2. it \in DOMAIN d.files /\ May(u, d.files[it].owner)
    BY <1>6 DEF CanMove
  <2>3. /\ DOMAIN files = DOMAIN d.files /\ files[it] = row
        /\ \A m \in DOMAIN d.files \ {it} : files[m] = d.files[m]
        /\ files = [m \in DOMAIN files |-> files[m]]
    <3> HIDE DEF row
    <3> QED
      BY <2>2 DEF Put
  <2> HIDE DEF e, files
  <2>4. Tabular(e)
    BY <1>1, <2>1, <2>3 DEF Tabular
  <2>5. TypedRows(e)
    <3>1. \A m \in DOMAIN d.files :
              files[m] \in [owner : d.users, folder : DOMAIN d.folders \cup {None}]
      BY <1>1, <1>3, <2>3 DEF TypedRows
    <3> QED
      BY <1>1, <2>1, <2>3, <3>1 DEF TypedRows
  <2>6. Agreeing(e)
    BY <1>1, <2>1, <2>3 DEF Agreeing, Parent
  <2>7. ASSUME u \notin Admins, NEW ms  PROVE  Keeps(d, e, u, ms)
    <3>1. d.files[it].owner = u
      BY <2>2, <2>7 DEF May
    <3> QED
      BY <2>1, <2>3, <3>1 DEF Keeps
  <2> QED
    BY <2>1, <2>4, <2>5, <2>6, <2>7, SoundIs DEF e
<1> QED
  BY <1>5, <1>6

\* The last of some positions.
LEMMA LastPosition ==
    ASSUME NEW n \in Nat, NEW S \in SUBSET (1 .. n), S # {}
    PROVE  Max(S) \in S
<1> DEFINE T == {n - x : x \in S}
<1>1. T \subseteq Nat /\ T # {}
  <2>1. \A x \in S : n - x \in Nat
    OBVIOUS
  <2>2. PICK x \in S : TRUE
    OBVIOUS
  <2>3. n - x \in T
    OBVIOUS
  <2> QED
    BY <2>1, <2>3
<1>2. PICK t \in T : \A y \in T : t <= y
  <2> HIDE DEF T
  <2> QED
    BY <1>1, LeastNatural
<1>3. PICK x \in S : t = n - x
  OBVIOUS
<1>4. ASSUME NEW y \in S  PROVE  x >= y
  <2>1. t <= n - y
    BY <1>2
  <2> QED
    BY <1>3, <2>1
<1> QED
  BY <1>4 DEF Max

\* MovedAll, item by item. A database of Moving is one a move may come to.
Moving(d, u, dst) ==
    {e \in Tables :
        /\ Sound(e) /\ e.users = d.users
        /\ dst \in DOMAIN e.folders /\ e.folders[dst].owner = d.folders[dst].owner
        /\ u \notin Admins => Keeps(d, e, u, {})}

Move1(r, u, it, dst) ==
    IF r.done /\ CanMove(r.db, u, it, dst)
    THEN [r EXCEPT !.db = MovedTo(@, it, dst)]
    ELSE [r EXCEPT !.done = FALSE]

MoveSteps(g, d, u, items, dst) ==
    g = [T \in SUBSET DOMAIN items |->
            IF T = {} THEN [db |-> d, done |-> TRUE]
            ELSE Move1(g[T \ {Max(T)}], u, items[Max(T)], dst)]

LEMMA Move1Sound ==
    ASSUME NEW d, NEW u, NEW it, NEW dst, May(u, d.folders[dst].owner),
           NEW r \in [db : Moving(d, u, dst), done : BOOLEAN]
    PROVE  Move1(r, u, it, dst) \in [db : Moving(d, u, dst), done : BOOLEAN]
<1> DEFINE M == Moving(d, u, dst)
<1> HIDE DEF M
<1>1. r \in [db : M, done : BOOLEAN]
  BY DEF M
<1>2. CASE ~(r.done /\ CanMove(r.db, u, it, dst))
  <2>1. Move1(r, u, it, dst) = [r EXCEPT !.done = FALSE]
    BY <1>2 DEF Move1
  <2> QED
    BY <1>1, <2>1 DEF M
<1>3. CASE r.done /\ CanMove(r.db, u, it, dst)
  <2> DEFINE e == r.db
             x == MovedTo(e, it, dst)
  <2>1. Move1(r, u, it, dst) = [r EXCEPT !.db = x]
    BY <1>3 DEF Move1
  <2>2. e \in M
    BY <1>1
  <2>3. /\ Sound(e) /\ e.users = d.users
        /\ dst \in DOMAIN e.folders /\ e.folders[dst].owner = d.folders[dst].owner
        /\ u \notin Admins => Keeps(d, e, u, {})
    BY <2>2 DEF M, Moving
  <2>4. /\ Sound(x) /\ x.users = e.users
        /\ dst \in DOMAIN x.folders /\ x.folders[dst].owner = e.folders[dst].owner
        /\ u \notin Admins => Keeps(e, x, u, {})
    <3>1. CanMove(e, u, it, dst) /\ May(u, e.folders[dst].owner)
      BY <1>3, <2>3
    <3> HIDE DEF e
    <3> QED
      BY <2>3, <3>1, MovedToSound
  <2> HIDE DEF e, x
  <2>5. x \in Tables
    BY <2>4, SoundTables
  <2>6. u \notin Admins => Keeps(d, x, u, {})
    BY <2>3, <2>4, KeepsTransitive
  <2>7. x \in M
    BY <2>3, <2>4, <2>5, <2>6 DEF M, Moving
  <2> QED
    BY <1>1, <2>1, <2>7 DEF M
<1> QED
  BY <1>2, <1>3

LEMMA MovedAllSound ==
    ASSUME NEW d, Sound(d), NEW u, NEW n \in Nat, NEW items, DOMAIN items = 1 .. n,
           NEW dst \in DOMAIN d.folders, May(u, d.folders[dst].owner)
    PROVE  MovedAll(d, u, items, dst).db \in Moving(d, u, dst)
<1> DEFINE I == DOMAIN items
           R == [db : Moving(d, u, dst), done : BOOLEAN]
           r0 == [db |-> d, done |-> TRUE]
           pick == [T \in SUBSET I |-> Max(T)]
           F == [i \in I |-> [r \in R |-> Move1(r, u, items[i], dst)]]
           h == CHOOSE g : MoveSteps(g, d, u, items, dst)
<1>1. r0 \in R
  <2>1. d \in Moving(d, u, dst)
    BY SoundTables DEF Moving, Keeps
  <2> QED
    BY <2>1
<1>2. \A i \in I : \A r \in R : Move1(r, u, items[i], dst) \in R
  BY Move1Sound
<1>3. F \in [I -> [R -> R]]
  <2> HIDE DEF R, I
  <2> QED
    BY <1>2
<1>4. IsFiniteSet(I)
  BY FS_Interval
<1>5. \A T \in SUBSET I : T # {} => Max(T) \in T
  BY LastPosition
<1> HIDE DEF I, R, r0
<1>6. \E g \in [SUBSET I -> R] : MoveSteps(g, d, u, items, dst)
  <2>1. Picks(pick, I)
    BY <1>5 DEF Picks
  <2>2. PICK g \in [SUBSET I -> R] : FoldOf(g, I, r0, pick, F)
    <3> HIDE DEF F, pick
    <3> QED
      BY <1>1, <1>3, <1>4, <2>1, SubsetRecursion
  <2>3. ASSUME NEW T \in SUBSET I
        PROVE  g[T] = IF T = {} THEN r0
                      ELSE Move1(g[T \ {Max(T)}], u, items[Max(T)], dst)
    <3>1. CASE T = {}
      BY <2>2, <3>1 DEF FoldOf
    <3>2. CASE T # {}
      <4>1. Max(T) \in I /\ T \ {Max(T)} \in SUBSET I
        BY <1>5, <3>2
      <4>2. g[T \ {Max(T)}] \in R
        BY <4>1
      <4>3. g[T] = F[Max(T)][g[T \ {Max(T)}]]
        <5> HIDE DEF F
        <5> QED
          BY <2>2, <3>2 DEF FoldOf
      <4> QED
        BY <4>1, <4>2, <4>3, <3>2
    <3> QED
      BY <3>1, <3>2
  <2>4. MoveSteps(g, d, u, items, dst)
    BY <2>3 DEF MoveSteps, I, r0
  <2> QED
    BY <2>4
<1>7. MoveSteps(h, d, u, items, dst)
  <2> HIDE DEF MoveSteps
  <2> QED
    BY <1>6
<1>8. MovedAll(d, u, items, dst) = h[I]
  BY DEF MovedAll, FoldLeft, MapThenFoldSet, MoveSteps, Move1, I
<1> HIDE DEF h
<1>9. /\ h[{}] = r0
      /\ \A T \in SUBSET I : T # {} =>
             h[T] = Move1(h[T \ {Max(T)}], u, items[Max(T)], dst)
  BY <1>7 DEF MoveSteps, I, r0
<1>10. h[I] \in R
  <2> DEFINE C == {T \in SUBSET I : h[T] \in R}
  <2>1. ASSUME NEW T \in SUBSET I, \A i \in T : T \ {i} \in C  PROVE  T \in C
    <3>1. CASE T = {}
      BY <3>1, <1>1, <1>9
    <3>2. CASE T # {}
      <4>1. Max(T) \in T
        BY <1>5, <3>2
      <4>2. h[T \ {Max(T)}] \in R
        BY <2>1, <4>1
      <4> QED
        BY <4>1, <4>2, <3>2, <1>2, <1>9
    <3> QED
      BY <3>1, <3>2
  <2>2. \A T \in SUBSET I : T \in C
    <3> HIDE DEF C
    <3> QED
      BY <2>1, <1>4, SubsetInduction
  <2> QED
    BY <2>2
<1> QED
  BY <1>8, <1>10 DEF R

-----------------------------------------------------------------------------
(* What is removed.                                                        *)

\* Folders can be removed with all that lies in them; their files stay.
LEMMA WithoutSound ==
    ASSUME NEW d, Sound(d), NEW fs \in SUBSET DOMAIN d.folders,
           \A f \in DOMAIN d.folders : Parent(d, f) \in fs => f \in fs
    PROVE  /\ Sound(Without(d, fs)) /\ Without(d, fs).users = d.users
           /\ DOMAIN Without(d, fs).folders = DOMAIN d.folders \ fs
           /\ DOMAIN Without(d, fs).files = DOMAIN d.files
           /\ \A f \in DOMAIN d.folders \ fs : Without(d, fs).folders[f] = d.folders[f]
           /\ \A m \in DOMAIN d.files : Without(d, fs).files[m].owner = d.files[m].owner
           /\ \A m \in DOMAIN d.files : d.files[m].folder \notin fs =>
                  Without(d, fs).files[m] = d.files[m]
<1> DEFINE rest == DOMAIN d.folders \ fs
           folders == [f \in rest |-> d.folders[f]]
           files == [m \in DOMAIN d.files |->
               IF d.files[m].folder \in fs
               THEN [owner |-> d.files[m].owner, folder |-> None] ELSE d.files[m]]
           e == Without(d, fs)
<1>1. Tabular(d) /\ TypedRows(d) /\ Agreeing(d) /\ Closed(d)
  BY SoundIs, RowsClosed
<1>2. d = [users |-> d.users, folders |-> d.folders, files |-> d.files, next |-> d.next]
  BY <1>1 DEF Tabular
<1>3. e = [users |-> d.users, folders |-> folders, files |-> files, next |-> d.next]
  <2>1. e = [d EXCEPT !.folders = folders, !.files = files]
    BY DEF Without
  <2> HIDE DEF e, folders, files
  <2> QED
    BY <1>2, <2>1
<1> HIDE DEF e
<1>4. /\ DOMAIN folders = rest /\ DOMAIN files = DOMAIN d.files
      /\ folders = [g \in DOMAIN folders |-> folders[g]]
      /\ files = [m \in DOMAIN files |-> files[m]]
  OBVIOUS
<1>5. \A f \in rest : folders[f] = d.folders[f]
  OBVIOUS
<1>6. ASSUME NEW m \in DOMAIN d.files, d.files[m].folder \in fs
      PROVE  /\ files[m].owner = d.files[m].owner /\ files[m].folder = None
             /\ files[m] \in [owner : d.users, folder : rest \cup {None}]
  <2>1. files[m] = [owner |-> d.files[m].owner, folder |-> None]
    BY <1>6
  <2>2. d.files[m].owner \in d.users
    BY <1>1 DEF TypedRows
  <2> HIDE DEF files, rest
  <2> QED
    BY <2>1, <2>2
<1>7. ASSUME NEW m \in DOMAIN d.files, d.files[m].folder \notin fs
      PROVE  /\ files[m] = d.files[m]
             /\ files[m] \in [owner : d.users, folder : rest \cup {None}]
  <2>1. files[m] = d.files[m]
    BY <1>7
  <2>2. d.files[m] \in [owner : d.users, folder : DOMAIN d.folders \cup {None}]
    BY <1>1 DEF TypedRows
  <2> HIDE DEF files
  <2> QED
    BY <1>7, <2>1, <2>2
<1> HIDE DEF folders, files
<1>8. Tabular(e)
  BY <1>3, <1>4 DEF Tabular
<1>9. TypedRows(e)
  <2>1. ASSUME NEW f \in rest
        PROVE  folders[f] \in [owner : d.users, parent : rest \cup {None}]
    <3>1. d.folders[f] \in [owner : d.users, parent : DOMAIN d.folders \cup {None}]
      BY <1>1 DEF TypedRows
    <3>2. d.folders[f].parent \notin fs
      BY DEF Parent
    <3> QED
      BY <1>5, <3>1, <3>2
  <2>2. \A m \in DOMAIN d.files : files[m] \in [owner : d.users, folder : rest \cup {None}]
    BY <1>6, <1>7
  <2>3. rest \subseteq 1 .. d.next - 1
    BY <1>1 DEF TypedRows
  <2> HIDE DEF rest
  <2> QED
    BY <1>1, <1>3, <1>4, <2>1, <2>2, <2>3 DEF TypedRows
<1>10. Agreeing(e)
  <2>1. ASSUME NEW f \in rest, folders[f].parent # None
        PROVE  folders[f].owner = folders[folders[f].parent].owner
    <3> DEFINE p == Parent(d, f)
    <3>1. folders[f].parent = p /\ folders[f].owner = d.folders[f].owner
      BY <1>5 DEF Parent
    <3>2. p \in rest
      BY <1>1, <2>1, <3>1 DEF Closed
    <3>3. d.folders[f].owner = d.folders[p].owner
      BY <1>1, <2>1, <3>1 DEF Agreeing
    <3> HIDE DEF p, rest
    <3> QED
      BY <1>5, <3>1, <3>2, <3>3
  <2>2. ASSUME NEW m \in DOMAIN d.files, files[m].folder # None
        PROVE  files[m].owner = folders[files[m].folder].owner
    <3> DEFINE p == d.files[m].folder
    <3>1. p \notin fs
      BY <1>6, <2>2
    <3>2. files[m] = d.files[m]
      BY <1>7, <3>1
    <3>3. p \in rest /\ d.files[m].owner = d.folders[p].owner
      BY <1>1, <2>2, <3>1, <3>2 DEF Agreeing, TypedRows
    <3> QED
      BY <1>5, <3>2, <3>3
  <2> QED
    BY <1>3, <1>4, <2>1, <2>2 DEF Agreeing, Parent
<1> QED
  BY <1>3, <1>4, <1>5, <1>6, <1>7, <1>8, <1>9, <1>10, SoundIs DEF e

\* Users can be removed with their folders, when they have no files.
LEMMA WithoutUsersSound ==
    ASSUME NEW d, Sound(d), NEW us, \A u \in us : EmptyUser(d, u)
    PROVE  Sound(WithoutUsers(d, us))
<1> DEFINE fs == {f \in DOMAIN d.folders : d.folders[f].owner \in us}
           c == Without(d, fs)
           e == WithoutUsers(d, us)
<1>1. Tabular(d) /\ TypedRows(d) /\ Agreeing(d) /\ Closed(d)
  BY SoundIs, RowsClosed
<1>2. \A f \in DOMAIN d.folders : Parent(d, f) \in fs => f \in fs
  BY <1>1 DEF Agreeing, Closed
<1>3. \A m \in DOMAIN d.files : d.files[m].owner \notin us
  BY DEF EmptyUser
<1>4. /\ Sound(c) /\ c.users = d.users
      /\ DOMAIN c.folders = DOMAIN d.folders \ fs /\ DOMAIN c.files = DOMAIN d.files
      /\ \A f \in DOMAIN d.folders \ fs : c.folders[f] = d.folders[f]
      /\ \A m \in DOMAIN d.files : c.files[m].owner = d.files[m].owner
  <2>1. fs \in SUBSET DOMAIN d.folders
    OBVIOUS
  <2> HIDE DEF fs
  <2> QED
    BY <1>2, <2>1, WithoutSound
<1>5. Tabular(c) /\ TypedRows(c) /\ Agreeing(c)
  BY <1>4, SoundIs
<1>6. e = [users |-> c.users \ us, folders |-> c.folders, files |-> c.files, next |-> c.next]
  <2>1. e = [c EXCEPT !.users = @ \ us]
    BY DEF WithoutUsers
  <2>2. c = [users |-> c.users, folders |-> c.folders, files |-> c.files, next |-> c.next]
    BY <1>5 DEF Tabular
  <2> HIDE DEF c, e
  <2> QED
    BY <2>1, <2>2
<1>7. \A f \in DOMAIN c.folders : c.folders[f].owner \notin us
  BY <1>4
<1>8. \A m \in DOMAIN c.files : c.files[m].owner \notin us
  BY <1>3, <1>4
<1> HIDE DEF c, e
<1>9. Tabular(e)
  BY <1>5, <1>6 DEF Tabular
<1>10. TypedRows(e)
  <2>1. \A f \in DOMAIN c.folders :
            c.folders[f] \in [owner : c.users \ us, parent : DOMAIN c.folders \cup {None}]
    BY <1>5, <1>7 DEF TypedRows
  <2>2. \A m \in DOMAIN c.files :
            c.files[m] \in [owner : c.users \ us, folder : DOMAIN c.folders \cup {None}]
    BY <1>5, <1>8 DEF TypedRows
  <2> QED
    BY <1>5, <1>6, <2>1, <2>2 DEF TypedRows
<1>11. Agreeing(e)
  BY <1>5, <1>6 DEF Agreeing, Parent
<1> QED
  BY <1>9, <1>10, <1>11, SoundIs DEF e

LEMMA WithoutFileSound ==
    ASSUME NEW d, Sound(d), NEW m
    PROVE  Sound(WithoutFile(d, m)) /\ \A u : Keeps(d, WithoutFile(d, m), u, {m})
<1> DEFINE files == [n \in DOMAIN d.files \ {m} |-> d.files[n]]
           e == WithoutFile(d, m)
<1>1. Tabular(d) /\ TypedRows(d) /\ Agreeing(d)
  BY SoundIs
<1>2. e = [users |-> d.users, folders |-> d.folders, files |-> files, next |-> d.next]
  <2>1. d = [users |-> d.users, folders |-> d.folders, files |-> d.files, next |-> d.next]
    BY <1>1 DEF Tabular
  <2>2. e = [d EXCEPT !.files = files]
    BY DEF WithoutFile
  <2> HIDE DEF e, files
  <2> QED
    BY <2>1, <2>2
<1>3. /\ DOMAIN files = DOMAIN d.files \ {m}
      /\ files = [n \in DOMAIN files |-> files[n]]
      /\ \A n \in DOMAIN d.files \ {m} : files[n] = d.files[n]
  OBVIOUS
<1> HIDE DEF e, files
<1>4. Tabular(e)
  BY <1>1, <1>2, <1>3 DEF Tabular
<1>5. TypedRows(e)
  BY <1>1, <1>2, <1>3 DEF TypedRows
<1>6. Agreeing(e)
  BY <1>1, <1>2, <1>3 DEF Agreeing, Parent
<1>7. \A u : Keeps(d, e, u, {m})
  BY <1>2, <1>3 DEF Keeps
<1> QED
  BY <1>4, <1>5, <1>6, <1>7, SoundIs DEF e

\* Cutting edges of loops makes roots.
LEMMA LoopsBrokenSound ==
    ASSUME NEW d, Sound(d), NEW e \in LoopsBroken(d)
    PROVE  Sound(e)
<1>1. Tabular(d) /\ TypedRows(d) /\ Agreeing(d)
  BY SoundIs
<1>2. PICK cut \in SUBSET InLoop(d) :
          e = [d EXCEPT !.folders = [f \in DOMAIN @ |->
                  IF f \in cut THEN [owner |-> @[f].owner, parent |-> None] ELSE @[f]]]
  BY DEF LoopsBroken
<1> DEFINE folders == [f \in DOMAIN d.folders |->
               IF f \in cut THEN [owner |-> d.folders[f].owner, parent |-> None]
               ELSE d.folders[f]]
<1>3. e = [users |-> d.users, folders |-> folders, files |-> d.files, next |-> d.next]
  <2>1. d = [users |-> d.users, folders |-> d.folders, files |-> d.files, next |-> d.next]
    BY <1>1 DEF Tabular
  <2>2. e = [d EXCEPT !.folders = folders]
    BY <1>2
  <2> HIDE DEF folders
  <2> QED
    BY <2>1, <2>2
<1>4. DOMAIN folders = DOMAIN d.folders /\ folders = [f \in DOMAIN folders |-> folders[f]]
  OBVIOUS
<1>5. ASSUME NEW f \in DOMAIN d.folders, f \in cut
      PROVE  /\ folders[f].owner = d.folders[f].owner /\ folders[f].parent = None
             /\ folders[f] \in [owner : d.users, parent : DOMAIN d.folders \cup {None}]
  <2>1. folders[f] = [owner |-> d.folders[f].owner, parent |-> None]
    BY <1>5
  <2>2. d.folders[f].owner \in d.users
    BY <1>1 DEF TypedRows
  <2> HIDE DEF folders
  <2> QED
    BY <2>1, <2>2
<1>6. \A f \in DOMAIN d.folders : f \notin cut => folders[f] = d.folders[f]
  OBVIOUS
<1> HIDE DEF folders
<1>7. \A f \in DOMAIN d.folders : folders[f].owner = d.folders[f].owner
  BY <1>5, <1>6
<1>8. Tabular(e)
  BY <1>1, <1>3, <1>4 DEF Tabular
<1>9. TypedRows(e)
  <2>1. \A f \in DOMAIN d.folders :
            folders[f] \in [owner : d.users, parent : DOMAIN d.folders \cup {None}]
    BY <1>1, <1>5, <1>6 DEF TypedRows
  <2> QED
    BY <1>1, <1>3, <1>4, <2>1 DEF TypedRows
<1>10. Agreeing(e)
  <2>1. ASSUME NEW f \in DOMAIN d.folders, folders[f].parent # None
        PROVE  folders[f].owner = folders[folders[f].parent].owner
    <3>1. folders[f] = d.folders[f]
      BY <1>5, <1>6, <2>1
    <3>2. d.folders[f].parent \in DOMAIN d.folders
      BY <1>1, <2>1, <3>1 DEF TypedRows
    <3>3. d.folders[f].owner = d.folders[d.folders[f].parent].owner
      BY <1>1, <2>1, <3>1 DEF Agreeing, Parent
    <3> QED
      BY <1>7, <3>1, <3>2, <3>3
  <2>2. \A m \in DOMAIN d.files : d.files[m].folder # None =>
            d.files[m].owner = folders[d.files[m].folder].owner
    BY <1>1, <1>7 DEF Agreeing, TypedRows
  <2> QED
    BY <1>3, <1>4, <2>1, <2>2 DEF Agreeing, Parent
<1> QED
  BY <1>8, <1>9, <1>10, SoundIs

\* A user comes; a file comes, of that user or another.
LEMMA LoginSound ==
    ASSUME NEW d, Sound(d), NEW u \in Users
    PROVE  Sound([d EXCEPT !.users = @ \cup {u}])
<1> DEFINE e == [d EXCEPT !.users = @ \cup {u}]
<1>1. Tabular(d) /\ TypedRows(d) /\ Agreeing(d)
  BY SoundIs
<1>2. e = [users |-> d.users \cup {u}, folders |-> d.folders, files |-> d.files,
           next |-> d.next]
  <2>1. d = [users |-> d.users, folders |-> d.folders, files |-> d.files, next |-> d.next]
    BY <1>1 DEF Tabular
  <2> QED
    BY <2>1
<1> HIDE DEF e
<1>3. Tabular(e)
  BY <1>1, <1>2 DEF Tabular
<1>4. TypedRows(e)
  <2>1. \A f \in DOMAIN d.folders :
            d.folders[f] \in [owner : e.users, parent : DOMAIN d.folders \cup {None}]
    BY <1>1, <1>2 DEF TypedRows
  <2>2. \A m \in DOMAIN d.files :
            d.files[m] \in [owner : e.users, folder : DOMAIN d.folders \cup {None}]
    BY <1>1, <1>2 DEF TypedRows
  <2> QED
    BY <1>1, <1>2, <2>1, <2>2 DEF TypedRows
<1>5. Agreeing(e)
  BY <1>1, <1>2 DEF Agreeing, Parent
<1> QED
  BY <1>3, <1>4, <1>5, SoundIs DEF e

LEMMA IngestSound ==
    ASSUME NEW d, Sound(d), NEW u \in Users, NEW m \in Files \ DOMAIN d.files
    PROVE  LET e == [d EXCEPT !.users = @ \cup {u},
                              !.files = Put(@, m, [owner |-> u, folder |-> None])] IN
           Sound(e) /\ u \in e.users
<1> DEFINE row == [owner |-> u, folder |-> None]
           files == Put(d.files, m, row)
           c == [d EXCEPT !.users = @ \cup {u}]
           e == [d EXCEPT !.users = @ \cup {u}, !.files = files]
<1>1. Tabular(c) /\ TypedRows(c) /\ Agreeing(c)
  <2>1. Sound(c)
    BY LoginSound
  <2> HIDE DEF c
  <2> QED
    BY <2>1, SoundIs
<1>2. d = [users |-> d.users, folders |-> d.folders, files |-> d.files, next |-> d.next]
  BY SoundIs DEF Tabular
<1>3. c = [users |-> d.users \cup {u}, folders |-> d.folders, files |-> d.files,
           next |-> d.next]
  BY <1>2
<1>4. e = [users |-> d.users \cup {u}, folders |-> d.folders, files |-> files,
           next |-> d.next]
  <2> DEFINE users == d.users \cup {u}
  <2>1. e = [d EXCEPT !.users = users, !.files = files]
    OBVIOUS
  <2> HIDE DEF c, e, files, users
  <2>2. e = [users |-> users, folders |-> d.folders, files |-> files, next |-> d.next]
    BY <1>2, <2>1
  <2> QED
    BY <2>2 DEF users
<1>5. /\ DOMAIN files = DOMAIN d.files \cup {m} /\ files[m] = row
      /\ \A n \in DOMAIN d.files : files[n] = d.files[n]
      /\ files = [n \in DOMAIN files |-> files[n]]
  <2> HIDE DEF row
  <2> QED
    BY DEF Put
<1> HIDE DEF c, e, files
<1>6. Tabular(e)
  BY <1>1, <1>3, <1>4, <1>5 DEF Tabular
<1>7. TypedRows(e)
  <2>1. \A n \in DOMAIN files :
            files[n] \in [owner : c.users, folder : DOMAIN c.folders \cup {None}]
    BY <1>1, <1>3, <1>5 DEF TypedRows
  <2> QED
    BY <1>1, <1>3, <1>4, <1>5, <2>1 DEF TypedRows
<1>8. Agreeing(e)
  BY <1>1, <1>3, <1>4, <1>5 DEF Agreeing, Parent
<1> QED
  BY <1>4, <1>6, <1>7, <1>8, SoundIs DEF e, files

-----------------------------------------------------------------------------
(* What the handlers do.                                                   *)

\* A handler leaves the database sound; the files a trashing begins with are
\* files; and what others own is kept, by one who is no admin.
Good(u) ==
    /\ Sound(db') /\ trash' \in [Users -> SUBSET Files] /\ commands' \in 0 .. MaxCommands
    /\ u \notin Admins => Keeps(db, db', u, trash[u])

LEMMA KeepsMore ==
    ASSUME NEW d, NEW e, NEW u, NEW ms, NEW ns, ms \subseteq ns, Keeps(d, e, u, ms)
    PROVE  Keeps(d, e, u, ns)
  BY DEF Keeps

LEMMA CommandCounts ==
    ASSUME commands \in 0 .. MaxCommands, Command
    PROVE  commands' \in 0 .. MaxCommands
  BY ConstantsAssumption DEF Command

LEMMA VisitGood ==
    ASSUME TypeOK, OwnersAgree, NEW u \in Users, Visit(u)
    PROVE  Good(u)
<1>1. Sound(db) /\ Show(u, db)
  BY DEF Sound, TypeOK, OwnersAgree, Visit
<1> QED
  BY <1>1, ShowSound DEF Good, Visit, TypeOK

LEMMA NewFolderGood ==
    ASSUME TypeOK, OwnersAgree, NEW u \in Users, NEW f, NewFolder(u, f)
    PROVE  Good(u)
<1> DEFINE d == Rooted(db, u)
           e == WithFolder(d, f)
<1>1. Sound(db) /\ u \in db.users
  BY DEF Sound, TypeOK, OwnersAgree, NewFolder
<1>2. Sound(d) /\ Keeps(db, d, u, trash[u])
  BY <1>1, RootedSound, RootedKeeps
<1>3. f \in DOMAIN d.folders
  BY DEF NewFolder
<1>4. Sound(e) /\ Keeps(d, e, u, trash[u])
  <2> HIDE DEF d
  <2> QED
    BY <1>2, <1>3, WithFolderSound
<1>5. (db' = d) \/ Show(u, e)
  BY DEF NewFolder
<1>6. trash' \in [Users -> SUBSET Files] /\ commands' \in 0 .. MaxCommands
  BY CommandCounts DEF NewFolder, TypeOK
<1> HIDE DEF d, e
<1>7. CASE db' = d
  BY <1>2, <1>6, <1>7 DEF Good
<1>8. CASE Show(u, e)
  <2>1. Sound(db') /\ (u \notin Admins => Keeps(e, db', u, trash[u]))
    BY <1>4, <1>8, ShowSound
  <2> QED
    BY <1>2, <1>4, <1>6, <2>1, KeepsTransitive DEF Good
<1> QED
  BY <1>5, <1>7, <1>8

LEMMA MoveGood ==
    ASSUME TypeOK, OwnersAgree, NEW u \in Users, NEW n \in Nat, NEW items,
           DOMAIN items = 1 .. n, NEW dst, Move(u, items, dst)
    PROVE  Good(u)
<1> DEFINE e == MovedAll(db, u, items, dst).db
<1>1. Sound(db)
  BY DEF Sound, TypeOK, OwnersAgree
<1>2. dst \in DOMAIN db.folders /\ May(u, db.folders[dst].owner)
  BY DEF Move
<1>3. Sound(e) /\ (u \notin Admins => Keeps(db, e, u, trash[u]))
  <2>1. e \in Moving(db, u, dst)
    BY <1>1, <1>2, MovedAllSound
  <2> HIDE DEF e
  <2> QED
    BY <2>1, KeepsMore DEF Moving
<1>4. (db' = e) \/ Show(u, e)
  BY DEF Move
<1>5. trash' \in [Users -> SUBSET Files] /\ commands' \in 0 .. MaxCommands
  BY CommandCounts DEF Move, TypeOK
<1> HIDE DEF e
<1>6. CASE db' = e
  BY <1>3, <1>5, <1>6 DEF Good
<1>7. CASE Show(u, e)
  <2>1. Sound(db') /\ (u \notin Admins => Keeps(e, db', u, trash[u]))
    BY <1>3, <1>7, ShowSound
  <2> QED
    BY <1>3, <1>5, <2>1, KeepsTransitive DEF Good
<1> QED
  BY <1>4, <1>6, <1>7

LEMMA TrashGood ==
    ASSUME TypeOK, OwnersAgree, NEW u \in Users, NEW f, Trash(u, f)
    PROVE  Good(u)
<1> DEFINE d == Rooted(db, u)
           below == Below(d, f)
           files == FilesIn(d, below)
           e == Without(d, below)
<1>1. Sound(db) /\ u \in db.users
  BY DEF Sound, TypeOK, OwnersAgree, Trash
<1>2. Sound(d) /\ Keeps(db, d, u, trash[u])
  BY <1>1, RootedSound, RootedKeeps
<1>3. Closed(d) /\ Agreeing(d) /\ DOMAIN d.files \subseteq Files
  <2> HIDE DEF d
  <2> QED
    BY <1>2, SoundIs, RowsClosed DEF TypedRows
<1>4. trash \in [Users -> SUBSET Files] /\ commands' \in 0 .. MaxCommands
  BY CommandCounts DEF Trash, TypeOK
<1>5. CASE ~CanTrash(d, u, f)
  BY <1>2, <1>4, <1>5 DEF Good, Trash
<1>6. CASE CanTrash(d, u, f)
  <2>1. f \in DOMAIN d.folders /\ \A g \in below : May(u, d.folders[g].owner)
    BY <1>6 DEF CanTrash
  <2>2. below \in SUBSET DOMAIN d.folders
    BY DEF Below
  <2>3. \A g \in DOMAIN d.folders : Parent(d, g) \in below => g \in below
    <3> HIDE DEF d
    <3> QED
      BY <1>3, <2>1, <2>2, BelowClosed DEF Closed
  <2> HIDE DEF d, below
  <2>4. /\ Sound(e)
        /\ DOMAIN e.folders = DOMAIN d.folders \ below
        /\ DOMAIN e.files = DOMAIN d.files
        /\ \A g \in DOMAIN d.folders \ below : e.folders[g] = d.folders[g]
        /\ \A m \in DOMAIN d.files : d.files[m].folder \notin below =>
               e.files[m] = d.files[m]
    BY <1>2, <2>2, <2>3, WithoutSound
  <2> HIDE DEF e
  <2>5. ASSUME u \notin Admins  PROVE  Keeps(d, e, u, trash[u])
    <3>1. \A g \in below : d.folders[g].owner = u
      BY <2>1, <2>5 DEF May
    <3>2. \A m \in DOMAIN d.files : d.files[m].folder \in below => d.files[m].owner = u
      BY <1>3, <2>2, <3>1 DEF Agreeing, Closed
    <3> QED
      BY <2>4, <3>1, <3>2 DEF Keeps
  <2>6. CASE Show(u, e) /\ UNCHANGED trash
    <3>1. Sound(db') /\ (u \notin Admins => Keeps(e, db', u, trash[u]))
      BY <2>4, <2>6, ShowSound
    <3> QED
      BY <1>2, <1>4, <2>5, <2>6, <3>1, KeepsTransitive DEF Good
  <2>7. CASE trash' = [trash EXCEPT ![u] = files] /\ db' = e
    <3>1. files \in SUBSET Files
      BY <1>3 DEF FilesIn
    <3> HIDE DEF files
    <3>2. trash' \in [Users -> SUBSET Files]
      BY <1>4, <2>7, <3>1
    <3> QED
      BY <1>2, <1>4, <2>4, <2>5, <2>7, <3>2, KeepsTransitive DEF Good
  <2> QED
    BY <1>6, <2>6, <2>7 DEF Trash, d, e, below
<1> QED
  BY <1>5, <1>6

LEMMA TrashFileGood ==
    ASSUME TypeOK, OwnersAgree, NEW u \in Users, NEW m, TrashFile(u, m)
    PROVE  Good(u)
<1> DEFINE e == WithoutFile(db, m)
<1>1. Sound(db) /\ m \in trash[u]
  BY DEF Sound, TypeOK, OwnersAgree, TrashFile
<1>2. Sound(e) /\ Keeps(db, e, u, trash[u])
  <2>1. Sound(e) /\ Keeps(db, e, u, {m})
    BY <1>1, WithoutFileSound
  <2> HIDE DEF e
  <2> QED
    BY <1>1, <2>1, KeepsMore
<1>3. trash' \in [Users -> SUBSET Files] /\ commands' \in 0 .. MaxCommands
  BY DEF TrashFile, TypeOK
<1>4. (db' = e) \/ Show(u, e)
  BY DEF TrashFile
<1> HIDE DEF e
<1>5. CASE db' = e
  BY <1>2, <1>3, <1>5 DEF Good
<1>6. CASE Show(u, e)
  <2>1. Sound(db') /\ (u \notin Admins => Keeps(e, db', u, trash[u]))
    BY <1>2, <1>6, ShowSound
  <2> QED
    BY <1>2, <1>3, <2>1, KeepsTransitive DEF Good
<1> QED
  BY <1>4, <1>5, <1>6

LEMMA TrashFileFailsGood ==
    ASSUME TypeOK, OwnersAgree, NEW u \in Users, TrashFileFails(u)
    PROVE  Good(u)
  BY DEF TypeOK, OwnersAgree, Sound, TrashFileFails, Good, Keeps

LEMMA CleanupUserGood ==
    ASSUME TypeOK, OwnersAgree, NEW u \in Users, NEW f, CleanupUser(u, f)
    PROVE  Good(u)
<1> DEFINE owner == db.folders[f].owner
           e == IF EmptyUser(db, owner) THEN WithoutUsers(db, {owner}) ELSE db
<1>1. Sound(db) /\ u \in Admins /\ Show(u, e)
  BY DEF Sound, TypeOK, OwnersAgree, CleanupUser
<1>2. Sound(e)
  <2> HIDE DEF owner
  <2>1. CASE EmptyUser(db, owner)
    <3>1. Sound(WithoutUsers(db, {owner}))
      BY <1>1, <2>1, WithoutUsersSound
    <3> QED
      BY <2>1, <3>1
  <2>2. CASE ~EmptyUser(db, owner)
    BY <1>1, <2>2
  <2> QED
    BY <2>1, <2>2
<1>3. trash' \in [Users -> SUBSET Files] /\ commands' \in 0 .. MaxCommands
  BY CommandCounts DEF CleanupUser, TypeOK
<1> HIDE DEF e
<1> QED
  BY <1>1, <1>2, <1>3, ShowSound DEF Good

LEMMA CleanupUsersGood ==
    ASSUME TypeOK, OwnersAgree, NEW u \in Users, CleanupUsers(u)
    PROVE  Good(u)
<1> DEFINE d == Rooted(db, u)
           us == {v \in d.users \ {u} : EmptyUser(d, v)}
           e == WithoutUsers(d, us)
<1>1. Sound(db) /\ u \in Admins /\ u \in db.users /\ Show(u, e)
  BY DEF Sound, TypeOK, OwnersAgree, CleanupUsers
<1>2. Sound(e)
  <2>1. Sound(d)
    BY <1>1, RootedSound
  <2>2. \A v \in us : EmptyUser(d, v)
    OBVIOUS
  <2> HIDE DEF d, us
  <2> QED
    BY <2>1, <2>2, WithoutUsersSound
<1>3. trash' \in [Users -> SUBSET Files] /\ commands' \in 0 .. MaxCommands
  BY CommandCounts DEF CleanupUsers, TypeOK
<1> HIDE DEF e
<1> QED
  BY <1>1, <1>2, <1>3, ShowSound DEF Good

LEMMA HandlersGood ==
    ASSUME TypeOK, OwnersAgree, NEW u \in Users, Handlers(u)
    PROVE  Good(u)
<1>1. CASE Visit(u)
  BY <1>1, VisitGood
<1>2. ASSUME NEW f \in 1 .. db.next, NewFolder(u, f)  PROVE  Good(u)
  BY <1>2, NewFolderGood
<1>3. ASSUME NEW dst \in DOMAIN db.folders,
             NEW it \in DOMAIN db.folders \cup DOMAIN db.files,
             NEW other \in DOMAIN db.folders \cup DOMAIN db.files,
             Move(u, IF other = it THEN <<it>> ELSE <<it, other>>, dst)
      PROVE  Good(u)
  <2> DEFINE items == IF other = it THEN <<it>> ELSE <<it, other>>
  <2>1. PICK n \in Nat : DOMAIN items = 1 .. n
    <3>1. CASE other = it
      BY <3>1
    <3>2. CASE other # it
      BY <3>2
    <3> QED
      BY <3>1, <3>2
  <2>2. Move(u, items, dst)
    BY <1>3
  <2> HIDE DEF items
  <2> QED
    BY <2>1, <2>2, MoveGood
<1>4. ASSUME NEW f \in DOMAIN db.folders, Trash(u, f)  PROVE  Good(u)
  BY <1>4, TrashGood
<1>5. ASSUME NEW f \in DOMAIN db.folders, CleanupUser(u, f)  PROVE  Good(u)
  BY <1>5, CleanupUserGood
<1>6. ASSUME NEW m \in Files, TrashFile(u, m)  PROVE  Good(u)
  BY <1>6, TrashFileGood
<1>7. CASE TrashFileFails(u)
  BY <1>7, TrashFileFailsGood
<1>8. CASE CleanupUsers(u)
  BY <1>8, CleanupUsersGood
<1> QED
  BY <1>1, <1>2, <1>3, <1>4, <1>5, <1>6, <1>7, <1>8 DEF Handlers

-----------------------------------------------------------------------------
(* Theorems.                                                               *)

LEMMA InitSound == Init => TypeOK /\ OwnersAgree
  BY ConstantsAssumption DEF Init, TypeOK, OwnersAgree

LEMMA NextSound ==
    ASSUME TypeOK, OwnersAgree, [Next]_vars
    PROVE  TypeOK' /\ OwnersAgree'
<1>1. Sound(db) /\ trash \in [Users -> SUBSET Files] /\ commands \in 0 .. MaxCommands
  BY DEF Sound, TypeOK, OwnersAgree
<1>2. SUFFICES /\ Sound(db') /\ trash' \in [Users -> SUBSET Files]
               /\ commands' \in 0 .. MaxCommands
  BY DEF Sound, TypeOK, OwnersAgree
<1>3. ASSUME NEW u \in Users, Handlers(u)
      PROVE  /\ Sound(db') /\ trash' \in [Users -> SUBSET Files]
             /\ commands' \in 0 .. MaxCommands
  BY <1>3, HandlersGood DEF Good
<1>4. ASSUME NEW u \in Users, Login(u)
      PROVE  /\ Sound(db') /\ trash' \in [Users -> SUBSET Files]
             /\ commands' \in 0 .. MaxCommands
  <2>1. db' = [db EXCEPT !.users = @ \cup {u}] /\ UNCHANGED <<trash, commands>>
    BY <1>4 DEF Login
  <2>2. Sound([db EXCEPT !.users = @ \cup {u}])
    BY <1>1, LoginSound
  <2> QED
    BY <1>1, <2>1, <2>2
<1>5. ASSUME NEW u \in Users, NEW m \in Files, Ingest(u, m)
      PROVE  /\ Sound(db') /\ trash' \in [Users -> SUBSET Files]
             /\ commands' \in 0 .. MaxCommands
  <2> DEFINE d == [db EXCEPT !.users = @ \cup {u},
                             !.files = Put(@, m, [owner |-> u, folder |-> None])]
  <2>1. Sound(d) /\ u \in d.users
    <3>1. m \in Files \ DOMAIN db.files
      BY <1>5 DEF Ingest
    <3> QED
      BY <1>1, <3>1, IngestSound
  <2>2. (db' = d) \/ db' = Rooted(d, u)
    BY <1>5 DEF Ingest
  <2> HIDE DEF d
  <2>3. Sound(db')
    BY <2>1, <2>2, RootedSound
  <2> QED
    BY <1>1, <1>5, <2>3, CommandCounts DEF Ingest
<1>6. ASSUME NEW u \in Users, NEW m \in Files, Delete(u, m)
      PROVE  /\ Sound(db') /\ trash' \in [Users -> SUBSET Files]
             /\ commands' \in 0 .. MaxCommands
  BY <1>1, <1>6, WithoutFileSound DEF Delete
<1>7. CASE Restart
  <2>1. Sound(db')
    BY <1>1, <1>7, LoopsBrokenSound DEF Restart
  <2> QED
    BY <1>1, <1>7, <2>1 DEF Restart
<1>8. CASE UNCHANGED vars
  BY <1>1, <1>8 DEF vars
<1> QED
  BY <1>3, <1>4, <1>5, <1>6, <1>7, <1>8 DEF Next

\* Ids, owners and parents are those of the tables, always: whatever the
\* handlers, the server and restarts do to the database one after the other.
THEOREM TypeCorrect == Spec => []TypeOK
<1>1. Init => TypeOK /\ OwnersAgree
  BY InitSound
<1>2. (TypeOK /\ OwnersAgree) /\ [Next]_vars => (TypeOK /\ OwnersAgree)'
  BY NextSound
<1> QED
  BY <1>1, <1>2, PTL DEF Spec

\* Whatever lies in a folder belongs to the folder's owner, always.
THEOREM OwnersInAgreement == Spec => []OwnersAgree
<1>1. Init => TypeOK /\ OwnersAgree
  BY InitSound
<1>2. (TypeOK /\ OwnersAgree) /\ [Next]_vars => (TypeOK /\ OwnersAgree)'
  BY NextSound
<1> QED
  BY <1>1, <1>2, PTL DEF Spec

\* One who is no admin changes nothing that others own, in any one command.
THEOREM OthersUntouched == Spec => OthersKeep
<1>1. ASSUME TypeOK, OwnersAgree, NEW u \in Users \ Admins, Touched(u), Handlers(u)
      PROVE  FALSE
  <2>1. Keeps(db, db', u, trash[u])
    BY <1>1, HandlersGood DEF Good
  <2> QED
    BY <1>1, <2>1 DEF Keeps, Touched
<1>2. TypeOK /\ OwnersAgree => [\A u \in Users \ Admins : Touched(u) => ~Handlers(u)]_vars
  BY <1>1
<1> QED
  BY <1>2, TypeCorrect, OwnersInAgreement, PTL DEF OthersKeep

\* Who follows the parents of a folder and meets no loop comes to a root.
LEMMA ComesToRoot ==
    ASSUME NEW d, Closed(d), NEW f \in DOMAIN d.folders, Above(d, f) \cap InLoop(d) = {}
    PROVE  \E h \in Above(d, f) : Parent(d, h) = None
<1> DEFINE Q == {Above(d, h) : h \in Above(d, f)}
<1>1. \A h \in Above(d, f) :
          /\ h \in DOMAIN d.folders /\ h \in Above(d, h)
          /\ Above(d, h) \subseteq DOMAIN d.folders
          /\ Parent(d, h) # None => Parent(d, h) \in Above(d, f) \cap Above(d, h)
  BY AboveClosed
<1>2. PICK T \in Q : \A U \in Q : U \subseteq T => U = T
  <2>1. Q \subseteq SUBSET DOMAIN d.folders /\ Q # {}
    BY <1>1, AboveClosed
  <2> HIDE DEF Q
  <2> QED
    BY <2>1, SmallestMember DEF Closed
<1>3. PICK h \in Above(d, f) : T = Above(d, h)
  OBVIOUS
<1>4. SUFFICES ASSUME Parent(d, h) # None  PROVE  FALSE
  OBVIOUS
<1> DEFINE p == Parent(d, h)
<1>5. p \in Above(d, f) /\ p \in Above(d, h)
  BY <1>1, <1>4
<1>6. Above(d, p) \subseteq Above(d, h)
  <2>1. \A g \in Above(d, h) \cap DOMAIN d.folders :
            Parent(d, g) # None => Parent(d, g) \in Above(d, h)
    BY <1>1, AboveClosed
  <2> HIDE DEF p
  <2> QED
    BY <1>1, <1>5, <2>1, AboveLeast
<1>7. Above(d, p) = Above(d, h)
  BY <1>2, <1>3, <1>5, <1>6
<1>8. h \in InLoop(d)
  BY <1>1, <1>4, <1>7 DEF InLoop
<1> QED
  BY <1>8

\* The page of u, in what looking up the root folder has made of d.
LEMMA RootedShowsAll ==
    ASSUME NEW d, Sound(d), NEW u \in d.users
    PROVE  LET e == Rooted(d, u) IN
           \E root \in DOMAIN e.folders :
               /\ Roots(e, u) = {root}
               /\ \A f \in DOMAIN e.folders :
                      e.folders[f].owner = u =>
                          f \in Below(e, root) \/ Above(e, f) \cap InLoop(e) # {}
               /\ \A m \in DOMAIN e.files : e.files[m].owner = u => e.files[m].folder # None
<1> DEFINE e == Rooted(d, u)
<1>1. PICK root : RootedWith(d, u, e, root)
  BY RootedShape, SoundIs
<1>2. Sound(e)
  BY RootedSound
<1>3. Closed(d) /\ d.next \in Nat
  BY SoundIs, RowsClosed DEF TypedRows
<1> HIDE DEF e
<1>4. Closed(e) /\ Agreeing(e)
  BY <1>2, SoundIs, RowsClosed
<1>5. root \in DOMAIN e.folders /\ root # None
  BY <1>1, <1>4 DEF RootedWith, Closed
<1>6. Roots(e, u) = {root}
  <2>1. root \in Roots(e, u)
    BY <1>1, <1>5 DEF RootedWith, Roots, Parent
  <2>2. ASSUME NEW f \in DOMAIN d.folders \ {root}  PROVE  f \notin Roots(e, u)
    <3>1. CASE f \in Roots(d, u)
      <4>1. e.folders[f] = [owner |-> u, parent |-> root]
        BY <1>1, <3>1 DEF RootedWith
      <4> QED
        BY <1>5, <4>1 DEF Roots, Parent
    <3>2. CASE f \notin Roots(d, u)
      <4>1. e.folders[f] = d.folders[f]
        BY <1>1, <3>2 DEF RootedWith
      <4> QED
        BY <3>2, <4>1 DEF Roots, Parent
    <3> QED
      BY <3>1, <3>2
  <2>3. \A f \in Roots(e, u) : f \in DOMAIN d.folders \cup {root}
    BY <1>1 DEF RootedWith, Roots
  <2> QED
    BY <2>1, <2>2, <2>3
<1>7. ASSUME NEW f \in DOMAIN e.folders, e.folders[f].owner = u,
             Above(e, f) \cap InLoop(e) = {}
      PROVE  f \in Below(e, root)
  <2>1. PICK h \in Above(e, f) : Parent(e, h) = None
    BY <1>4, <1>7, ComesToRoot
  <2>2. h \in DOMAIN e.folders
    BY <1>4, AboveClosed
  <2>3. f \in Below(e, h)
    BY DEF Below
  <2>4. e.folders[h].owner = u
    BY <1>2, <1>7, <2>2, <2>3, BelowOwner
  <2>5. h \in Roots(e, u)
    BY <2>1, <2>2, <2>4 DEF Roots
  <2> QED
    BY <1>6, <2>3, <2>5
<1>8. ASSUME NEW m \in DOMAIN e.files, e.files[m].owner = u  PROVE  e.files[m].folder # None
  <2>1. m \in DOMAIN d.files
    BY <1>1 DEF RootedWith
  <2>2. CASE d.files[m].owner = u /\ d.files[m].folder = None
    <3>1. e.files[m] = [owner |-> u, folder |-> root]
      BY <1>1, <2>1, <2>2 DEF RootedWith
    <3> QED
      BY <1>5, <3>1
  <2>3. CASE ~(d.files[m].owner = u /\ d.files[m].folder = None)
    <3>1. e.files[m] = d.files[m]
      BY <1>1, <2>1, <2>3 DEF RootedWith
    <3> QED
      BY <1>8, <2>3, <3>1
  <2> QED
    BY <2>2, <2>3
<1> QED
  BY <1>5, <1>6, <1>7, <1>8 DEF e

\* A page shows all there is of the user's, whatever was done before.
THEOREM PagesComplete == Spec => PageShowsAll
<1>1. ASSUME TypeOK, OwnersAgree, NEW u \in Users, VisitOwn(u)
      PROVE  Complete(u)'
  <2>1. Sound(db) /\ u \in db.users /\ db' = Rooted(db, u)
    BY <1>1 DEF Sound, TypeOK, OwnersAgree, VisitOwn
  <2> QED
    BY <2>1, RootedShowsAll DEF Complete
<1>2. TypeOK /\ OwnersAgree => [\A u \in Users : VisitOwn(u) => Complete(u)']_vars
  BY <1>1
<1> QED
  BY <1>2, TypeCorrect, OwnersInAgreement, PTL DEF PageShowsAll

-----------------------------------------------------------------------------
(* Loops of folders.                                                       *)

\* Above a folder that lies in another are itself and all above that one.
LEMMA AboveStep ==
    ASSUME NEW d, Closed(d), NEW g \in DOMAIN d.folders, Parent(d, g) # None
    PROVE  /\ Parent(d, g) \in DOMAIN d.folders
           /\ Above(d, g) = {g} \cup Above(d, Parent(d, g))
<1> DEFINE p == Parent(d, g)
           S == {g} \cup Above(d, p)
<1>1. p \in DOMAIN d.folders /\ p # None
  BY DEF Closed
<1> HIDE DEF p
<1>2. g \in Above(d, g) /\ p \in Above(d, g)
  BY <1>1, AboveClosed DEF p
<1>3. \A h \in Above(d, g) \cap DOMAIN d.folders :
          Parent(d, h) # None => Parent(d, h) \in Above(d, g)
  BY AboveClosed
<1>4. Above(d, p) \subseteq Above(d, g)
  BY <1>1, <1>2, <1>3, AboveLeast
<1>5. p \in Above(d, p)
      /\ \A h \in Above(d, p) : Parent(d, h) # None => Parent(d, h) \in Above(d, p)
  BY <1>1, AboveClosed
<1>6. \A h \in S \cap DOMAIN d.folders : Parent(d, h) # None => Parent(d, h) \in S
  BY <1>5 DEF p
<1>7. Above(d, g) \subseteq S
  <2>1. g \in S
    OBVIOUS
  <2> HIDE DEF S
  <2> QED
    BY <2>1, <1>6, AboveLeast
<1> QED
  BY <1>1, <1>2, <1>4, <1>7 DEF p

\* All above a folder in a loop are in that loop, and the same for each of them.
LEMMA OneLoop ==
    ASSUME NEW d, Closed(d), NEW f \in InLoop(d), NEW g \in Above(d, f)
    PROVE  g \in InLoop(d) /\ Above(d, g) = Above(d, f)
<1> DEFINE S == {h \in Above(d, f) : f \in Above(d, h)}
<1>1. /\ f \in DOMAIN d.folders /\ Parent(d, f) # None /\ f \in Above(d, Parent(d, f))
  BY DEF InLoop
<1>2. /\ f \in Above(d, f) /\ Above(d, f) \subseteq DOMAIN d.folders
      /\ \A h \in Above(d, f) : Parent(d, h) # None => Parent(d, h) \in Above(d, f)
  BY <1>1, AboveClosed
<1>3. ASSUME NEW h \in S, Parent(d, h) # None  PROVE  Parent(d, h) \in S
  <2>1. h \in DOMAIN d.folders /\ Parent(d, h) \in Above(d, f)
    BY <1>2, <1>3
  <2>2. CASE h = f
    BY <2>1, <2>2, <1>1
  <2>3. CASE h # f
    BY <2>1, <2>3, <1>3, AboveStep
  <2> QED
    BY <2>2, <2>3
<1>4. Above(d, f) \subseteq S
  <2>1. f \in S /\ \A h \in S \cap DOMAIN d.folders : Parent(d, h) # None => Parent(d, h) \in S
    BY <1>2, <1>3
  <2> HIDE DEF S
  <2> QED
    BY <1>1, <2>1, AboveLeast
<1>5. ASSUME NEW h \in Above(d, f)  PROVE  Above(d, h) = Above(d, f)
  <2>1. h \in DOMAIN d.folders /\ f \in Above(d, h)
    BY <1>2, <1>4
  <2>2. \A i \in Above(d, h) \cap DOMAIN d.folders :
            Parent(d, i) # None => Parent(d, i) \in Above(d, h)
    BY <2>1, AboveClosed
  <2>3. Above(d, f) \subseteq Above(d, h)
    BY <1>1, <2>1, <2>2, AboveLeast
  <2>4. Above(d, h) \subseteq Above(d, f)
    BY <1>2, <2>1, AboveLeast
  <2> QED
    BY <2>3, <2>4
<1>6. g \in DOMAIN d.folders /\ f \in Above(d, g)
  BY <1>2, <1>4
<1>7. Parent(d, g) # None
  <2> SUFFICES ASSUME Parent(d, g) = None  PROVE  FALSE
    OBVIOUS
  <2>1. Above(d, g) \subseteq {g}
    BY <1>6, AboveLeast
  <2> QED
    BY <1>1, <1>6, <2>1
<1>8. Parent(d, g) \in Above(d, f)
  BY <1>2, <1>7
<1>9. g \in Above(d, Parent(d, g))
  BY <1>5, <1>8
<1> QED
  BY <1>5, <1>6, <1>7, <1>9 DEF InLoop

\* What db_check_for_folder_loops leaves: the rows of d, but for the edges cut.
CutFrom(d, e, cut) ==
    /\ DOMAIN e.folders = DOMAIN d.folders
    /\ \A f \in DOMAIN d.folders :
           Parent(e, f) = IF f \in cut THEN None ELSE Parent(d, f)

LEMMA BrokenIsCut ==
    ASSUME NEW d, Sound(d), NEW e \in LoopsBroken(d)
    PROVE  \E cut \in SUBSET InLoop(d) :
               /\ CutFrom(d, e, cut)
               /\ \A f \in InLoop(d) : Cardinality(cut \cap Above(d, f)) = 1
<1>1. PICK cut \in SUBSET InLoop(d) :
          /\ \A f \in InLoop(d) : Cardinality(cut \cap Above(d, f)) = 1
          /\ e = [d EXCEPT !.folders = [f \in DOMAIN @ |->
                     IF f \in cut THEN [owner |-> @[f].owner, parent |-> None] ELSE @[f]]]
  BY DEF LoopsBroken
<1> DEFINE folders == [f \in DOMAIN d.folders |->
               IF f \in cut THEN [owner |-> d.folders[f].owner, parent |-> None]
               ELSE d.folders[f]]
<1>2. e.folders = folders
  <2>1. d = [users |-> d.users, folders |-> d.folders, files |-> d.files, next |-> d.next]
    BY SoundIs DEF Tabular
  <2>2. e = [d EXCEPT !.folders = folders]
    BY <1>1
  <2> HIDE DEF folders
  <2> QED
    BY <2>1, <2>2
<1>3. DOMAIN folders = DOMAIN d.folders
  OBVIOUS
<1>4. ASSUME NEW f \in DOMAIN d.folders
      PROVE  folders[f].parent = IF f \in cut THEN None ELSE d.folders[f].parent
  <2>1. folders[f] = IF f \in cut THEN [owner |-> d.folders[f].owner, parent |-> None]
                     ELSE d.folders[f]
    OBVIOUS
  <2> HIDE DEF folders
  <2> QED
    BY <2>1
<1> HIDE DEF folders
<1>5. CutFrom(d, e, cut)
  BY <1>2, <1>3, <1>4 DEF CutFrom, Parent
<1> QED
  BY <1>1, <1>5

\* One edge less in every loop, and no loop is left: those of the repaired
\* tables would have been loops before, and whole.
LEMMA LoopsBrokenLeavesNone ==
    ASSUME NEW d, Sound(d), NEW e \in LoopsBroken(d)
    PROVE  InLoop(e) = {}
<1> SUFFICES ASSUME NEW f \in InLoop(e)  PROVE  FALSE
  OBVIOUS
<1>1. PICK cut \in SUBSET InLoop(d) :
          /\ CutFrom(d, e, cut)
          /\ \A g \in InLoop(d) : Cardinality(cut \cap Above(d, g)) = 1
  BY BrokenIsCut
<1>2. Closed(d) /\ Closed(e)
  BY SoundIs, RowsClosed, LoopsBrokenSound
<1>3. f \in DOMAIN e.folders /\ Parent(e, f) # None /\ f \in Above(e, Parent(e, f))
  BY DEF InLoop
<1>4. DOMAIN e.folders = DOMAIN d.folders
      /\ \A g \in DOMAIN d.folders : Parent(e, g) # None => Parent(e, g) = Parent(d, g)
  BY <1>1 DEF CutFrom
<1>5. \A g \in Above(e, f) : g \in DOMAIN d.folders /\ Parent(e, g) # None /\ g \notin cut
  BY <1>1, <1>2, <1>3, <1>4, OneLoop, AboveClosed DEF InLoop, CutFrom
<1>6. ASSUME NEW g \in DOMAIN d.folders  PROVE  Above(e, g) \subseteq Above(d, g)
  <2>1. g \in Above(d, g) /\ \A h \in Above(d, g) \cap DOMAIN e.folders :
            Parent(e, h) # None => Parent(e, h) \in Above(d, g)
    BY <1>2, <1>4, AboveClosed
  <2> QED
    BY <1>2, <1>4, <2>1, AboveLeast
<1>7. f \in InLoop(d)
  <2>1. Parent(e, f) = Parent(d, f) /\ Parent(e, f) \in DOMAIN d.folders
    BY <1>2, <1>3, <1>4 DEF Closed
  <2> QED
    BY <1>3, <1>4, <1>6, <2>1 DEF InLoop
<1>8. Above(d, f) \subseteq Above(e, f)
  <2>1. f \in Above(e, f) /\ \A g \in Above(e, f) : Parent(e, g) \in Above(e, f)
    BY <1>2, <1>3, <1>5, AboveClosed
  <2>2. \A g \in Above(e, f) \cap DOMAIN d.folders : Parent(d, g) \in Above(e, f)
    BY <1>4, <1>5, <2>1
  <2> QED
    BY <1>2, <1>3, <1>4, <2>1, <2>2, AboveLeast
<1>9. cut \cap Above(d, f) = {}
  BY <1>5, <1>8
<1> QED
  BY <1>1, <1>7, <1>9, FS_EmptySet

\* There is a way to do it, whatever loops there are: one folder of each.
LEMMA LoopsCanBeBroken ==
    ASSUME NEW d, Sound(d)
    PROVE  LoopsBroken(d) # {}
<1> DEFINE pick == [T \in {Above(d, f) : f \in InLoop(d)} |-> CHOOSE g \in T : TRUE]
           cut == {pick[Above(d, f)] : f \in InLoop(d)}
<1>1. Closed(d)
  BY SoundIs, RowsClosed
<1>2. ASSUME NEW f \in InLoop(d)  PROVE  pick[Above(d, f)] \in Above(d, f)
  <2>1. f \in Above(d, f)
    BY <1>1, AboveClosed DEF InLoop
  <2> QED
    BY <2>1
<1> HIDE DEF pick
<1>3. cut \subseteq InLoop(d)
  BY <1>1, <1>2, OneLoop
<1>4. ASSUME NEW f \in InLoop(d)  PROVE  Cardinality(cut \cap Above(d, f)) = 1
  <2>1. pick[Above(d, f)] \in cut \cap Above(d, f)
    BY <1>2
  <2>2. ASSUME NEW g \in InLoop(d), pick[Above(d, g)] \in Above(d, f)
        PROVE  pick[Above(d, g)] = pick[Above(d, f)]
    <3>1. Above(d, pick[Above(d, g)]) = Above(d, g)
      BY <1>1, <1>2, OneLoop
    <3>2. Above(d, pick[Above(d, g)]) = Above(d, f)
      BY <1>1, <2>2, OneLoop
    <3> QED
      BY <3>1, <3>2
  <2>3. cut \cap Above(d, f) = {pick[Above(d, f)]}
    BY <2>1, <2>2
  <2> QED
    BY <2>3, FS_Singleton
<1> HIDE DEF cut
<1>5. cut \in {c \in SUBSET InLoop(d) :
                 \A f \in InLoop(d) : Cardinality(c \cap Above(d, f)) = 1}
  BY <1>3, <1>4
<1> DEFINE e == [d EXCEPT !.folders = [f \in DOMAIN @ |->
                    IF f \in cut THEN [owner |-> @[f].owner, parent |-> None] ELSE @[f]]]
<1>6. e \in LoopsBroken(d)
  BY ONLY <1>5 DEF LoopsBroken
<1> QED
  BY <1>6

\* What the lookup of a root folder changes makes no loop.
LEMMA RootedMakesNoLoop ==
    ASSUME NEW d, Sound(d), InLoop(d) = {}, NEW u \in d.users
    PROVE  InLoop(Rooted(d, u)) = {}
<1> DEFINE e == Rooted(d, u)
<1>1. PICK root : RootedWith(d, u, e, root)
  BY RootedShape, SoundIs
<1>2. Sound(e)
  BY RootedSound
<1> SUFFICES ASSUME NEW f \in InLoop(e)  PROVE  FALSE
  OBVIOUS
<1> HIDE DEF e
<1>3. Closed(d) /\ Closed(e)
  BY <1>2, SoundIs, RowsClosed
<1>4. Parent(e, root) = None
  BY <1>1 DEF RootedWith, Parent
<1>5. \A g \in DOMAIN d.folders : g \in Roots(d, u) /\ g # root => Parent(e, g) = root
  BY <1>1 DEF RootedWith, Parent
<1>6. \A g \in DOMAIN d.folders :
          g # root /\ g \notin Roots(d, u) => Parent(e, g) = Parent(d, g)
  BY <1>1 DEF RootedWith, Parent
<1>7. \A g \in Above(e, f) :
          g \in DOMAIN e.folders /\ Parent(e, g) # None /\ Parent(e, g) \in Above(e, f)
  BY <1>3, OneLoop, AboveClosed DEF InLoop
<1>8. root \notin Above(e, f)
  BY <1>4, <1>7
<1>9. \A g \in Above(e, f) : g \in DOMAIN d.folders /\ Parent(e, g) = Parent(d, g)
  <2>1. DOMAIN e.folders = DOMAIN d.folders \cup {root}
    BY <1>1 DEF RootedWith
  <2> QED
    BY <2>1, <1>5, <1>6, <1>7, <1>8
<1>10. f \in Above(e, f) /\ f \in DOMAIN d.folders /\ Parent(d, f) # None
  BY <1>3, <1>7, <1>9, AboveClosed DEF InLoop
<1>11. Above(e, f) \subseteq Above(d, Parent(d, f))
  <2> DEFINE p == Parent(d, f)
  <2>1. p \in DOMAIN d.folders /\ p \in Above(e, f) /\ Parent(e, f) = p
    BY <1>3, <1>7, <1>9, <1>10 DEF Closed
  <2>2. Above(e, p) = Above(e, f)
    BY <1>3, <2>1, OneLoop
  <2>3. p \in DOMAIN e.folders /\ p \in Above(d, p)
    BY <1>3, <1>7, <2>1, AboveClosed
  <2>4. Above(e, p) \subseteq Above(e, f) \cap Above(d, p)
    <3> DEFINE S == Above(e, f) \cap Above(d, p)
    <3>1. \A g \in S \cap DOMAIN e.folders : Parent(e, g) # None => Parent(e, g) \in S
      <4>1. \A g \in Above(d, p) : Parent(d, g) # None => Parent(d, g) \in Above(d, p)
        BY <1>3, <2>1, AboveClosed
      <4>2. ASSUME NEW g \in S  PROVE  Parent(e, g) \in S
        <5>1. g \in Above(e, f) /\ g \in Above(d, p)
          OBVIOUS
        <5>2. Parent(e, g) \in Above(e, f) /\ Parent(d, g) = Parent(e, g) /\ Parent(e, g) # None
          BY <5>1, <1>7, <1>9
        <5>3. Parent(e, g) \in Above(d, p)
          BY <5>1, <5>2, <4>1
        <5> QED
          BY <5>2, <5>3
      <4> HIDE DEF S
      <4> QED
        BY <4>2
    <3>2. p \in S
      BY <2>1, <2>3
    <3>3. Above(e, p) \subseteq S
      <4> HIDE DEF S, p
      <4> QED
        BY <1>3, <2>3, <3>1, <3>2, AboveLeast
    <3> QED
      BY <3>3
  <2> QED
    BY <2>2, <2>4
<1> QED
  BY <1>10, <1>11 DEF InLoop

\* A restart undoes every loop that moves have made, whichever edges it cuts,
\* and always finds edges to cut.
THEOREM RestartUndoesLoops ==
    Spec => [][LoopsBroken(db) # {} /\ (Restart => InLoop(db') = {})]_vars
<1>1. TypeOK /\ OwnersAgree =>
          [LoopsBroken(db) # {} /\ (Restart => InLoop(db') = {})]_vars
  BY LoopsCanBeBroken, LoopsBrokenLeavesNone DEF Sound, TypeOK, OwnersAgree, Restart
<1> QED
  BY <1>1, TypeCorrect, OwnersInAgreement, PTL

\* As long as there are no loops, who looks at a page can find all their files
\* from their root folder: with RestartUndoesLoops, what FilesAreFound rests on.
THEOREM PageFindsFiles ==
    Spec => [][\A u \in Users : VisitOwn(u) /\ InLoop(db) = {} =>
                  \E root \in Roots(db', u) : \A m \in DOMAIN db'.files :
                      db'.files[m].owner = u => db'.files[m].folder \in Below(db', root)]_vars
<1>1. ASSUME TypeOK, OwnersAgree, NEW u \in Users, VisitOwn(u), InLoop(db) = {}
      PROVE  \E root \in Roots(db', u) : \A m \in DOMAIN db'.files :
                 db'.files[m].owner = u => db'.files[m].folder \in Below(db', root)
  <2>1. Sound(db) /\ u \in db.users /\ db' = Rooted(db, u)
    BY <1>1 DEF Sound, TypeOK, OwnersAgree, VisitOwn
  <2>2. Sound(db') /\ InLoop(db') = {}
    BY <1>1, <2>1, RootedSound, RootedMakesNoLoop
  <2>3. PICK root \in DOMAIN db'.folders :
            /\ Roots(db', u) = {root}
            /\ \A f \in DOMAIN db'.folders :
                   db'.folders[f].owner = u =>
                       f \in Below(db', root) \/ Above(db', f) \cap InLoop(db') # {}
            /\ \A m \in DOMAIN db'.files : db'.files[m].owner = u => db'.files[m].folder # None
    BY <2>1, RootedShowsAll
  <2>4. ASSUME NEW m \in DOMAIN db'.files, db'.files[m].owner = u
        PROVE  db'.files[m].folder \in Below(db', root)
    <3> DEFINE f == db'.files[m].folder
    <3>1. f \in DOMAIN db'.folders /\ db'.folders[f].owner = u
      BY <2>2, <2>3, <2>4, SoundIs DEF Agreeing, TypedRows
    <3> QED
      BY <2>2, <2>3, <3>1
  <2> QED
    BY <2>3, <2>4
<1>2. TypeOK /\ OwnersAgree =>
          [\A u \in Users : VisitOwn(u) /\ InLoop(db) = {} =>
              \E root \in Roots(db', u) : \A m \in DOMAIN db'.files :
                  db'.files[m].owner = u => db'.files[m].folder \in Below(db', root)]_vars
  BY <1>1
<1> QED
  BY <1>2, TypeCorrect, OwnersInAgreement, PTL
=============================================================================
