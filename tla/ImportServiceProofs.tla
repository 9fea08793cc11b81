------------------------- MODULE ImportServiceProofs -------------------------
(***************************************************************************)
(* Theorems about the tree of objects, for any files, directories, virtual *)
(* containers and layouts: no row dangles, whatever the threads do, and    *)
(* removals that come one after the other are whole.                       *)
(***************************************************************************)
EXTENDS ImportService, FiniteSetTheorems, WellFoundedInduction, TLAPS

-------------------------------------------------------------------------------
(* Natural numbers, and functions defined step by step.                    *)

\* A set of naturals has a least element.
LEMMA MinOfNaturals ==
    ASSUME NEW S \in SUBSET Nat, S # {}
    PROVE  Min(S) \in S /\ \A m \in S : Min(S) <= m
<1>1. IsWellFoundedOn(OpToRel(<, Nat), Nat)
  BY NatLessThanWellFounded
<1>2. PICK n \in S : \A m \in S : ~ (<<m, n>> \in OpToRel(<, Nat))
  BY <1>1, WFMin
<1>3. ASSUME NEW m \in S PROVE n <= m
  <2>1. OpToRel(<, Nat) = {p \in Nat \X Nat : p[1] < p[2]}
    BY Zenon DEF OpToRel
  <2>2. <<m, n>> \notin {p \in Nat \X Nat : p[1] < p[2]}
    BY <1>2, <2>1, Zenon
  <2> QED BY <2>2
<1> QED BY <1>3 DEF Min

\* What holds of 0, and of n + 1 if it holds of n, holds of every natural.
LEMMA SetInduction ==
    ASSUME NEW S, 0 \in S, \A n \in Nat : n \in S => n + 1 \in S
    PROVE  Nat \subseteq S
<1>1. SUFFICES ASSUME Nat \ S # {} PROVE FALSE
  OBVIOUS
<1> DEFINE m == Min(Nat \ S)
<1>2. m \in Nat \ S /\ \A n \in Nat \ S : m <= n
  BY <1>1, MinOfNaturals, Zenon
<1> HIDE DEF m
<1>3. m - 1 \in Nat /\ m - 1 \notin S
  BY <1>2
<1> QED BY <1>2, <1>3

\* A finite set of naturals has a greatest element.
LEMMA MaxOfNaturals ==
    ASSUME NEW S \in SUBSET Nat, IsFiniteSet(S), S # {}
    PROVE  Max(S) \in S /\ \A m \in S : Max(S) >= m
<1> DEFINE Bounded(T) == \E m \in Nat : \A x \in T : x <= m
           B == {n \in Nat : \A T \in SUBSET Nat : IsFiniteSet(T) /\ Cardinality(T) = n => Bounded(T)}
<1>1. 0 \in B
  <2>1. ASSUME NEW T \in SUBSET Nat, IsFiniteSet(T), Cardinality(T) = 0 PROVE Bounded(T)
    <3>1. T = {}
      BY <2>1, FS_EmptySet
    <3> QED BY <3>1
  <2> QED BY <2>1
<1>2. ASSUME NEW n \in Nat, n \in B PROVE n + 1 \in B
  <2>1. ASSUME NEW T \in SUBSET Nat, IsFiniteSet(T), Cardinality(T) = n + 1 PROVE Bounded(T)
    <3>1. T # {}
      BY <2>1, FS_EmptySet
    <3>2. PICK x \in T : TRUE
      BY <3>1
    <3>3. IsFiniteSet(T \ {x}) /\ Cardinality(T \ {x}) = n
      <4>1. IsFiniteSet(T \ {x}) /\ Cardinality(T \ {x}) = Cardinality(T) - 1
        BY <2>1, <3>2, FS_RemoveElement, Zenon
      <4> QED BY <2>1, <4>1
    <3>4. PICK m \in Nat : \A y \in T \ {x} : y <= m
      BY <1>2, <3>3
    <3>5. \A y \in T : y <= (IF x <= m THEN m ELSE x)
      BY <3>2, <3>4
    <3> QED BY <3>2, <3>5
  <2> QED BY <2>1
<1>3. Cardinality(S) \in Nat
  BY FS_CardinalityType
<1>4. Cardinality(S) \in B
  <2> HIDE DEF B
  <2> QED BY <1>1, <1>2, <1>3, SetInduction
<1>5. PICK b \in Nat : \A x \in S : x <= b
  BY <1>4
<1> DEFINE U == {m \in Nat : \A x \in S : x <= m}
           u == Min(U)
<1>6. u \in U /\ \A m \in U : u <= m
  <2>1. b \in U
    BY <1>5
  <2> QED BY <2>1, MinOfNaturals, Zenon
<1>7. u \in S
  <2>1. SUFFICES ASSUME u \notin S PROVE FALSE
    OBVIOUS
  <2> HIDE DEF u
  <2>2. PICK x \in S : TRUE
    OBVIOUS
  <2>3. u - 1 \in Nat /\ \A y \in S : y <= u - 1
    BY <1>6, <2>1, <2>2
  <2> QED BY <1>6, <2>3
<1> HIDE DEF u
<1> QED BY <1>6, <1>7 DEF Max

\* The values of a function that takes V to V, from b on: there is one function
\* of the numbers up to N that gives them.
Iterates(f, N, b, G) == f = [n \in 0 .. N |-> IF n = 0 THEN b ELSE G[f[n - 1]]]

LEMMA IterationExists ==
    ASSUME NEW V, NEW b \in V, NEW G \in [V -> V], NEW N \in Nat
    PROVE  \E f \in [0 .. N -> V] : Iterates(f, N, b, G)
<1> DEFINE S == {n \in Nat : \E f \in [0 .. n -> V] : Iterates(f, n, b, G)}
<1>1. 0 \in S
  <2> DEFINE f == [n \in 0 .. 0 |-> b]
  <2>1. f \in [0 .. 0 -> V] /\ Iterates(f, 0, b, G)
    BY DEF Iterates
  <2> QED BY <2>1
<1>2. ASSUME NEW n \in Nat, n \in S PROVE n + 1 \in S
  <2>1. PICK f \in [0 .. n -> V] : Iterates(f, n, b, G)
    BY <1>2
  <2> DEFINE g == [m \in 0 .. n + 1 |-> IF m = n + 1 THEN G[f[n]] ELSE f[m]]
  <2>2. g \in [0 .. n + 1 -> V]
    OBVIOUS
  <2>3. \A m \in 0 .. n + 1 : g[m] = IF m = 0 THEN b ELSE G[g[m - 1]]
    <3>1. \A m \in 0 .. n : f[m] = IF m = 0 THEN b ELSE G[f[m - 1]]
      BY <2>1 DEF Iterates
    <3>2. \A m \in 0 .. n + 1 : m # 0 => m - 1 \in 0 .. n /\ g[m - 1] = f[m - 1]
      OBVIOUS
    <3> QED BY <3>1, <3>2
  <2>4. g = [m \in 0 .. n + 1 |-> IF m = 0 THEN b ELSE G[g[m - 1]]]
    BY <2>2, <2>3
  <2>5. Iterates(g, n + 1, b, G)
    BY <2>4, Zenon DEF Iterates
  <2> HIDE DEF g
  <2> QED BY <2>2, <2>5
<1> HIDE DEF S
<1>3. N \in S
  BY <1>1, <1>2, SetInduction
<1> QED BY <1>3 DEF S

Preserves(G, P) == \A R \in P : G[R] \in P
AllIn(f, N, P) == \A n \in 0 .. N : f[n] \in P

\* What holds of b, and of G[R] if it holds of R, holds of all the values.
LEMMA IterationKeeps ==
    ASSUME NEW b, NEW G, NEW N, NEW f, NEW P,
           N \in Nat, Iterates(f, N, b, G), b \in P, Preserves(G, P)
    PROVE  AllIn(f, N, P)
<1> DEFINE S == {n \in Nat : n \in 0 .. N => f[n] \in P}
<1>0. f[0] = b /\ \A n \in 0 .. N : n + 1 \in 0 .. N => f[n + 1] = G[f[n]]
  <2>1. \A n \in 0 .. N : f[n] = IF n = 0 THEN b ELSE G[f[n - 1]]
    BY DEF Iterates
  <2> QED BY <2>1
<1>1. 0 \in S
  BY <1>0
<1>2. ASSUME NEW n \in Nat, n \in S PROVE n + 1 \in S
  <2>1. SUFFICES ASSUME n + 1 \in 0 .. N PROVE f[n + 1] \in P
    OBVIOUS
  <2>2. n \in 0 .. N /\ f[n + 1] = G[f[n]]
    BY <1>0, <2>1
  <2> QED BY <1>2, <2>2 DEF Preserves
<1> HIDE DEF S
<1>3. Nat \subseteq S
  BY <1>1, <1>2, SetInduction
<1> QED BY <1>3 DEF S, AllIn

Follows(g, N, b, G, V) ==
    g[0] = b /\ \A n \in 0 .. N : n + 1 \in 0 .. N /\ g[n] \in V => g[n + 1] = G[g[n]]
Agree(f, g, N) == \A n \in 0 .. N : g[n] = f[n]

\* A function that goes the same way has the same values.
LEMMA IterationUnique ==
    ASSUME NEW V, NEW b, NEW G, NEW N, NEW f, NEW g, N \in Nat, f \in [0 .. N -> V],
           Iterates(f, N, b, G), Follows(g, N, b, G, V)
    PROVE  Agree(f, g, N)
<1> DEFINE S == {n \in Nat : n \in 0 .. N => g[n] = f[n]}
<1>0. f[0] = b /\ \A n \in 0 .. N : n + 1 \in 0 .. N => f[n + 1] = G[f[n]]
  <2>1. \A n \in 0 .. N : f[n] = IF n = 0 THEN b ELSE G[f[n - 1]]
    BY DEF Iterates
  <2> QED BY <2>1
<1>a. g[0] = b /\ \A n \in 0 .. N : n + 1 \in 0 .. N /\ g[n] \in V => g[n + 1] = G[g[n]]
  BY DEF Follows
<1>1. 0 \in S
  BY <1>0, <1>a
<1>2. ASSUME NEW n \in Nat, n \in S PROVE n + 1 \in S
  <2>1. SUFFICES ASSUME n + 1 \in 0 .. N PROVE g[n + 1] = f[n + 1]
    OBVIOUS
  <2>2. n \in 0 .. N /\ g[n] = f[n] /\ f[n] \in V
    BY <1>2, <2>1
  <2> QED BY <1>0, <1>a, <2>1, <2>2
<1> HIDE DEF S
<1>3. Nat \subseteq S
  BY <1>1, <1>2, SetInduction
<1> QED BY <1>3 DEF S, Agree

-------------------------------------------------------------------------------
(* The rows that go with others.                                           *)

\* Rows of which none has a child or a reference that is not among them.
IsClosed(X) == ChildrenOf(X) \subseteq X /\ RefsTo(X) \subseteq X
Growth == [R \in SUBSET Ids |-> R \cup ChildrenOf(R) \cup RefsTo(R)]

LEMMA CascadeIsIteration ==
    ASSUME IsFiniteSet(Ids), NEW S
    PROVE  \E f \in [0 .. Cardinality(Ids) -> SUBSET Ids] :
               /\ Iterates(f, Cardinality(Ids), S \cap Ids, Growth)
               /\ Cascade(S) = f[Cardinality(Ids)]
<1> DEFINE reached[n \in 0 .. Cardinality(Ids)] ==
               IF n = 0 THEN S \cap Ids
               ELSE LET R == reached[n - 1] IN R \cup ChildrenOf(R) \cup RefsTo(R)
<1>1. Cascade(S) = reached[Cardinality(Ids)]
  BY DEF Cascade
<1>2. Cardinality(Ids) \in Nat
  BY FS_CardinalityType
<1>3. Growth \in [SUBSET Ids -> SUBSET Ids]
  BY DEF Growth, ChildrenOf, RefsTo
<1>4. PICK f \in [0 .. Cardinality(Ids) -> SUBSET Ids] :
         Iterates(f, Cardinality(Ids), S \cap Ids, Growth)
  <2>1. S \cap Ids \in SUBSET Ids
    OBVIOUS
  <2> QED BY <1>2, <1>3, <2>1, IterationExists, Zenon
<1>5. PICK g : /\ Cascade(S) = g[Cardinality(Ids)]
               /\ g = [n \in 0 .. Cardinality(Ids) |->
                          IF n = 0 THEN S \cap Ids
                          ELSE LET R == g[n - 1] IN R \cup ChildrenOf(R) \cup RefsTo(R)]
  <2>1. \A n \in 0 .. Cardinality(Ids) : n # 0 => f[n - 1] \in SUBSET Ids
    BY <1>2
  <2>2. \A n \in 0 .. Cardinality(Ids) :
            f[n] = IF n = 0 THEN S \cap Ids ELSE Growth[f[n - 1]]
    BY <1>4 DEF Iterates
  <2>3. f = [n \in 0 .. Cardinality(Ids) |->
                IF n = 0 THEN S \cap Ids
                ELSE LET R == f[n - 1] IN R \cup ChildrenOf(R) \cup RefsTo(R)]
    BY <1>4, <2>1, <2>2 DEF Growth
  <2>4. reached = [n \in 0 .. Cardinality(Ids) |->
                      IF n = 0 THEN S \cap Ids
                      ELSE LET R == reached[n - 1] IN R \cup ChildrenOf(R) \cup RefsTo(R)]
    BY <2>3
  <2> HIDE DEF reached
  <2> QED BY <1>1, <2>4
<1>6. g[0] = S \cap Ids
  BY <1>2, <1>5
<1>7. ASSUME NEW n \in 0 .. Cardinality(Ids), n + 1 \in 0 .. Cardinality(Ids), g[n] \in SUBSET Ids
      PROVE  g[n + 1] = Growth[g[n]]
  <2>1. n + 1 # 0 /\ (n + 1) - 1 = n
    BY <1>2
  <2>2. g[n + 1] = g[n] \cup ChildrenOf(g[n]) \cup RefsTo(g[n])
    BY <1>5, <1>7, <2>1
  <2> QED BY <1>7, <2>2 DEF Growth
<1>8. \A n \in 0 .. Cardinality(Ids) : g[n] = f[n]
  <2> DEFINE N == Cardinality(Ids)
             V == SUBSET Ids
             b == S \cap Ids
  <2>1. N \in Nat /\ f \in [0 .. N -> V] /\ Iterates(f, N, b, Growth) /\ g[0] = b
    BY <1>2, <1>4, <1>6
  <2>2. Follows(g, N, b, Growth, V)
    BY <1>6, <1>7 DEF Follows
  <2>3. Agree(f, g, N)
    <3> HIDE DEF N, V, b
    <3> QED BY <2>1, <2>2, IterationUnique
  <2> QED BY <2>3 DEF Agree
<1>9. Cardinality(Ids) \in 0 .. Cardinality(Ids)
  BY <1>2
<1>10. Cascade(S) = f[Cardinality(Ids)]
  BY <1>5, <1>8, <1>9
<1> QED BY <1>4, <1>10

\* They are closed, and belong to any closed set with the rows they began with.
LEMMA CascadeIsClosed ==
    ASSUME IsFiniteSet(Ids), NEW S
    PROVE  /\ S \cap Ids \subseteq Cascade(S) /\ Cascade(S) \subseteq Ids
           /\ IsClosed(Cascade(S))
<1> DEFINE N == Cardinality(Ids)
<1>1. N \in Nat
  BY FS_CardinalityType
<1>2. PICK f \in [0 .. N -> SUBSET Ids] : Iterates(f, N, S \cap Ids, Growth) /\ Cascade(S) = f[N]
  BY CascadeIsIteration
<1>3. f[0] = S \cap Ids /\ \A n \in 0 .. N : n + 1 \in 0 .. N => f[n + 1] = Growth[f[n]]
  <2>1. \A n \in 0 .. N : f[n] = IF n = 0 THEN S \cap Ids ELSE Growth[f[n - 1]]
    BY <1>2 DEF Iterates
  <2> QED BY <1>1, <2>1
<1>4. \A R \in SUBSET Ids : /\ R \subseteq Growth[R] /\ Growth[R] \in SUBSET Ids
                            /\ Growth[R] = R => IsClosed(R)
                            /\ IsClosed(R) => Growth[R] = R
  BY DEF Growth, IsClosed, ChildrenOf, RefsTo
<1> DEFINE T == {n \in Nat : n \in 0 .. N =>
                    /\ S \cap Ids \subseteq f[n]
                    /\ IsClosed(f[n]) \/ Cardinality(f[n]) > n}
<1>5. 0 \in T
  <2>1. CASE S \cap Ids = {}
    BY <1>3, <2>1 DEF IsClosed, ChildrenOf, RefsTo
  <2>2. CASE S \cap Ids # {}
    <3>1. IsFiniteSet(S \cap Ids)
      BY FS_Subset
    <3>2. Cardinality(S \cap Ids) \in Nat /\ Cardinality(S \cap Ids) # 0
      BY <2>2, <3>1, FS_CardinalityType, FS_EmptySet
    <3>3. f[0] = S \cap Ids
      BY <1>3
    <3>4. Cardinality(f[0]) \in Nat /\ Cardinality(f[0]) # 0
      BY <3>2, <3>3, Zenon
    <3>5. Cardinality(f[0]) > 0
      BY <3>4
    <3> QED BY <3>3, <3>5
  <2> QED BY <2>1, <2>2
<1>6. ASSUME NEW n \in Nat, n \in T PROVE n + 1 \in T
  <2>1. SUFFICES ASSUME n + 1 \in 0 .. N
                 PROVE  /\ S \cap Ids \subseteq f[n + 1]
                        /\ IsClosed(f[n + 1]) \/ Cardinality(f[n + 1]) > n + 1
    OBVIOUS
  <2>2. n \in 0 .. N /\ f[n] \in SUBSET Ids /\ f[n + 1] = Growth[f[n]]
    BY <1>1, <1>3, <2>1
  <2>3. S \cap Ids \subseteq f[n] /\ (IsClosed(f[n]) \/ Cardinality(f[n]) > n)
    BY <1>6, <2>2
  <2>4. S \cap Ids \subseteq f[n + 1]
    BY <1>4, <2>2, <2>3
  <2>5. CASE IsClosed(f[n])
    BY <1>4, <2>2, <2>4, <2>5
  <2>6. CASE ~IsClosed(f[n])
    <3>1. f[n] \subseteq f[n + 1] /\ f[n + 1] # f[n] /\ f[n + 1] \in SUBSET Ids
      BY <1>4, <2>2, <2>6
    <3>2. IsFiniteSet(f[n + 1])
      BY <3>1, FS_Subset
    <3>3. Cardinality(f[n]) <= Cardinality(f[n + 1]) /\ Cardinality(f[n]) # Cardinality(f[n + 1])
      BY <3>1, <3>2, FS_Subset
    <3>4. IsFiniteSet(f[n])
      BY <2>2, FS_Subset
    <3>5. Cardinality(f[n]) \in Nat /\ Cardinality(f[n + 1]) \in Nat
      BY <3>2, <3>4, FS_CardinalityType
    <3> QED BY <2>3, <2>4, <2>6, <3>3, <3>5
  <2> QED BY <2>5, <2>6
<1>7. N \in T
  <2> HIDE DEF T
  <2> QED BY <1>1, <1>5, <1>6, SetInduction
<1>8. f[N] \in SUBSET Ids /\ S \cap Ids \subseteq f[N] /\ (IsClosed(f[N]) \/ Cardinality(f[N]) > N)
  BY <1>1, <1>7
<1>9. Cardinality(f[N]) <= N
  BY <1>8, FS_Subset
<1>10. Cardinality(f[N]) \in Nat
  BY <1>8, FS_Subset, FS_CardinalityType
<1>11. IsClosed(f[N])
  BY <1>1, <1>8, <1>9, <1>10
<1> QED BY <1>2, <1>8, <1>11

LEMMA CascadeIsLeast ==
    ASSUME IsFiniteSet(Ids), NEW S, NEW X, S \cap Ids \subseteq X, X \subseteq Ids, IsClosed(X)
    PROVE  Cascade(S) \subseteq X
<1> DEFINE N == Cardinality(Ids)
<1>1. N \in Nat
  BY FS_CardinalityType
<1>2. PICK f \in [0 .. N -> SUBSET Ids] : Iterates(f, N, S \cap Ids, Growth) /\ Cascade(S) = f[N]
  BY CascadeIsIteration
<1>3. Preserves(Growth, SUBSET X)
  BY DEF Preserves, Growth, IsClosed, ChildrenOf, RefsTo
<1>4. S \cap Ids \in SUBSET X
  OBVIOUS
<1>5. AllIn(f, N, SUBSET X)
  <2> HIDE DEF N
  <2> QED BY <1>1, <1>2, <1>3, <1>4, IterationKeeps
<1> QED BY <1>1, <1>2, <1>5 DEF AllIn

-------------------------------------------------------------------------------
(* The rows.                                                               *)

Roots == {CDS_ID_ROOT, CDS_ID_FS_ROOT}
RowKeys == Nat \ Roots

\* The two roots are as fillDatabase has written them.
RootsStay ==
    /\ Roots \subseteq Ids
    /\ tree[CDS_ID_ROOT] = [Object("virtual", "root", -1) EXCEPT !.persistent = TRUE]
    /\ tree[CDS_ID_FS_ROOT] = [Object("dir", "fsroot", CDS_ID_ROOT) EXCEPT !.persistent = TRUE]

\* Each row is below a row, and a reference, and nothing else, refers to an item.
HasParent == \A i \in Ids \ {CDS_ID_ROOT} : tree[i].parent \in Ids
RefersToItem ==
    \A i \in Ids : IF tree[i].type = "ref" THEN tree[i].ref \in Ids /\ tree[tree[i].ref].type = "item"
                   ELSE tree[i].ref = INVALID_OBJECT_ID
NothingDangles == RootsStay /\ HasParent /\ RefersToItem

IsRow(o) == o \in Objects /\ (o.type = "item" <=> o.at \in Files)
RowsOK == IsFiniteSet(Ids) /\ Ids \subseteq Nat /\ \A i \in Ids : IsRow(tree[i])
TreeInv == RowsOK /\ NothingDangles

USE DEF INVALID_OBJECT_ID, CDS_ID_ROOT, CDS_ID_FS_ROOT

\* What is made of the constructors.
LEMMA ObjectFields ==
    ASSUME NEW type \in {"item", "ref", "dir", "virtual"},
           NEW at \in Files \cup Dirs \cup Virtuals \cup {"none", "root", "fsroot"}, NEW parent \in Int
    PROVE  /\ Object(type, at, parent) \in Objects
           /\ Object(type, at, parent).type = type /\ Object(type, at, parent).at = at
           /\ Object(type, at, parent).parent = parent
           /\ Object(type, at, parent).ref = INVALID_OBJECT_ID
           /\ Object(type, at, parent).tag = Unread /\ Object(type, at, parent).persistent = FALSE
BY DEF Object, Objects

\* The key of a new row is not in use.
LEMMA NextIdIsNew ==
    ASSUME TreeInv
    PROVE  /\ NextId \in Nat /\ NextId \notin Ids /\ NextId \notin Roots
           /\ \A i \in Ids : i < NextId
<1>1. Ids \in SUBSET Nat /\ IsFiniteSet(Ids) /\ Ids # {} /\ Roots \subseteq Ids
  BY DEF TreeInv, RowsOK, NothingDangles, RootsStay, Roots
<1>2. Max(Ids) \in Ids /\ \A m \in Ids : Max(Ids) >= m
  BY <1>1, MaxOfNaturals
<1>3. PICK m : m = Max(Ids) /\ NextId = m + 1
  BY DEF NextId
<1>4. m \in Ids /\ \A i \in Ids : m >= i
  BY <1>2, <1>3
<1> QED BY <1>1, <1>3, <1>4 DEF Roots

\* A row that the foreign keys do not refuse may be added.
LEMMA InsertKeeps ==
    ASSUME TreeInv, NEW o, IsRow(o), o.parent \in Ids, o.ref # INVALID_OBJECT_ID <=> o.type = "ref",
           o.type = "ref" => o.ref \in Ids /\ tree[o.ref].type = "item",
           Insert(o)
    PROVE  /\ TreeInv' /\ Ids' = Ids \cup {NextId}
           /\ tree'[NextId] = o /\ \A i \in Ids : tree'[i] = tree[i]
<1>1. NextId \in Nat /\ NextId \notin Ids
  BY NextIdIsNew
<1>2. PICK n : n = NextId
  OBVIOUS
<1>3. tree' = [i \in Ids \cup {n} |-> IF i = n THEN o ELSE tree[i]]
  BY <1>1, <1>2 DEF Insert, Added, Ids
<1>4. Ids' = Ids \cup {n} /\ tree'[n] = o /\ \A i \in Ids : tree'[i] = tree[i]
  BY <1>1, <1>2, <1>3 DEF Ids
<1>5. RowsOK'
  <2>1. IsFiniteSet(Ids \cup {n})
    BY FS_AddElement DEF TreeInv, RowsOK
  <2> QED BY <1>1, <1>2, <1>4, <2>1 DEF TreeInv, RowsOK
<1>6. RootsStay'
  BY <1>4 DEF TreeInv, NothingDangles, RootsStay, Roots
<1>7. HasParent' /\ RefersToItem'
  BY <1>4 DEF TreeInv, NothingDangles, HasParent, RefersToItem
<1> QED BY <1>2, <1>4, <1>5, <1>6, <1>7 DEF TreeInv, NothingDangles

\* A row may be written again, as an item or as what it was.
LEMMA WriteKeeps ==
    ASSUME TreeInv, NEW id \in Ids \ Roots, NEW o, IsRow(o), o.parent \in Ids,
           \/ o.type = "item" /\ o.ref = INVALID_OBJECT_ID
           \/ o.type = tree[id].type /\ o.ref = tree[id].ref,
           tree' = [tree EXCEPT ![id] = o]
    PROVE  TreeInv' /\ Ids' = Ids
<1>1. Ids' = Ids /\ tree'[id] = o /\ \A i \in Ids \ {id} : tree'[i] = tree[i]
  BY DEF Ids
<1>2. RowsOK'
  BY <1>1 DEF TreeInv, RowsOK
<1>3. RootsStay'
  BY <1>1 DEF TreeInv, NothingDangles, RootsStay, Roots
<1>4. HasParent' /\ RefersToItem'
  BY <1>1 DEF TreeInv, NothingDangles, HasParent, RefersToItem
<1> QED BY <1>1, <1>2, <1>3, <1>4 DEF TreeInv, NothingDangles

\* Rows other than the roots may be deleted with what hangs on them.
LEMMA DeleteKeeps ==
    ASSUME TreeInv, NEW S, S \subseteq RowKeys, Delete(S)
    PROVE  /\ TreeInv' /\ Ids' = Ids \ Cascade(S) /\ \A i \in Ids' : tree'[i] = tree[i]
           /\ Ids' \cap S = {}
<1>1. PICK C : C = Cascade(S)
  OBVIOUS
<1>2. S \cap Ids \subseteq C /\ C \subseteq Ids /\ ChildrenOf(C) \subseteq C /\ RefsTo(C) \subseteq C
  BY <1>1, CascadeIsClosed DEF TreeInv, RowsOK, IsClosed
<1>3. C \cap Roots = {}
  <2>1. IsClosed(Ids \ Roots)
    BY DEF IsClosed, ChildrenOf, RefsTo, TreeInv, NothingDangles, RootsStay, Roots, Object, RowsOK
  <2>2. Cascade(S) \subseteq Ids \ Roots
    BY <2>1, CascadeIsLeast DEF TreeInv, RowsOK, RowKeys
  <2> QED BY <1>1, <2>2
<1>4. Ids' = Ids \ C /\ \A i \in Ids \ C : tree'[i] = tree[i]
  BY <1>1 DEF Delete, Ids
<1>5. RowsOK'
  <2>1. IsFiniteSet(Ids \ C)
    BY FS_Subset DEF TreeInv, RowsOK
  <2> QED BY <1>4, <2>1 DEF TreeInv, RowsOK
<1>6. RootsStay'
  BY <1>3, <1>4 DEF TreeInv, NothingDangles, RootsStay, Roots
<1>7. HasParent'
  BY <1>2, <1>4 DEF TreeInv, NothingDangles, HasParent, ChildrenOf
<1>8. RefersToItem'
  BY <1>2, <1>4 DEF TreeInv, NothingDangles, RefersToItem, RefsTo
<1> QED BY <1>1, <1>2, <1>4, <1>5, <1>6, <1>7, <1>8 DEF TreeInv, NothingDangles

-------------------------------------------------------------------------------
(* A removal is never after a root.                                        *)

RemovalRecords(was) ==
    [pc : RemovalPCs, listed : SUBSET RowKeys, all : {FALSE},
     items : SUBSET RowKeys, parents : SUBSET RowKeys, containers : SUBSET RowKeys,
     remove : SUBSET RowKeys, empty : SUBSET RowKeys, upnp : SUBSET Int, ui : SUBSET Int,
     changed : SUBSET Int, was : {was}]
IsRemoval(r) == r \in RemovalRecords(r.was)
RemovalInv == DOMAIN removal = Threads /\ \A t \in Threads : IsRemoval(removal[t])

LEMMA BecomesKeeps ==
    ASSUME RemovalInv, NEW t, NEW r, IsRemoval(r), Becomes(t, r)
    PROVE  RemovalInv'
BY DEF RemovalInv, Becomes

LEMMA NewRemovals ==
    /\ IsRemoval(NoRemoval) /\ NoRemoval.pc = "idle"
    /\ \A S \in SUBSET RowKeys : /\ IsRemoval(Removing(S, FALSE))
                                 /\ Removing(S, FALSE).pc = "types"
                                 /\ Removing(S, FALSE).listed = S
                                 /\ Removing(S, FALSE).was = tree
BY DEF IsRemoval, RemovalRecords, NoRemoval, Removing, RemovalPCs

\* The rows with a parent among rows that may go may go, and so do references.
LEMMA RowsMayGo ==
    ASSUME TreeInv
    PROVE  /\ \A S \in SUBSET RowKeys : /\ ChildrenOf(S) \subseteq RowKeys
                                        /\ RefsTo(S) \subseteq RowKeys
                                        /\ ParentsOf(S) \subseteq Int
           /\ \A S \in SUBSET Int : Childless(S) \subseteq RowKeys /\ Occupied(S) \subseteq RowKeys
           /\ Ids \ Roots \subseteq RowKeys
BY DEF TreeInv, RowsOK, IsRow, Objects, NothingDangles, RootsStay, Roots, RowKeys, Object,
       ChildrenOf, RefsTo, ParentsOf, Childless, Occupied, IsContainer

\* removeObject and _recursiveRemove, where each object stands for itself.
Found(r) == r.listed \cap Ids
Containers(S) == {i \in S : IsContainer(i)}
AfterTypes(r) ==
    IF Found(r) = {} THEN [r EXCEPT !.pc = "done"]
    ELSE [r EXCEPT !.pc = IF Containers(Found(r)) = {} THEN "parents" ELSE "signals",
                   !.items = Found(r) \ Containers(Found(r)), !.parents = Found(r) \ Containers(Found(r)),
                   !.containers = Containers(Found(r)), !.remove = Containers(Found(r))]
AfterChildren(r) ==
    LET children == ChildrenOf(r.containers)
    IN EndOfTurn([r EXCEPT !.containers = Containers(children), !.items = children \ Containers(children),
                           !.parents = {}, !.remove = r.remove \cup children])

LEMMA TypesEffect ==
    ASSUME NEW t, removal[t].all = FALSE, Types(t)
    PROVE  Becomes(t, AfterTypes(removal[t])) /\ UNCHANGED tree
<1>1. {IF removal[t].all /\ tree[i].ref > CDS_ID_FS_ROOT THEN tree[i].ref ELSE i : i \in removal[t].listed \cap Ids}
          = Found(removal[t])
  BY DEF Found
<1>2. {i \in Found(removal[t]) : IsContainer(i)} = Containers(Found(removal[t]))
  BY DEF Containers
<1> QED BY <1>1, <1>2, Zenon DEF Types, AfterTypes

LEMMA ChildrenEffect ==
    ASSUME NEW t, removal[t].all = FALSE, Children(t)
    PROVE  Becomes(t, AfterChildren(removal[t])) /\ UNCHANGED tree
<1> DEFINE r == removal[t]
           children == ChildrenOf(r.containers)
           below == {i \in children : IsContainer(i)}
           mains == IF r.all THEN {tree[i].ref : i \in {j \in children \ below : tree[j].ref # INVALID_OBJECT_ID}}
                    ELSE {}
           found == {i \in children \ below : ~r.all \/ tree[i].ref = INVALID_OBJECT_ID} \cup mains
<1>1. below = Containers(children) /\ mains = {} /\ found = children \ Containers(children)
  BY DEF Containers
<1>2. r.remove \cup below \cup found = r.remove \cup children
  BY <1>1 DEF Containers
<1>3. Becomes(t, EndOfTurn([r EXCEPT !.containers = below, !.items = found, !.parents = mains,
                                     !.remove = @ \cup below \cup found]))
  BY Zenon DEF Children
<1> QED BY <1>1, <1>2, <1>3 DEF AfterChildren, Children

LEMMA RemovalStepKeeps ==
    ASSUME TreeInv, RemovalInv, NEW t \in Threads, removalStep(t)
    PROVE  TreeInv' /\ RemovalInv'
<1> DEFINE r == removal[t]
<1>1. IsRemoval(r)
  BY DEF RemovalInv
<1>2. PICK was : was = r.was /\ r \in RemovalRecords(was)
  BY <1>1 DEF IsRemoval
<1>3. r.all = FALSE
  BY <1>2 DEF RemovalRecords
<1>4. ASSUME UNCHANGED tree PROVE TreeInv'
  BY <1>4 DEF TreeInv, RowsOK, NothingDangles, RootsStay, HasParent, RefersToItem, Ids
<1>5. ASSUME NEW q \in RemovalRecords(was), Becomes(t, q) PROVE RemovalInv'
  <2>1. IsRemoval(q)
    BY <1>5 DEF IsRemoval, RemovalRecords
  <2> QED BY <1>5, <2>1, BecomesKeeps
<1> HIDE DEF r
<1>6. CASE Types(t)
  <2>1. Becomes(t, AfterTypes(r)) /\ UNCHANGED tree
    BY <1>3, <1>6, TypesEffect DEF r
  <2>2. Found(r) \subseteq RowKeys /\ Containers(Found(r)) \subseteq Found(r)
    BY <1>2 DEF RemovalRecords, Found, Containers
  <2>3. AfterTypes(r) \in RemovalRecords(was)
    BY <1>2, <2>2 DEF AfterTypes, RemovalRecords, RemovalPCs
  <2> QED BY <1>4, <1>5, <2>1, <2>3
<1>7. CASE Signals(t)
  <2> DEFINE q == [r EXCEPT !.pc = "parents", !.parents = {}, !.ui = ParentsOf(r.parents \cup r.containers)]
  <2>1. Becomes(t, q) /\ UNCHANGED tree
    BY <1>7 DEF Signals, r
  <2>2. r.parents \cup r.containers \in SUBSET RowKeys
    BY <1>2 DEF RemovalRecords
  <2>3. ParentsOf(r.parents \cup r.containers) \subseteq Int
    BY <2>2, RowsMayGo
  <2>4. q \in RemovalRecords(was)
    BY <1>2, <2>3 DEF RemovalRecords, RemovalPCs
  <2> HIDE DEF q
  <2> QED BY <1>4, <1>5, <2>1, <2>4
<1>8. CASE Parents(t)
  <2> DEFINE q == [r EXCEPT !.pc = "items", !.parents = {}, !.remove = @ \cup r.parents,
                            !.upnp = @ \cup ParentsOf(r.parents)]
  <2>1. Becomes(t, q) /\ UNCHANGED tree
    BY <1>8 DEF Parents, r
  <2>2. r.parents \in SUBSET RowKeys
    BY <1>2 DEF RemovalRecords
  <2>3. ParentsOf(r.parents) \subseteq Int
    BY <2>2, RowsMayGo
  <2>4. q \in RemovalRecords(was)
    BY <1>2, <2>3 DEF RemovalRecords, RemovalPCs
  <2> HIDE DEF q
  <2> QED BY <1>4, <1>5, <2>1, <2>4
<1>9. CASE References(t)
  <2> DEFINE q == [r EXCEPT !.pc = "children", !.items = {}, !.remove = @ \cup RefsTo(r.items),
                            !.upnp = @ \cup ParentsOf(RefsTo(r.items))]
  <2>1. Becomes(t, q) /\ UNCHANGED tree
    BY <1>9 DEF References, r
  <2>2. r.items \in SUBSET RowKeys
    BY <1>2 DEF RemovalRecords
  <2>3. RefsTo(r.items) \in SUBSET RowKeys
    BY <2>2, RowsMayGo
  <2>4. ParentsOf(RefsTo(r.items)) \subseteq Int
    BY <2>3, RowsMayGo
  <2>5. q \in RemovalRecords(was)
    BY <1>2, <2>3, <2>4 DEF RemovalRecords, RemovalPCs
  <2> HIDE DEF q
  <2> QED BY <1>4, <1>5, <2>1, <2>5
<1>10. CASE Children(t)
  <2>1. Becomes(t, AfterChildren(r)) /\ UNCHANGED tree
    BY <1>3, <1>10, ChildrenEffect DEF r
  <2>2. r.containers \in SUBSET RowKeys
    BY <1>2 DEF RemovalRecords
  <2>3. PICK C : C = ChildrenOf(r.containers) /\ C \subseteq RowKeys
    BY <2>2, RowsMayGo
  <2>4. Containers(C) \subseteq C
    BY DEF Containers
  <2>5. [r EXCEPT !.containers = Containers(C), !.items = C \ Containers(C),
                  !.parents = {}, !.remove = r.remove \cup C] \in RemovalRecords(was)
    BY <1>2, <2>3, <2>4 DEF RemovalRecords
  <2>6. \A q \in RemovalRecords(was) : EndOfTurn(q) \in RemovalRecords(was)
    BY DEF EndOfTurn, RemovalRecords, RemovalPCs
  <2>7. AfterChildren(r) \in RemovalRecords(was)
    BY <2>3, <2>5, <2>6, Zenon DEF AfterChildren
  <2> QED BY <1>4, <1>5, <2>1, <2>7
<1>11. CASE DeleteCollected(t)
  <2> DEFINE e == [r EXCEPT !.remove = {}]
             q == [e EXCEPT !.pc = IF Pending(e) THEN "parents" ELSE "upnp"]
  <2>1. Becomes(t, q) /\ Delete(r.remove)
    BY <1>11 DEF DeleteCollected, r
  <2>2. PICK S : S = r.remove /\ S \subseteq RowKeys
    BY <1>2 DEF RemovalRecords
  <2>3. TreeInv'
    BY <2>1, <2>2, DeleteKeeps
  <2>4. e \in RemovalRecords(was)
    BY <1>2 DEF RemovalRecords
  <2> HIDE DEF e
  <2>5. q \in RemovalRecords(was)
    BY <2>4 DEF RemovalRecords, RemovalPCs
  <2> HIDE DEF q
  <2> QED BY <1>5, <2>1, <2>3, <2>5
<1>12. CASE FindEmptyUpnp(t)
  <2> DEFINE q == [r EXCEPT !.pc = "ui", !.changed = @ \cup Protected(r.upnp), !.empty = Childless(r.upnp),
                            !.ui = @ \cup ParentsOf(Childless(r.upnp)), !.upnp = Occupied(r.upnp)]
  <2>1. Becomes(t, q) /\ UNCHANGED tree
    BY <1>12 DEF FindEmptyUpnp, r
  <2>2. r.upnp \in SUBSET Int
    BY <1>2 DEF RemovalRecords
  <2>3. Childless(r.upnp) \in SUBSET RowKeys /\ Occupied(r.upnp) \subseteq Int /\ Protected(r.upnp) \subseteq Int
    BY <2>2, RowsMayGo DEF RowKeys, Protected
  <2>4. ParentsOf(Childless(r.upnp)) \subseteq Int
    BY <2>3, RowsMayGo
  <2>5. q \in RemovalRecords(was)
    BY <1>2, <2>3, <2>4 DEF RemovalRecords, RemovalPCs
  <2> HIDE DEF q
  <2> QED BY <1>4, <1>5, <2>1, <2>5
<1>13. CASE FindEmptyUi(t)
  <2> DEFINE empty == r.empty \cup Childless(r.ui)
             left == Occupied(r.ui) \cup ParentsOf(Childless(r.ui))
             done == [r EXCEPT !.pc = "done", !.changed = @ \cup Protected(r.ui) \cup left \cup r.upnp]
             purge == [r EXCEPT !.pc = "purge", !.empty = empty, !.ui = left,
                                !.changed = @ \cup Protected(r.ui)]
  <2>1. Becomes(t, IF empty = {} THEN done ELSE purge) /\ UNCHANGED tree
    BY <1>13 DEF FindEmptyUi, r
  <2>2. r.ui \in SUBSET Int
    BY <1>2 DEF RemovalRecords
  <2>3. Childless(r.ui) \in SUBSET RowKeys /\ Occupied(r.ui) \subseteq Int /\ Protected(r.ui) \subseteq Int
    BY <2>2, RowsMayGo DEF RowKeys, Protected
  <2>4. ParentsOf(Childless(r.ui)) \subseteq Int
    BY <2>3, RowsMayGo
  <2>5. empty \subseteq RowKeys /\ left \subseteq Int
    BY <1>2, <2>3, <2>4 DEF RemovalRecords
  <2> HIDE DEF empty, left
  <2>6. done \in RemovalRecords(was) /\ purge \in RemovalRecords(was)
    BY <1>2, <2>3, <2>5 DEF RemovalRecords, RemovalPCs
  <2> HIDE DEF done, purge
  <2> QED BY <1>4, <1>5, <2>1, <2>6
<1>14. CASE Purge(t)
  <2> DEFINE e == [r EXCEPT !.empty = {}]
             q == IF e.upnp \cup e.ui = {} THEN [e EXCEPT !.pc = "done"] ELSE [e EXCEPT !.pc = "upnp"]
  <2>1. Becomes(t, q) /\ Delete(r.empty)
    BY <1>14 DEF Purge, r
  <2>2. PICK S : S = r.empty /\ S \subseteq RowKeys
    BY <1>2 DEF RemovalRecords
  <2>3. TreeInv'
    BY <2>1, <2>2, DeleteKeeps
  <2>4. e \in RemovalRecords(was)
    BY <1>2 DEF RemovalRecords
  <2> HIDE DEF e
  <2>5. q \in RemovalRecords(was)
    BY <2>4 DEF RemovalRecords, RemovalPCs
  <2> HIDE DEF q
  <2> QED BY <1>5, <2>1, <2>3, <2>5
<1> QED
  BY <1>6, <1>7, <1>8, <1>9, <1>10, <1>11, <1>12, <1>13, <1>14 DEF removalStep

-------------------------------------------------------------------------------
(* The rows an import adds, and those it lists.                            *)

PathsOK ==
    /\ Files \cap (Dirs \cup Virtuals) = {} /\ Dirs \cap Virtuals = {}
    /\ {"none", "root", "fsroot"} \cap (Files \cup Dirs \cup Virtuals) = {}

\* The tree with more rows.
Extends(T) ==
    /\ IsFiniteSet(DOMAIN T) /\ Ids \subseteq DOMAIN T /\ DOMAIN T \subseteq Nat
    /\ \A i \in Ids : T[i] = tree[i]
    /\ \A i \in DOMAIN T \ Ids : /\ IsRow(T[i]) /\ T[i].type # "ref" /\ T[i].ref = INVALID_OBJECT_ID
                                 /\ T[i].parent \in DOMAIN T

LEMMA ExtensionKeeps ==
    ASSUME TreeInv, NEW T, Extends(T), tree' = T
    PROVE  TreeInv'
<1>1. Ids' = DOMAIN T /\ Ids \subseteq Ids' /\ \A i \in Ids : tree'[i] = tree[i]
  BY DEF Extends, Ids
<1>2. RowsOK'
  BY <1>1 DEF Extends, TreeInv, RowsOK
<1>3. RootsStay'
  BY <1>1 DEF TreeInv, NothingDangles, RootsStay, Roots
<1>4. HasParent' /\ RefersToItem'
  BY <1>1 DEF Extends, TreeInv, NothingDangles, HasParent, RefersToItem
<1> QED BY <1>2, <1>3, <1>4 DEF TreeInv, NothingDangles

\* The key after those of an extension.
LEMMA NextKeyIsNew ==
    ASSUME TreeInv, NEW T, Extends(T)
    PROVE  Max(DOMAIN T) + 1 \in RowKeys /\ Max(DOMAIN T) + 1 \notin DOMAIN T
<1>1. DOMAIN T \in SUBSET Nat /\ IsFiniteSet(DOMAIN T) /\ DOMAIN T # {} /\ Roots \subseteq DOMAIN T
  BY DEF Extends, TreeInv, RowsOK, NothingDangles, RootsStay, Roots
<1>2. PICK m : m = Max(DOMAIN T)
  OBVIOUS
<1>3. m \in DOMAIN T /\ \A i \in DOMAIN T : m >= i
  BY <1>1, <1>2, MaxOfNaturals
<1> QED BY <1>1, <1>2, <1>3 DEF Roots, RowKeys

LEMMA AddToExtension ==
    ASSUME TreeInv, NEW T, Extends(T), NEW o, IsRow(o), o.type # "ref", o.ref = INVALID_OBJECT_ID,
           o.parent \in DOMAIN T, NEW n, n = Max(DOMAIN T) + 1
    PROVE  Extends(Added(T, n, o))
<1>1. n \in RowKeys /\ n \notin DOMAIN T
  BY NextKeyIsNew
<1>2. PICK U : U = Added(T, n, o)
  OBVIOUS
<1>3. DOMAIN U = DOMAIN T \cup {n} /\ U[n] = o /\ \A i \in DOMAIN T : U[i] = T[i]
  BY <1>1, <1>2 DEF Added
<1>4. IsFiniteSet(DOMAIN U)
  BY <1>3, FS_AddElement DEF Extends
<1>5. Extends(U)
  BY <1>1, <1>3, <1>4 DEF Extends, RowKeys
<1> QED BY <1>2, <1>5

\* A row at a location is the least of those there.
LEMMA LeastRow ==
    ASSUME TreeInv, NEW S, S \subseteq Ids, S # {}
    PROVE  Min(S) \in S /\ Min(S) \in Nat
<1>1. S \in SUBSET Nat
  BY DEF TreeInv, RowsOK
<1> QED BY <1>1, MinOfNaturals

\* The rows for the path of a directory are there, and hang together.
LEMMA EnsuredExtends ==
    ASSUME TreeInv, PathsOK, NEW d \in Dirs, Chain[d] \in Seq(Dirs), d \in Range(Chain[d]), NEW T, T = Ensured(d)
    PROVE  /\ Extends(T)
           /\ \E i \in DOMAIN T : T[i].type = "dir" /\ T[i].at = d
<1> DEFINE path == Chain[d]
           missing == {k \in DOMAIN path : At("dir", path[k]) = {}}
           before(k) == {j \in missing : j < k}
           key(k) == IF k = 0 THEN CDS_ID_FS_ROOT
                     ELSE IF k \in missing THEN NextId + Cardinality(before(k))
                     ELSE Min(At("dir", path[k]))
           new == {key(k) : k \in missing}
           U == [i \in Ids \cup new |->
                    IF i \in Ids THEN tree[i]
                    ELSE LET k == CHOOSE k \in missing : key(k) = i
                         IN Object("dir", path[k], key(k - 1))]
<1>1. T = U
  BY DEF Ensured
<1>2. DOMAIN path = 1 .. Len(path) /\ Len(path) \in Nat /\ \A k \in DOMAIN path : path[k] \in Dirs
  OBVIOUS
<1>3. NextId \in Nat /\ NextId \notin Ids /\ \A i \in Ids : i < NextId
  BY NextIdIsNew
<1>4. IsFiniteSet(missing) /\ missing \subseteq 1 .. Len(path)
  <2>1. IsFiniteSet(1 .. Len(path))
    BY <1>2, FS_Interval
  <2>2. missing \subseteq 1 .. Len(path)
    BY <1>2
  <2> HIDE DEF missing
  <2> QED BY <2>1, <2>2, FS_Subset
<1>5. ASSUME NEW k \in missing PROVE Cardinality(before(k)) \in Nat
  <2>1. before(k) \subseteq missing
    OBVIOUS
  <2> HIDE DEF missing, before
  <2> QED BY <1>4, <2>1, FS_Subset, FS_CardinalityType
<1>6. ASSUME NEW k \in missing PROVE key(k) \in Nat /\ key(k) \notin Ids
  <2>1. k # 0
    BY <1>4
  <2>2. key(k) = NextId + Cardinality(before(k))
    BY <2>1
  <2> HIDE DEF key
  <2>3. PICK n, c : n = NextId /\ c = Cardinality(before(k))
    OBVIOUS
  <2>4. n \in Nat /\ c \in Nat /\ key(k) = n + c
    BY <1>3, <1>5, <2>2, <2>3
  <2>5. key(k) \in Nat /\ key(k) >= NextId
    BY ONLY <2>3, <2>4
  <2> QED BY <1>3, <2>5
<1>7. ASSUME NEW k \in DOMAIN path PROVE k - 1 \in (DOMAIN path) \cup {0}
  BY <1>2
<1>8. ASSUME NEW k \in (DOMAIN path) \cup {0} PROVE key(k) \in Ids \cup new
  <2>1. CASE k = 0
    BY <2>1 DEF TreeInv, NothingDangles, RootsStay, Roots
  <2>2. CASE k \in missing
    BY <2>2
  <2>3. CASE k # 0 /\ k \notin missing
    <3>1. At("dir", path[k]) # {} /\ key(k) = Min(At("dir", path[k]))
      BY <2>3
    <3>2. At("dir", path[k]) \subseteq Ids
      BY DEF At
    <3> QED BY <3>1, <3>2, LeastRow
  <2> QED BY <2>1, <2>2, <2>3
<1>9. ASSUME NEW i \in new
      PROVE  \E k \in missing : key(k) = i /\ T[i] = Object("dir", path[k], key(k - 1))
  <2>1. \E k \in missing : key(k) = i
    OBVIOUS
  <2>2. i \notin Ids
    BY <1>6, <2>1
  <2> DEFINE c == CHOOSE k \in missing : key(k) = i
  <2>3. c \in missing /\ key(c) = i
    BY <2>1, Zenon
  <2>4. T[i] = Object("dir", path[c], key(c - 1))
    BY <1>1, <2>2
  <2> HIDE DEF c, key, missing
  <2> QED BY <2>3, <2>4
<1>10. DOMAIN T = Ids \cup new /\ \A i \in Ids : T[i] = tree[i]
  BY <1>1
<1>11. new \subseteq Nat /\ new \cap Ids = {}
  BY <1>6
<1>12. IsFiniteSet(new)
  <2> DEFINE f == [k \in missing |-> key(k)]
  <2>1. f \in Surjection(missing, new)
    BY DEF Surjection
  <2> HIDE DEF f, new, missing
  <2> QED BY <1>4, <2>1, FS_Surjection
<1> HIDE DEF U, new, key, missing, path
<1>13. Ids \subseteq Nat /\ IsFiniteSet(Ids)
  BY DEF TreeInv, RowsOK
<1>14. IsFiniteSet(Ids \cup new)
  BY <1>12, <1>13, FS_Union
<1>15. ASSUME NEW i \in DOMAIN T \ Ids
       PROVE  /\ IsRow(T[i]) /\ T[i].type = "dir" /\ T[i].ref = INVALID_OBJECT_ID
              /\ T[i].parent \in DOMAIN T
  <2>1. PICK k \in missing : T[i] = Object("dir", path[k], key(k - 1))
    BY <1>9, <1>10
  <2>2. k \in DOMAIN path /\ path[k] \in Dirs
    BY <1>2 DEF missing, path
  <2>3. key(k - 1) \in DOMAIN T
    BY <1>7, <1>8, <1>10, <2>2
  <2>4. key(k - 1) \in Int
    <3>1. key(k - 1) \in Ids \cup new
      BY <1>10, <2>3, Zenon
    <3>2. key(k - 1) \in Nat
      BY <1>11, <1>13, <3>1, Zenon
    <3> QED BY ONLY <3>2
  <2>5. path[k] \notin Files
    BY <2>2 DEF PathsOK
  <2>6. PICK o, p, q : o = Object("dir", p, q) /\ o = T[i] /\ p = path[k] /\ q = key(k - 1)
    BY <2>1
  <2>7. o \in Objects /\ o.type = "dir" /\ o.at = p /\ o.parent = q /\ o.ref = INVALID_OBJECT_ID
    BY <2>2, <2>4, <2>6 DEF Object, Objects
  <2> QED BY <2>3, <2>5, <2>6, <2>7 DEF IsRow
<1>16. Extends(T)
  BY <1>10, <1>11, <1>13, <1>14, <1>15 DEF Extends
<1>17. PICK k \in DOMAIN path : path[k] = d
  BY <1>2 DEF Range, path
<1>18. CASE k \in missing
  <2>1. key(k) \in new
    BY <1>18 DEF new
  <2>2. PICK j \in missing : key(j) = key(k) /\ T[key(k)] = Object("dir", path[j], key(j - 1))
    BY <1>9, <2>1
  <2>3. j = k
    <3>1. ASSUME NEW i \in missing, NEW l \in missing, i < l PROVE Cardinality(before(i)) # Cardinality(before(l))
      <4>a. missing \subseteq Int
        BY <1>2, <1>4
      <4>1. before(i) \subseteq before(l) /\ i \in before(l) /\ i \notin before(i)
        <5>1. i \in Int /\ l \in Int
          BY <4>a
        <5>2. i \in before(l) /\ i \notin before(i)
          BY <3>1, <5>1
        <5>3. ASSUME NEW x \in before(i) PROVE x \in before(l)
          BY <3>1, <4>a, <5>1
        <5> HIDE DEF before
        <5> QED BY <5>2, <5>3
      <4>2. IsFiniteSet(before(l))
        BY <1>4, FS_Subset
      <4> HIDE DEF before
      <4> QED BY <4>1, <4>2, FS_Subset
    <3>2. ASSUME NEW i \in missing PROVE key(i) = NextId + Cardinality(before(i))
      BY <1>4, <3>2 DEF key
    <3>3. PICK n, b, c : n = NextId /\ b = Cardinality(before(j)) /\ c = Cardinality(before(k))
      OBVIOUS
    <3>4. n + b = n + c /\ n \in Nat /\ b \in Nat /\ c \in Nat
      BY <1>3, <1>5, <1>18, <2>2, <3>2, <3>3
    <3>5. b = c
      BY ONLY <3>4
    <3>6. ~(j < k) /\ ~(k < j)
      BY <1>18, <3>1, <3>3, <3>5
    <3>7. j \in Nat /\ k \in Nat
      BY <1>4, <1>18
    <3> QED BY ONLY <3>6, <3>7
  <2>4. k \in DOMAIN path /\ path[k] \in Dirs
    BY <1>2, <1>17 DEF path
  <2>5. key(k - 1) \in Int
    <3>1. k - 1 \in (DOMAIN path) \cup {0}
      BY <1>7, <2>4
    <3>2. key(k - 1) \in Ids \cup new
      BY <1>8, <3>1
    <3>3. key(k - 1) \in Nat
      BY <1>11, <1>13, <3>2, Zenon
    <3> QED BY ONLY <3>3
  <2>6. PICK o, p, q : o = Object("dir", p, q) /\ o = T[key(k)] /\ p = d /\ q = key(k - 1)
    BY <1>17, <2>2, <2>3
  <2>7. o.type = "dir" /\ o.at = p
    BY <2>6 DEF Object
  <2>8. key(k) \in DOMAIN T /\ T[key(k)].type = "dir" /\ T[key(k)].at = d
    BY <1>10, <2>1, <2>6, <2>7
  <2>9. PICK i : i = key(k)
    OBVIOUS
  <2>10. i \in DOMAIN T /\ T[i].type = "dir" /\ T[i].at = d
    BY <2>8, <2>9, Zenon
  <2> QED BY <1>16, <2>10
<1>19. CASE k \notin missing
  <2>1. PICK i : i \in At("dir", d)
    BY <1>17, <1>19 DEF missing, path
  <2> QED BY <1>10, <1>16, <2>1 DEF At
<1> QED BY <1>16, <1>18, <1>19

\* No root is among the files and directories at and below another container.
LEMMA ListedMayGo ==
    ASSUME TreeInv, NEW top \in RowKeys
    PROVE  Listed(top) \subseteq RowKeys
<1> DEFINE N == Cardinality(Ids)
           V == SUBSET RowKeys
           G == [R \in V |-> R \cup {i \in ChildrenOf({c \in R : IsContainer(c)}) : tree[i].type \in {"item", "dir"}}]
           reached[n \in 0 .. Cardinality(Ids)] ==
               IF n = 0 THEN {top}
               ELSE LET R == reached[n - 1]
                    IN R \cup {i \in ChildrenOf({c \in R : IsContainer(c)}) : tree[i].type \in {"item", "dir"}}
<1>1. Listed(top) = reached[N] \ {top}
  BY DEF Listed
<1>2. N \in Nat
  BY FS_CardinalityType DEF TreeInv, RowsOK
<1>3. G \in [V -> V]
  <2>1. ASSUME NEW R \in V PROVE ChildrenOf({c \in R : IsContainer(c)}) \subseteq RowKeys
    <3>1. {c \in R : IsContainer(c)} \in SUBSET RowKeys
      OBVIOUS
    <3> QED BY <3>1, RowsMayGo
  <2> QED BY <2>1
<1>4. PICK f \in [0 .. N -> V] : Iterates(f, N, {top}, G)
  <2>1. {top} \in V
    OBVIOUS
  <2> HIDE DEF N, V, G
  <2> QED BY <1>2, <1>3, <2>1, IterationExists
<1>5. PICK g : /\ Listed(top) = g[N] \ {top}
               /\ g = [n \in 0 .. Cardinality(Ids) |->
                          IF n = 0 THEN {top}
                          ELSE LET R == g[n - 1]
                               IN R \cup {i \in ChildrenOf({c \in R : IsContainer(c)}) : tree[i].type \in {"item", "dir"}}]
  <2>1. \A n \in 0 .. N : n # 0 => f[n - 1] \in V
    BY <1>2
  <2>2. \A n \in 0 .. N : f[n] = IF n = 0 THEN {top} ELSE G[f[n - 1]]
    BY <1>4 DEF Iterates
  <2>3. f = [n \in 0 .. Cardinality(Ids) |->
                IF n = 0 THEN {top}
                ELSE LET R == f[n - 1]
                     IN R \cup {i \in ChildrenOf({c \in R : IsContainer(c)}) : tree[i].type \in {"item", "dir"}}]
    BY <1>4, <2>1, <2>2
  <2>4. reached = [n \in 0 .. Cardinality(Ids) |->
                      IF n = 0 THEN {top}
                      ELSE LET R == reached[n - 1]
                           IN R \cup {i \in ChildrenOf({c \in R : IsContainer(c)}) : tree[i].type \in {"item", "dir"}}]
    BY <2>3
  <2> HIDE DEF reached
  <2> QED BY <1>1, <2>4
<1>6. g[0] = {top}
  BY <1>2, <1>5
<1>7. ASSUME NEW n \in 0 .. N, n + 1 \in 0 .. N, g[n] \in V PROVE g[n + 1] = G[g[n]]
  <2>1. n + 1 # 0 /\ (n + 1) - 1 = n
    BY <1>2
  <2>2. g[n + 1] = g[n] \cup {i \in ChildrenOf({c \in g[n] : IsContainer(c)}) : tree[i].type \in {"item", "dir"}}
    BY <1>5, <1>7, <2>1
  <2> QED BY <1>7, <2>2
<1>8. Agree(f, g, N)
  <2>1. Follows(g, N, {top}, G, V)
    BY <1>6, <1>7 DEF Follows
  <2> HIDE DEF N, V, G
  <2> QED BY <1>2, <1>4, <2>1, IterationUnique
<1>9. N \in 0 .. N
  BY <1>2
<1>10. g[N] = f[N] /\ f[N] \in V
  BY <1>8, <1>9 DEF Agree
<1> QED BY <1>5, <1>10

\* The next entry of a loop is one that is left.
LEMMA EntryIsLeft ==
    ASSUME Order \in Seq(Entries), Entries \subseteq Range(Order),
           import.todo \subseteq Entries, import.todo # {}
    PROVE  Entry \in import.todo
<1> DEFINE K == {k \in DOMAIN Order : Order[k] \in import.todo}
<1>1. K \subseteq Nat
  OBVIOUS
<1>2. K # {}
  BY DEF Range
<1>3. Min(K) \in K
  <2> HIDE DEF K
  <2> QED BY <1>1, <1>2, MinOfNaturals
<1>4. Entry = Order[Min(K)]
  BY DEF Entry
<1> HIDE DEF K
<1> QED BY <1>3, <1>4 DEF K

\* The rows of the layout's own containers.
LEMMA FixedOrder ==
    ASSUME IsFiniteSet(Fixed)
    PROVE  /\ SetToSeq(Fixed) \in [1 .. Cardinality(Fixed) -> Fixed]
           /\ \A v \in Fixed : \E k \in 1 .. Cardinality(Fixed) : SetToSeq(Fixed)[k] = v
<1> DEFINE N == Cardinality(Fixed)
<1>1. N \in Nat /\ ExistsBijection(1 .. N, Fixed)
  BY FS_CardinalityType
<1>2. PICK f \in [1 .. N -> Fixed] : IsInjective(f)
  BY <1>1 DEF ExistsBijection, Bijection, Injection, Surjection, IsInjective
<1>3. SetToSeq(Fixed) \in [1 .. N -> Fixed] /\ IsInjective(SetToSeq(Fixed))
  BY <1>2 DEF SetToSeq
<1>4. PICK g : g = SetToSeq(Fixed)
  OBVIOUS
<1>5. g \in Injection(1 .. N, Fixed)
  BY <1>3, <1>4 DEF Injection
<1>6. IsFiniteSet(1 .. N) /\ Cardinality(1 .. N) = N
  BY <1>1, FS_Interval
<1>7. g \in Surjection(1 .. N, Fixed)
  <2> HIDE DEF N
  <2>1. N = Cardinality(Fixed)
    BY DEF N
  <2> QED BY <1>5, <1>6, <2>1, FS_Injection
<1> QED BY <1>3, <1>4, <1>7 DEF Surjection

\* The first tree hangs together, and the layout keeps keys of rows.
LEMMA LaidOutRows ==
    ASSUME ImportAssumption, NEW T, T = LaidOutTree
    PROVE  /\ DOMAIN T = 0 .. CDS_ID_FS_ROOT + Cardinality(Fixed)
           /\ Cardinality(Fixed) \in Nat
           /\ T[CDS_ID_ROOT] = [Object("virtual", "root", -1) EXCEPT !.persistent = TRUE]
           /\ T[CDS_ID_FS_ROOT] = [Object("dir", "fsroot", CDS_ID_ROOT) EXCEPT !.persistent = TRUE]
           /\ \A i \in DOMAIN T \ Roots : \E v \in Fixed : T[i] = Object("virtual", v, CDS_ID_ROOT)
           /\ \A v \in Fixed : \E i \in DOMAIN T : T[i].at = v
<1>1. PICK order : order = SetToSeq(Fixed)
  OBVIOUS
<1>2. PICK n : n = Cardinality(Fixed)
  OBVIOUS
<1>3. n \in Nat
  BY <1>2, FS_CardinalityType DEF ImportAssumption
<1>4. order \in [1 .. n -> Fixed] /\ \A v \in Fixed : \E k \in 1 .. n : order[k] = v
  BY <1>1, <1>2, FixedOrder DEF ImportAssumption
<1>5. T = [i \in 0 .. 1 + n |-> IF i \in {0, 1} THEN FilledTree[i] ELSE Object("virtual", order[i - 1], 0)]
  <2>1. DOMAIN FilledTree = {0, 1}
    BY DEF FilledTree
  <2>2. T = [i \in 0 .. 1 + n |-> IF i \in DOMAIN FilledTree THEN FilledTree[i]
                                  ELSE Object("virtual", order[i - 1], 0)]
    BY <1>1, <1>2, Zenon DEF LaidOutTree
  <2> QED BY <2>1, <2>2
<1>6. DOMAIN T = 0 .. 1 + n /\ T[0] = FilledTree[0] /\ T[1] = FilledTree[1]
  BY <1>3, <1>5
<1>7. ASSUME NEW i \in DOMAIN T \ Roots PROVE \E v \in Fixed : T[i] = Object("virtual", v, 0)
  <2>1. i \in 0 .. 1 + n /\ i - 1 \in 1 .. n /\ i \notin {0, 1}
    BY <1>3, <1>6 DEF Roots
  <2>2. T[i] = Object("virtual", order[i - 1], 0)
    BY <1>5, <2>1
  <2>3. order[i - 1] \in Fixed
    BY <1>4, <2>1
  <2> QED BY <2>2, <2>3
<1>8. ASSUME NEW v \in Fixed PROVE \E i \in DOMAIN T : T[i].at = v
  <2>1. PICK k \in 1 .. n : order[k] = v
    BY <1>4
  <2>2. k + 1 \in 0 .. 1 + n /\ k + 1 \notin {0, 1} /\ (k + 1) - 1 = k
    BY <1>3
  <2>3. T[k + 1] = Object("virtual", v, 0)
    BY <1>5, <2>1, <2>2
  <2>4. T[k + 1].at = v
    BY <2>3 DEF Object
  <2> QED BY <1>6, <2>2, <2>4
<1>9. FilledTree[0] = [Object("virtual", "root", -1) EXCEPT !.persistent = TRUE]
  BY DEF FilledTree
<1>10. FilledTree[1] = [Object("dir", "fsroot", 0) EXCEPT !.persistent = TRUE]
  BY DEF FilledTree
<1> QED BY <1>2, <1>3, <1>6, <1>7, <1>8, <1>9, <1>10

LEMMA FirstTree == ASSUME ImportAssumption, tree = LaidOutTree PROVE TreeInv
<1>0. PICK T : T = LaidOutTree /\ T = tree
  OBVIOUS
<1>1. PICK n : n = Cardinality(Fixed)
  OBVIOUS
<1>2. /\ DOMAIN T = 0 .. 1 + n /\ n \in Nat
      /\ T[0] = [Object("virtual", "root", -1) EXCEPT !.persistent = TRUE]
      /\ T[1] = [Object("dir", "fsroot", 0) EXCEPT !.persistent = TRUE]
      /\ \A i \in DOMAIN T \ Roots : \E v \in Fixed : T[i] = Object("virtual", v, 0)
  BY <1>0, <1>1, LaidOutRows
<1>3. RootsStay
  BY <1>0, <1>2 DEF RootsStay, Roots, Ids
<1>4. IsFiniteSet(Ids) /\ Ids \subseteq Nat
  <2>1. PICK m : m = 1 + n
    OBVIOUS
  <2>2. m \in Int /\ 0 \in Int
    BY <1>2, <2>1
  <2>3. IsFiniteSet(0 .. m)
    BY <2>2, FS_Interval
  <2>4. Ids = 0 .. m /\ 0 .. m \subseteq Nat
    BY <1>0, <1>2, <2>1 DEF Ids
  <2> QED BY <2>3, <2>4
<1>5. ASSUME NEW i \in Ids
      PROVE  /\ IsRow(tree[i]) /\ tree[i].type # "ref" /\ tree[i].ref = INVALID_OBJECT_ID
             /\ i # 0 => tree[i].parent = 0
  <2>1. CASE i = 0
    <3>1. "root" \notin Files
      BY DEF ImportAssumption
    <3>2. PICK o : o = [Object("virtual", "root", -1) EXCEPT !.persistent = TRUE]
      OBVIOUS
    <3>3. o = [type |-> "virtual", at |-> "root", parent |-> -1, ref |-> -333, tag |-> Unread, persistent |-> TRUE]
      BY <3>2 DEF Object
    <3>4. tree[i] = o
      BY <1>0, <1>2, <2>1, <3>2
    <3>5. o \in Objects /\ o.type = "virtual" /\ o.at = "root" /\ o.parent = -1 /\ o.ref = -333
      BY <3>3 DEF Objects
    <3> QED BY <2>1, <3>1, <3>4, <3>5 DEF IsRow
  <2>2. CASE i = 1
    <3>1. "fsroot" \notin Files
      BY DEF ImportAssumption
    <3>2. PICK o : o = [Object("dir", "fsroot", 0) EXCEPT !.persistent = TRUE]
      OBVIOUS
    <3>3. o = [type |-> "dir", at |-> "fsroot", parent |-> 0, ref |-> -333, tag |-> Unread, persistent |-> TRUE]
      BY <3>2 DEF Object
    <3>4. tree[i] = o
      BY <1>0, <1>2, <2>2, <3>2
    <3>5. o \in Objects /\ o.type = "dir" /\ o.at = "fsroot" /\ o.parent = 0 /\ o.ref = -333
      BY <3>3 DEF Objects
    <3> QED BY <2>2, <3>1, <3>4, <3>5 DEF IsRow
  <2>3. CASE i \notin Roots
    <3>1. PICK v \in Fixed : tree[i] = Object("virtual", v, 0)
      BY <1>0, <1>2, <2>3 DEF Ids
    <3>2. v \in Virtuals /\ v \notin Files
      BY DEF ImportAssumption
    <3>3. i # 0
      BY <2>3 DEF Roots
    <3> QED BY <3>1, <3>2 DEF Object, Objects, IsRow
  <2> QED BY <2>1, <2>2, <2>3 DEF Roots
<1>6. 0 \in Ids
  BY <1>3 DEF RootsStay, Roots
<1>7. RowsOK
  BY <1>4, <1>5 DEF RowsOK
<1>8. HasParent /\ RefersToItem
  BY <1>5, <1>6 DEF HasParent, RefersToItem
<1> QED
  BY <1>3, <1>7, <1>8 DEF TreeInv, NothingDangles

LEMMA KeptIdIsKey == ASSUME ImportAssumption, NEW v \in Fixed PROVE KeptId(v) \in Nat
<1>1. PICK T : T = LaidOutTree
  OBVIOUS
<1>2. PICK i \in DOMAIN T : T[i].at = v
  BY <1>1, LaidOutRows
<1>3. PICK n : n = Cardinality(Fixed)
  OBVIOUS
<1>4. DOMAIN T = 0 .. 1 + n /\ n \in Nat
  BY <1>1, <1>3, LaidOutRows
<1>5. KeptId(v) \in DOMAIN T
  BY <1>1, <1>2, Zenon DEF KeptId
<1> QED BY <1>4, <1>5

-------------------------------------------------------------------------------
(* What holds of the task of the content thread, whatever the others do.   *)

NonRoots == RowKeys \cup {INVALID_OBJECT_ID}
Places == Files \cup Dirs \cup Virtuals \cup {"none", "root", "fsroot"}
Tasks ==
    {task \in [kind : {"none", "scan", "file", "remove"}, file : Entries \cup {NoDir},
               object : NonRoots, parent : Keys, clear : BOOLEAN] :
        task.kind = "remove" => task.object # INVALID_OBJECT_ID}
Queued == {task \in Tasks : task.kind \in {"scan", "remove"}}
ImportRecords ==
    [pc : ImportPCs, task : Tasks, place : Places, list : SUBSET RowKeys,
     state : [Entries -> {"none", "New", "Existing", "Created", "Loaded"}], object : [Entries -> Keys],
     seen : [Files -> Tags \cup {Gone}], todo : SUBSET Entries,
     file : Files \cup {NoDir}, at : Places, chain : Seq(Dirs \cup Virtuals), parent : Keys,
     leaves : Seq(Virtuals), refs : SUBSET Nat, made : SUBSET Nat]

\* addContainerTree, for the layout or for a directory; the layout of one item,
\* and that of all of them
ChainPCs == {"lookup", "segment", "use", "load"}
LayoutChain(m) == m.pc \in ChainPCs /\ m.at \in Virtuals
Laying(m) == m.pc \in {"reference", "clean", "cleaning"} \/ LayoutChain(m)
InLayout(m) == m.pc \in {"layout", "played", "parents"} \/ Laying(m)

\* of what a chain is made of
Kind(m) == IF m.at \in Virtuals THEN Virtuals ELSE Dirs

\* No file has the key of a root for its object; one that was added or changed
\* has a key, so that the references to its object can be looked for.
FileObjects(m) ==
    \A f \in Files : m.object[f] \notin Roots /\ (m.state[f] = "Created" => m.object[f] # INVALID_OBJECT_ID)
LayoutObjects(m) == InLayout(m) => \A f \in m.todo \cap Files : m.object[f] # INVALID_OBJECT_ID
\* What the next statement works on is of its kind.
Focus(m) ==
    /\ m.pc \in {"items", "update"} => m.todo \subseteq Files
    /\ m.pc = "begin" => m.place \in Entries
    /\ m.pc = "update" => m.file \in Files
    /\ m.pc \in ChainPCs => m.at \in Dirs \cup Virtuals /\ m.chain \in Seq(Kind(m))
    /\ m.pc \in {"use", "load"} => m.chain # <<>>
    /\ m.pc = "reference" \/ LayoutChain(m) => m.leaves # <<>>
    /\ Laying(m) => m.file \in Files /\ m.refs \subseteq RowKeys
ImportOK(m) == m \in ImportRecords /\ FileObjects(m) /\ LayoutObjects(m) /\ Focus(m)

ImportInv == ImportOK(import)
StateInv ==
    /\ disk \in [Files -> Tags \cup {Gone}] /\ lost \subseteq Dirs /\ scanMode \in Modes
    /\ own \in [Dirs -> Keys] /\ shared \in [Virtuals -> Keys]
    /\ activeScan \in Entries \cup {NoDir} /\ adirId \in NonRoots
    /\ queue \in Seq(Queued)
AdirInv == import.pc \in {"flag", "list"} => adirId \in RowKeys
IInv == TreeInv /\ RemovalInv /\ ImportInv /\ StateInv /\ AdirInv

LEMMA PathsAreOK ==
    ASSUME ImportAssumption
    PROVE  /\ PathsOK /\ Top \in Dirs /\ DirOf \in [Files -> Dirs]
           /\ \A d \in Dirs : Chain[d] \in Seq(Dirs) /\ d \in Range(Chain[d])
           /\ \A v \in Virtuals : Chain[v] \in Seq(Virtuals)
           /\ Order \in Seq(Entries) /\ Entries \subseteq Range(Order)
           /\ Fixed \subseteq Virtuals /\ IsFiniteSet(Fixed)
           /\ Tags \subseteq Seq(Virtuals)
BY DEF ImportAssumption, PathsOK

LEMMA NoImportOK ==
    /\ ImportOK(NoImport) /\ NoImport.pc = "idle" /\ NoTask \in Tasks
    /\ NoImport.task = NoTask
<1>1. NoTask \in Tasks
  BY DEF NoTask, Tasks, NonRoots, Keys
<1>2. PICK n : n = NoTask
  OBVIOUS
<1>3. NoImport \in ImportRecords /\ NoImport.task = n
  <2>1. PICK m : m = NoImport
    OBVIOUS
  <2>2. m = [pc |-> "idle", task |-> n, place |-> NoDir, list |-> {},
     state |-> [e \in Entries |-> "none"],
     object |-> [e \in Entries |-> INVALID_OBJECT_ID],
     seen |-> [f \in Files |-> Gone], todo |-> {},
     file |-> NoDir, at |-> NoDir, chain |-> <<>>, parent |-> INVALID_OBJECT_ID,
     leaves |-> <<>>, refs |-> {}, made |-> {}]
    BY <1>2, <2>1 DEF NoImport
  <2>3. m.task = n
    BY <2>2
  <2>4. m \in ImportRecords
    BY <1>1, <1>2, <2>2 DEF ImportRecords, ImportPCs, Places, NoDir, Keys
  <2> QED BY <2>1, <2>3, <2>4
<1>4. NoImport.pc = "idle" /\ \A e \in Entries : NoImport.object[e] = INVALID_OBJECT_ID /\ NoImport.state[e] = "none"
  BY DEF NoImport
<1>5. FileObjects(NoImport)
  BY <1>4 DEF FileObjects, Roots, Entries
<1>6. LayoutObjects(NoImport) /\ Focus(NoImport)
  BY <1>4 DEF LayoutObjects, Focus, InLayout, Laying, LayoutChain, ChainPCs
<1> QED BY <1>1, <1>2, <1>3, <1>4, <1>5, <1>6 DEF ImportOK

LEMMA ImportInit == ASSUME ImportAssumption, Init PROVE IInv
<1>1. TreeInv
  BY FirstTree DEF Init
<1>2. RemovalInv
  <2>1. PICK n : n = NoRemoval
    OBVIOUS
  <2>2. removal = [t \in Threads |-> n] /\ IsRemoval(n)
    BY <2>1, NewRemovals DEF Init
  <2> QED BY <2>2 DEF RemovalInv
<1>3. ImportInv /\ AdirInv
  BY NoImportOK DEF Init, ImportInv, AdirInv
<1>4. StateInv
  BY DEF Init, StateInv, NonRoots, Keys
<1> QED BY <1>1, <1>2, <1>3, <1>4 DEF IInv

\* A statement that leaves the rows and the removals alone.
LEMMA SameRows ==
    ASSUME UNCHANGED tree
    PROVE  /\ TreeInv => TreeInv'
           /\ RemovalInv /\ UNCHANGED removal => RemovalInv'
<1>1. TreeInv => TreeInv'
  BY DEF TreeInv, RowsOK, NothingDangles, RootsStay, HasParent, RefersToItem, Ids
<1>2. RemovalInv /\ UNCHANGED removal => RemovalInv'
  BY DEF RemovalInv
<1> QED BY <1>1, <1>2

\* What a statement of the import has to show.
AllKept == TreeInv' /\ RemovalInv' /\ ImportOK(import') /\ StateInv' /\ AdirInv'

LEMMA KeptKeeps == ASSUME AllKept PROVE IInv'
BY DEF AllKept, IInv, ImportInv

LEMMA SameState ==
    ASSUME StateInv, UNCHANGED <<scanState, environment, queue>> PROVE StateInv'
BY DEF StateInv, scanState, environment

\* The task is over.
LEMMA EndsKeeps ==
    ASSUME NEW outcome, Ends(outcome)
    PROVE  ImportOK(import') /\ AdirInv' /\ import' = NoImport
<1>1. import' = NoImport
  BY DEF Ends
<1> QED BY <1>1, NoImportOK DEF AdirInv

LEMMA ThrowsKeeps ==
    ASSUME IInv, Throws, UNCHANGED <<environment, queue>>
    PROVE  AllKept
<1>1. ImportOK(import') /\ AdirInv'
  BY EndsKeeps DEF Throws
<1>2. TreeInv' /\ RemovalInv'
  BY SameRows DEF Throws, IInv
<1>3. StateInv'
  BY SameState DEF Throws, IInv
<1> QED BY <1>1, <1>2, <1>3 DEF AllKept

\* The next statement needs less of the import than the one before.
LEMMA GotoOK ==
    ASSUME NEW m, ImportOK(m), NEW pc \in ImportPCs, NEW q, q = [m EXCEPT !.pc = pc],
           pc \in {"use", "load"} => m.chain # <<>>,
           pc \notin {"items", "begin", "update", "reference"},
           pc \in ChainPCs => m.pc \in ChainPCs,
           pc \in {"clean", "cleaning"} => Laying(m),
           InLayout(q) => InLayout(m)
    PROVE  ImportOK(q)
<1>1. q \in ImportRecords
  BY DEF ImportOK, ImportRecords
<1>2. /\ q.pc = pc /\ q.object = m.object /\ q.state = m.state /\ q.todo = m.todo /\ q.place = m.place
      /\ q.file = m.file /\ q.at = m.at /\ q.chain = m.chain /\ q.leaves = m.leaves /\ q.refs = m.refs
  BY DEF ImportOK, ImportRecords
<1>3. FileObjects(q)
  BY <1>2 DEF ImportOK, FileObjects
<1>4. LayoutObjects(q)
  BY <1>2 DEF ImportOK, LayoutObjects
<1>5. Focus(q)
  BY <1>2 DEF ImportOK, Focus, Laying, LayoutChain, ChainPCs, Kind
<1> QED BY <1>1, <1>3, <1>4, <1>5 DEF ImportOK

-------------------------------------------------------------------------------
(* _rescanDirectory.                                                       *)

LEMMA RescanKeeps ==
    ASSUME ImportAssumption, IInv, Rescan, UNCHANGED environment
    PROVE  AllKept
<1>1. PICK m : m = import /\ ImportOK(m) /\ m.pc = "rescan"
  BY DEF IInv, ImportInv, Rescan, In
<1>2. m \in ImportRecords
  BY <1>1 DEF ImportOK
<1>3. ASSUME NEW pc \in {"list", "flag"}, NEW place \in Places
      PROVE  /\ ImportOK([m EXCEPT !.pc = pc, !.place = place])
             /\ [m EXCEPT !.pc = pc, !.place = place].pc = pc
  <2>1. PICK q : q = [m EXCEPT !.pc = pc, !.place = place]
    OBVIOUS
  <2>2. q \in ImportRecords /\ q.pc = pc /\ q.object = m.object /\ q.state = m.state
    BY <1>2, <2>1 DEF ImportRecords, ImportPCs
  <2>3. FileObjects(q) /\ LayoutObjects(q) /\ Focus(q)
    BY <1>1, <2>2 DEF ImportOK, FileObjects, LayoutObjects, Focus, InLayout, Laying, LayoutChain, ChainPCs
  <2> QED BY <2>1, <2>2, <2>3 DEF ImportOK
<1>4. CASE IsContainer(adirId)
  <2>1. import' = [m EXCEPT !.pc = "list", !.place = tree[adirId].at] /\ UNCHANGED <<tree, removal, scanState, queue>>
    BY <1>1, <1>4 DEF Rescan
  <2>2. tree[adirId].at \in Places /\ adirId \in RowKeys
    BY <1>4 DEF IInv, TreeInv, RowsOK, IsRow, Objects, Places, IsContainer, StateInv, NonRoots, RowKeys
  <2>3. ImportOK(import')
    BY <1>3, <2>1, <2>2
  <2>4. AdirInv'
    BY <2>1, <2>2 DEF AdirInv, scanState
  <2> QED BY <2>1, <2>3, <2>4, SameRows, SameState DEF AllKept, IInv
<1>5. CASE ~IsContainer(adirId) /\ ~PresentDir(Top)
  <2>1. adirId' = INVALID_OBJECT_ID /\ Ends("absent") /\ UNCHANGED <<tree, removal, own, shared, activeScan, queue>>
    BY <1>5 DEF Rescan
  <2>2. StateInv'
    BY <2>1 DEF IInv, StateInv, NonRoots, environment
  <2> QED BY <2>1, <2>2, EndsKeeps, SameRows DEF AllKept, IInv
<1>6. CASE ~IsContainer(adirId) /\ PresentDir(Top)
  <2>1. /\ tree' = Ensured(Top) /\ adirId' = Min({i \in DOMAIN tree' : tree'[i].type = "dir" /\ tree'[i].at = Top})
        /\ import' = [m EXCEPT !.pc = "flag", !.place = Top] /\ UNCHANGED <<removal, own, shared, activeScan, queue>>
    BY <1>1, <1>6 DEF Rescan
  <2>2. PICK T : T = Ensured(Top) /\ T = tree'
    BY <2>1
  <2>3. PathsOK /\ Top \in Dirs /\ Chain[Top] \in Seq(Dirs) /\ Top \in Range(Chain[Top])
    BY PathsAreOK
  <2>4. Extends(T) /\ \E i \in DOMAIN T : T[i].type = "dir" /\ T[i].at = Top
    <3>1. TreeInv
      BY DEF IInv
    <3> QED BY <2>2, <2>3, <3>1, EnsuredExtends
  <2>5. TreeInv'
    BY <2>2, <2>4, ExtensionKeeps DEF IInv
  <2>6. adirId' \in RowKeys
    <3>1. PICK S : S = {i \in DOMAIN T : T[i].type = "dir" /\ T[i].at = Top}
      OBVIOUS
    <3>2. S \subseteq Nat /\ S # {}
      BY <2>4, <3>1 DEF Extends
    <3>3. Min(S) \in S
      BY <3>2, MinOfNaturals
    <3>4. ASSUME NEW r \in Roots PROVE r \notin S
      <4>1. T[r] = tree[r] /\ tree[r].at \in {"root", "fsroot"}
        BY <2>4 DEF IInv, TreeInv, NothingDangles, RootsStay, Roots, Extends, Object
      <4>2. Top \notin {"root", "fsroot"}
        BY <2>3 DEF PathsOK
      <4> QED BY <3>1, <4>1, <4>2
    <3> QED BY <2>1, <2>2, <3>1, <3>2, <3>3, <3>4 DEF RowKeys
  <2>7. ImportOK(import') /\ AdirInv'
    BY <1>3, <2>1, <2>3, <2>6 DEF Places, AdirInv
  <2>8. RemovalInv' /\ StateInv'
    BY <2>1, <2>6 DEF IInv, RemovalInv, StateInv, NonRoots, environment
  <2> QED BY <2>5, <2>7, <2>8 DEF AllKept
<1> QED BY <1>4, <1>5, <1>6

LEMMA FlagContainerKeeps ==
    ASSUME ImportAssumption, IInv, FlagContainer, UNCHANGED environment
    PROVE  AllKept
<1>1. PICK m : m = import /\ ImportOK(m) /\ m.pc = "flag"
  BY DEF IInv, ImportInv, FlagContainer, In
<1>2. CASE IsContainer(adirId)
  <2>1. tree' = [tree EXCEPT ![adirId].persistent = TRUE] /\ Goto("list") /\ UNCHANGED <<removal, scanState, queue>>
    BY <1>2 DEF FlagContainer
  <2>2. adirId \in RowKeys
    BY <1>1 DEF IInv, AdirInv
  <2>3. PICK o : o = [tree[adirId] EXCEPT !.persistent = TRUE]
    OBVIOUS
  <2>4. adirId \in Ids /\ tree[adirId] \in Objects /\ IsRow(tree[adirId])
    BY <1>2 DEF IsContainer, IInv, TreeInv, RowsOK, IsRow
  <2>5. /\ o \in Objects /\ o.type = tree[adirId].type /\ o.at = tree[adirId].at
        /\ o.ref = tree[adirId].ref /\ o.parent = tree[adirId].parent
    BY <2>3, <2>4 DEF Objects
  <2>6. IsRow(o)
    BY <2>4, <2>5 DEF IsRow
  <2>7. o.parent \in Ids
    BY <2>2, <2>4, <2>5 DEF IInv, TreeInv, NothingDangles, HasParent, RowKeys, Roots
  <2>8. tree' = [tree EXCEPT ![adirId] = o]
    BY <2>1, <2>3
  <2>9. TreeInv'
    <3>1. adirId \in Ids \ Roots /\ TreeInv
      BY <2>2, <2>4 DEF RowKeys, IInv
    <3> QED BY <2>5, <2>6, <2>7, <2>8, <3>1, WriteKeeps
  <2>10. ImportOK(import')
    <3>1. import' = [m EXCEPT !.pc = "list"]
      BY <1>1, <2>1 DEF Goto
    <3>2. PICK q : q = [m EXCEPT !.pc = "list"]
      OBVIOUS
    <3>3. q.pc = "list"
      BY <1>1, <3>2 DEF ImportOK, ImportRecords
    <3>4. ~InLayout(q)
      BY <3>3 DEF InLayout, Laying, LayoutChain, ChainPCs
    <3>5. "list" \in ImportPCs /\ "list" \notin ChainPCs
      BY DEF ImportPCs, ChainPCs
    <3> QED BY <1>1, <3>1, <3>2, <3>4, <3>5, GotoOK
  <2>11. AdirInv' /\ RemovalInv'
    BY <2>1, <2>2 DEF AdirInv, scanState, IInv, RemovalInv
  <2> QED BY <2>1, <2>9, <2>10, <2>11, SameState DEF AllKept, IInv
<1>3. CASE ~IsContainer(adirId)
  BY <1>3, ThrowsKeeps DEF FlagContainer
<1> QED BY <1>2, <1>3

LEMMA AppendOK == ASSUME NEW T, NEW s \in Seq(T), NEW e \in T PROVE Append(s, e) \in Seq(T)
OBVIOUS

LEMMA TailOK ==
    ASSUME NEW T, NEW s \in Seq(T), s # <<>> PROVE Head(s) \in T /\ Tail(s) \in Seq(T)
OBVIOUS

LEMMA RemoveTaskOK ==
    ASSUME NEW i \in RowKeys, NEW clear \in BOOLEAN
    PROVE  /\ RemoveTask(i, clear) \in Queued /\ RemoveTask(i, clear).kind = "remove"
           /\ RemoveTask(i, clear).object = i
<1>1. PICK task : task = RemoveTask(i, clear)
  OBVIOUS
<1>2. task = [kind |-> "remove", file |-> NoDir, object |-> i, parent |-> INVALID_OBJECT_ID, clear |-> clear]
  BY <1>1 DEF RemoveTask, NoTask
<1>3. i # INVALID_OBJECT_ID
  BY DEF RowKeys
<1> QED BY <1>1, <1>2, <1>3 DEF Queued, Tasks, NonRoots, Keys

LEMMA ListContentsKeeps ==
    ASSUME ImportAssumption, IInv, ListContents, UNCHANGED environment
    PROVE  AllKept
<1>1. PICK m : m = import /\ ImportOK(m) /\ m.pc = "list" /\ m \in ImportRecords
  BY DEF IInv, ImportInv, ListContents, In, ImportOK
<1>2. adirId \in RowKeys
  BY <1>1 DEF IInv, AdirInv
<1>3. TreeInv' /\ RemovalInv'
  BY SameRows DEF ListContents, IInv
<1>4. CASE Present(m.place)
  <2>1. /\ import' = [m EXCEPT !.pc = "begin", !.list = Listed(adirId)]
        /\ shared' = IF MustClear(m.task) THEN Without(shared) ELSE shared
        /\ UNCHANGED <<own, activeScan, adirId, queue>>
    BY <1>1, <1>4 DEF ListContents
  <2>2. PICK L : L = Listed(adirId) /\ L \subseteq RowKeys
    BY <1>2, ListedMayGo DEF IInv
  <2>3. m.place \in Entries
    BY <1>4 DEF Present, Entries
  <2>4. PICK q : q = [m EXCEPT !.pc = "begin", !.list = L]
    OBVIOUS
  <2>5. q \in ImportRecords /\ q.pc = "begin" /\ q.object = m.object /\ q.state = m.state /\ q.place = m.place
    BY ZenonT(60), <1>1, <2>2, <2>4 DEF ImportRecords, ImportPCs
  <2>6. FileObjects(q) /\ LayoutObjects(q) /\ Focus(q)
    BY <1>1, <2>3, <2>5 DEF ImportOK, FileObjects, LayoutObjects, Focus, InLayout, Laying, LayoutChain, ChainPCs
  <2>7. ImportOK(import') /\ AdirInv'
    BY <2>1, <2>2, <2>4, <2>5, <2>6 DEF ImportOK, AdirInv
  <2>8. shared' \in [Virtuals -> Keys]
    BY <2>1 DEF Without, IInv, StateInv, Keys
  <2>9. StateInv'
    BY <2>1, <2>8 DEF IInv, StateInv, environment
  <2> QED BY <1>3, <2>7, <2>9 DEF AllKept
<1>5. CASE ~Present(m.place)
  <2>1. /\ queue' = Append(queue, RemoveTask(adirId, TRUE))
        /\ adirId' = IF m.place = Top THEN INVALID_OBJECT_ID ELSE adirId
        /\ Ends("absent") /\ UNCHANGED <<own, shared, activeScan>>
    BY <1>1, <1>5 DEF ListContents
  <2>2. PICK task : task = RemoveTask(adirId, TRUE) /\ task \in Queued
    BY <1>2, RemoveTaskOK
  <2>3. queue' \in Seq(Queued) /\ adirId' \in NonRoots
    <3>1. queue \in Seq(Queued) /\ queue' = Append(queue, task)
      BY <2>1, <2>2 DEF IInv, StateInv
    <3>2. queue' \in Seq(Queued)
      BY <2>2, <3>1, AppendOK, Zenon
    <3> QED BY <2>1, <3>2 DEF IInv, StateInv, NonRoots
  <2>4. StateInv'
    BY <2>1, <2>3 DEF IInv, StateInv, environment
  <2> QED BY <1>3, <2>1, <2>4, EndsKeeps DEF AllKept
<1> QED BY <1>4, <1>5

-------------------------------------------------------------------------------
(* doImport: what is read, and the containers.                             *)

LEMMA EntriesAreEntries ==
    ASSUME ImportAssumption, NEW place \in Entries
    PROVE  EntriesOf(place) \subseteq Entries
<1>1. Top \in Dirs
  BY PathsAreOK
<1>2. CASE place \in Dirs
  BY <1>1, <1>2 DEF EntriesOf, Below, Entries
<1>3. CASE place \notin Dirs
  <2>1. place \in Files /\ DirOf[place] \in Dirs
    BY <1>3, PathsAreOK DEF Entries
  <2>2. PICK s : s = Chain[DirOf[place]] /\ s \in Seq(Dirs)
    BY <2>1, PathsAreOK
  <2>3. Range(s) \subseteq Dirs
    BY <2>2 DEF Range
  <2> QED BY <1>1, <1>3, <2>1, <2>2, <2>3 DEF EntriesOf, Entries
<1> QED BY <1>2, <1>3

LEMMA BeginKeeps ==
    ASSUME ImportAssumption, IInv, Begin, UNCHANGED environment
    PROVE  AllKept
<1>1. PICK m : m = import /\ ImportOK(m) /\ m.pc = "begin" /\ m \in ImportRecords
  BY DEF IInv, ImportInv, Begin, In, ImportOK
<1>2. m.place \in Entries
  BY <1>1 DEF ImportOK, Focus
<1>3. TreeInv' /\ RemovalInv'
  BY SameRows DEF Begin, IInv
<1>4. StateInv'
  <2>1. own' \in [Dirs -> Keys] /\ activeScan' \in Entries \cup {NoDir}
    BY <1>1, <1>2 DEF Begin, Without, IInv, StateInv, Keys
  <2> QED BY <2>1 DEF Begin, IInv, StateInv, environment
<1>5. CASE Present(m.place)
  <2>1. PICK new : new = EntriesOf(m.place) /\ new \subseteq Entries
    BY <1>2, EntriesAreEntries
  <2>2. PICK state, object, seen :
            /\ state = [e \in Entries |-> IF e \in new THEN "New" ELSE "none"]
            /\ object = [m.object EXCEPT ![m.place] = m.task.object]
            /\ seen = [f \in Files |-> IF f \in new THEN disk[f] ELSE Gone]
    OBVIOUS
  <2>3. PICK q : q = [m EXCEPT !.pc = "containers", !.todo = new, !.state = state, !.object = object, !.seen = seen]
    OBVIOUS
  <2>4. import' = q
    BY <1>1, <1>5, <2>1, <2>2, <2>3, Zenon DEF Begin
  <2>5. m.task.object \in NonRoots /\ m.object \in [Entries -> Keys]
    BY <1>1 DEF ImportRecords, Tasks
  <2>6. object \in [Entries -> Keys] /\ \A f \in Files : object[f] \notin Roots
    <3>1. NonRoots \subseteq Keys /\ NonRoots \cap Roots = {}
      BY DEF NonRoots, Keys, RowKeys, Roots
    <3>2. \A f \in Files : m.object[f] \notin Roots
      BY <1>1 DEF ImportOK, FileObjects
    <3> QED BY <2>2, <2>5, <3>1, <3>2 DEF Entries
  <2>7. /\ state \in [Entries -> {"none", "New", "Existing", "Created", "Loaded"}]
        /\ seen \in [Files -> Tags \cup {Gone}] /\ \A e \in Entries : state[e] # "Created"
    BY <2>2 DEF IInv, StateInv
  <2>8. q \in ImportRecords /\ q.pc = "containers" /\ q.object = object /\ q.state = state
    BY ZenonT(60), <1>1, <2>1, <2>3, <2>6, <2>7 DEF ImportRecords, ImportPCs
  <2>9. FileObjects(q)
    BY <2>6, <2>7, <2>8 DEF FileObjects, Entries
  <2>10. LayoutObjects(q) /\ Focus(q)
    BY <2>8 DEF LayoutObjects, Focus, InLayout, Laying, LayoutChain, ChainPCs
  <2>11. AdirInv'
    BY <2>4, <2>8 DEF AdirInv
  <2> QED BY <1>3, <1>4, <2>4, <2>8, <2>9, <2>10, <2>11 DEF AllKept, ImportOK
<1>6. CASE ~Present(m.place) /\ m.task.kind = "scan"
  <2>1. PICK q : q = [m EXCEPT !.pc = "sweep"]
    OBVIOUS
  <2>2. import' = q
    BY <1>1, <1>6, <2>1 DEF Begin, Goto
  <2>3. q.pc = "sweep"
    BY <1>1, <2>1 DEF ImportRecords
  <2>4. ~InLayout(q) /\ "sweep" \in ImportPCs /\ "sweep" \notin ChainPCs
    BY <2>3 DEF InLayout, Laying, LayoutChain, ChainPCs, ImportPCs
  <2>5. ImportOK(q)
    BY <1>1, <2>1, <2>4, GotoOK
  <2>6. AdirInv'
    BY <2>2, <2>3 DEF AdirInv
  <2> QED BY <1>3, <1>4, <2>2, <2>5, <2>6 DEF AllKept
<1>7. CASE ~Present(m.place) /\ m.task.kind # "scan"
  <2>1. Ends("absent")
    BY <1>1, <1>7 DEF Begin
  <2> QED BY <1>3, <1>4, <2>1, EndsKeeps DEF AllKept
<1> QED BY <1>5, <1>6, <1>7

LEMMA NextContainerKeeps ==
    ASSUME ImportAssumption, IInv, NextContainer, UNCHANGED environment
    PROVE  AllKept
<1>1. PICK m : m = import /\ ImportOK(m) /\ m.pc = "containers" /\ m \in ImportRecords
  BY DEF IInv, ImportInv, NextContainer, In, ImportOK
<1>2. TreeInv' /\ RemovalInv' /\ StateInv'
  BY SameRows, SameState DEF NextContainer, IInv
<1>3. PICK d, todo : d = Entry /\ todo = Visited
  OBVIOUS
<1>4. todo \subseteq Entries
  BY <1>1, <1>3 DEF Visited, ImportRecords
<1>5. SUFFICES ImportOK(import') /\ import'.pc \notin {"flag", "list"}
  BY <1>2 DEF AllKept, AdirInv
<1>6. CASE m.todo \cap Dirs = {}
  <2>1. PICK new : new = InState("New", Files) /\ new \subseteq Files
    BY ZenonT(60) DEF InState
  <2>2. PICK q : q = [m EXCEPT !.pc = "items", !.todo = new]
    OBVIOUS
  <2>3. import' = q
    BY <1>1, <1>6, <2>1, <2>2, Zenon DEF NextContainer
  <2>4. q \in ImportRecords /\ q.pc = "items" /\ q.object = m.object /\ q.state = m.state /\ q.todo = new
    BY ZenonT(60), <1>1, <2>1, <2>2 DEF ImportRecords, ImportPCs, Entries
  <2>5. FileObjects(q) /\ LayoutObjects(q) /\ Focus(q)
    BY <1>1, <2>1, <2>4 DEF ImportOK, FileObjects, LayoutObjects, Focus, InLayout, Laying, LayoutChain, ChainPCs
  <2> QED BY <2>3, <2>4, <2>5 DEF ImportOK
<1>7. CASE m.todo \cap Dirs # {} /\ (d \in Files \/ ~Present(d))
  <2>1. PICK q : q = [m EXCEPT !.todo = todo]
    OBVIOUS
  <2>2. import' = q
    BY <1>1, <1>3, <1>7, <2>1, Zenon DEF NextContainer
  <2>3. q \in ImportRecords /\ q.pc = "containers" /\ q.object = m.object /\ q.state = m.state
    BY <1>1, <1>4, <2>1 DEF ImportRecords
  <2>4. FileObjects(q) /\ LayoutObjects(q) /\ Focus(q)
    BY <1>1, <2>3 DEF ImportOK, FileObjects, LayoutObjects, Focus, InLayout, Laying, LayoutChain, ChainPCs
  <2> QED BY <2>2, <2>3, <2>4 DEF ImportOK
<1>8. CASE m.todo \cap Dirs # {} /\ ~(d \in Files \/ ~Present(d))
  <2>1. d \in Dirs /\ d \notin Files
    <3>1. d \in m.todo /\ m.todo \subseteq Entries
      BY <1>1, <1>3, <1>8, EntryIsLeft, PathsAreOK DEF ImportRecords
    <3> QED BY <1>8, <3>1 DEF Entries
  <2>2. CASE At("dir", d) # {}
    <3>1. PICK i : i = Min(At("dir", d)) /\ i \in Nat
      BY <2>2, LeastRow DEF At, IInv
    <3>2. PICK q : q = [m EXCEPT !.todo = todo, !.state[d] = "Existing", !.object[d] = i]
      OBVIOUS
    <3>3. import' = q
      BY <1>1, <1>3, <1>8, <2>2, <3>1, <3>2, Zenon DEF NextContainer
    <3>4. PICK state, object : state = [m.state EXCEPT ![d] = "Existing"] /\ object = [m.object EXCEPT ![d] = i]
      OBVIOUS
    <3>5. /\ state \in [Entries -> {"none", "New", "Existing", "Created", "Loaded"}] /\ object \in [Entries -> Keys]
          /\ \A f \in Files : state[f] = m.state[f] /\ object[f] = m.object[f]
      BY <1>1, <2>1, <3>1, <3>4 DEF ImportRecords, Keys, Entries
    <3>6. q = [m EXCEPT !.todo = todo, !.state = state, !.object = object]
      BY <1>1, <3>2, <3>4 DEF ImportRecords
    <3>7. q \in ImportRecords /\ q.pc = "containers" /\ q.object = object /\ q.state = state
      BY <1>1, <1>4, <3>5, <3>6 DEF ImportRecords
    <3>8. FileObjects(q)
      BY ZenonT(60), <1>1, <3>5, <3>7 DEF ImportOK, FileObjects
    <3>9. LayoutObjects(q) /\ Focus(q)
      BY <3>7 DEF LayoutObjects, Focus, InLayout, Laying, LayoutChain, ChainPCs
    <3> QED BY <3>3, <3>7, <3>8, <3>9 DEF ImportOK
  <2>3. CASE At("dir", d) = {}
    <3>1. PICK chain : chain = Chain[d] /\ chain \in Seq(Dirs)
      BY <2>1, PathsAreOK
    <3>2. PICK q : q = [m EXCEPT !.todo = todo, !.pc = "segment", !.at = d, !.chain = chain, !.parent = CDS_ID_FS_ROOT]
      OBVIOUS
    <3>3. import' = q
      BY <1>1, <1>3, <1>8, <2>3, <3>1, <3>2, Zenon DEF NextContainer
    <3>4. chain \in Seq(Dirs \cup Virtuals) /\ d \in Places /\ 1 \in Keys /\ "segment" \in ImportPCs
      BY <2>1, <3>1 DEF Places, Keys, ImportPCs
    <3>5. /\ q \in ImportRecords /\ q.pc = "segment" /\ q.object = m.object /\ q.state = m.state
          /\ q.at = d /\ q.chain = chain
      BY <1>1, <1>4, <3>2, <3>4 DEF ImportRecords
    <3>6. d \notin Virtuals
      BY <2>1 DEF ImportAssumption
    <3>7. ~InLayout(q)
      BY <3>5, <3>6 DEF InLayout, Laying, LayoutChain
    <3>8. FileObjects(q) /\ LayoutObjects(q) /\ Focus(q)
      BY <1>1, <2>1, <3>1, <3>5, <3>6, <3>7 DEF ImportOK, FileObjects, LayoutObjects, Focus, Laying, LayoutChain, Kind
    <3> QED BY <3>3, <3>5, <3>8 DEF ImportOK
  <2> QED BY <2>2, <2>3
<1> QED BY <1>6, <1>7, <1>8

-------------------------------------------------------------------------------
(* addContainerTree.                                                       *)

LEMMA FailsKeeps ==
    ASSUME IInv, import.pc \in ChainPCs \cup {"reference"}, Fails, UNCHANGED <<environment, queue>>
    PROVE  AllKept
<1>1. PICK m : m = import /\ ImportOK(m) /\ m \in ImportRecords /\ m.pc \in ChainPCs \cup {"reference"}
  BY DEF IInv, ImportInv, ImportOK
<1>2. CASE OfLayout
  <2>1. PICK q : q = [m EXCEPT !.pc = "played"]
    OBVIOUS
  <2>2. import' = q /\ UNCHANGED <<tree, removal, scanState>>
    BY <1>1, <1>2, <2>1 DEF Fails, Goto
  <2>3. InLayout(m)
    BY <1>1, <1>2 DEF OfLayout, InLayout, Laying, LayoutChain
  <2>4. q.pc = "played" /\ "played" \in ImportPCs /\ "played" \notin ChainPCs
    BY <1>1, <2>1 DEF ImportRecords, ImportPCs, ChainPCs
  <2>5. ImportOK(q)
    BY <1>1, <2>1, <2>3, <2>4, GotoOK
  <2>6. AdirInv'
    BY <2>2, <2>4 DEF AdirInv
  <2>7. TreeInv' /\ RemovalInv' /\ StateInv'
    BY <2>2, SameRows, SameState DEF IInv
  <2> QED BY <2>2, <2>5, <2>6, <2>7 DEF AllKept
<1>3. CASE ~OfLayout
  BY <1>3, ThrowsKeeps DEF Fails
<1> QED BY <1>2, <1>3

LEMMA EndOfChainKeeps ==
    ASSUME ImportAssumption, IInv, EndOfChain, UNCHANGED environment
    PROVE  AllKept
<1>1. PICK m : m = import /\ ImportOK(m) /\ m.pc = "segment" /\ m \in ImportRecords
  BY DEF IInv, ImportInv, EndOfChain, In, ImportOK
<1>2. TreeInv' /\ RemovalInv' /\ StateInv'
  BY SameRows, SameState DEF EndOfChain, IInv
<1>3. SUFFICES ImportOK(import') /\ import'.pc \notin {"flag", "list"}
  BY <1>2 DEF AllKept, AdirInv
<1>4. CASE m.at \in Virtuals
  <2>1. PICK q : q = [m EXCEPT !.pc = "reference"]
    OBVIOUS
  <2>2. import' = q
    BY <1>1, <1>4, <2>1 DEF EndOfChain, OfLayout
  <2>3. /\ q \in ImportRecords /\ q.pc = "reference" /\ q.object = m.object /\ q.state = m.state
        /\ q.todo = m.todo /\ q.file = m.file /\ q.leaves = m.leaves /\ q.refs = m.refs
    BY ZenonT(60), <1>1, <2>1 DEF ImportRecords, ImportPCs
  <2>4. LayoutChain(m) /\ Laying(m) /\ InLayout(m)
    BY <1>1, <1>4 DEF LayoutChain, Laying, InLayout, ChainPCs
  <2>5. FileObjects(q) /\ LayoutObjects(q)
    BY <1>1, <2>3, <2>4 DEF ImportOK, FileObjects, LayoutObjects
  <2>6. Focus(q)
    BY <1>1, <2>3, <2>4 DEF ImportOK, Focus, Laying, LayoutChain, ChainPCs
  <2> QED BY <2>2, <2>3, <2>5, <2>6 DEF ImportOK
<1>5. CASE m.at \notin Virtuals
  <2>1. m.at \in Dirs /\ m.at \notin Files
    BY <1>1, <1>5 DEF ImportOK, Focus, ChainPCs, ImportAssumption
  <2>2. PICK state, object : state = [m.state EXCEPT ![m.at] = "Created"] /\ object = [m.object EXCEPT ![m.at] = own[m.at]]
    OBVIOUS
  <2>3. PICK q : q = [m EXCEPT !.pc = "containers", !.state = state, !.object = object]
    OBVIOUS
  <2>4. import' = q
    <3>1. import' = [m EXCEPT !.pc = "containers", !.state[m.at] = "Created", !.object[m.at] = own[m.at]]
      BY <1>1, <1>5 DEF EndOfChain, OfLayout
    <3> QED BY <1>1, <2>2, <2>3, <3>1 DEF ImportRecords
  <2>5. own[m.at] \in Keys
    BY <2>1 DEF IInv, StateInv
  <2>6. /\ state \in [Entries -> {"none", "New", "Existing", "Created", "Loaded"}] /\ object \in [Entries -> Keys]
        /\ \A f \in Files : state[f] = m.state[f] /\ object[f] = m.object[f]
    BY <1>1, <2>1, <2>2, <2>5 DEF ImportRecords, Entries
  <2>7. q \in ImportRecords /\ q.pc = "containers" /\ q.object = object /\ q.state = state
    BY ZenonT(60), <1>1, <2>3, <2>6 DEF ImportRecords, ImportPCs
  <2>8. FileObjects(q)
    <3>1. FileObjects(m) /\ q.object = object /\ q.state = state
      BY <1>1, <2>7 DEF ImportOK
    <3> QED BY ZenonT(60), <2>6, <3>1 DEF FileObjects
  <2>9. LayoutObjects(q) /\ Focus(q)
    BY <2>7 DEF LayoutObjects, Focus, InLayout, Laying, LayoutChain, ChainPCs
  <2> QED BY <2>4, <2>7, <2>8, <2>9 DEF ImportOK
<1> QED BY <1>4, <1>5

\* What is written to a cache is a key.
LEMMA SetCacheOK ==
    ASSUME StateInv, NEW i \in Keys, SetCache(i), UNCHANGED <<activeScan, adirId, environment, queue>>
    PROVE  StateInv'
<1>1. own' \in [Dirs -> Keys] /\ shared' \in [Virtuals -> Keys]
  BY DEF SetCache, StateInv
<1> QED BY <1>1 DEF StateInv, environment

LEMMA LookUpKeeps ==
    ASSUME ImportAssumption, IInv, LookUp, UNCHANGED environment
    PROVE  AllKept
<1>1. PICK m : m = import /\ ImportOK(m) /\ m.pc = "lookup" /\ m \in ImportRecords
  BY DEF IInv, ImportInv, LookUp, In, ImportOK
<1>2. TreeInv' /\ RemovalInv'
  BY SameRows DEF LookUp, IInv
<1>3. PICK q : q = [m EXCEPT !.pc = "segment"]
  OBVIOUS
<1>4. import' = q
  BY <1>1, <1>3 DEF LookUp, Goto
<1>5. q.pc = "segment" /\ q.at = m.at /\ "segment" \in ImportPCs /\ "segment" \in ChainPCs
  BY <1>1, <1>3 DEF ImportRecords, ImportPCs, ChainPCs
<1>6. InLayout(q) => InLayout(m)
  BY <1>1, <1>5 DEF InLayout, Laying, LayoutChain, ChainPCs
<1>7. ImportOK(q)
  BY <1>1, <1>3, <1>5, <1>6, GotoOK DEF ChainPCs
<1>8. AdirInv'
  BY <1>4, <1>5 DEF AdirInv
<1>9. StateInv'
  <2>1. CASE Cached = INVALID_OBJECT_ID /\ RowsAt(Segment) # {}
    <3>1. PICK i : i = Min(RowsAt(Segment)) /\ i \in Nat
      BY <2>1, LeastRow DEF RowsAt, At, IInv
    <3>2. SetCache(i) /\ UNCHANGED <<activeScan, adirId, queue>> /\ i \in Keys
      BY <2>1, <3>1 DEF LookUp, Keys
    <3> QED BY <3>2, SetCacheOK DEF IInv
  <2>2. CASE ~(Cached = INVALID_OBJECT_ID /\ RowsAt(Segment) # {})
    BY <2>2, SameState DEF LookUp, scanState, IInv
  <2> QED BY <2>1, <2>2
<1> QED BY <1>2, <1>4, <1>7, <1>8, <1>9 DEF AllKept

\* The next segment is looked up, or the chain is at its end.
LEMMA NextSegmentOK ==
    ASSUME ImportInv, import.pc \in {"use", "load"}, NEW i \in Keys, NextSegment(i)
    PROVE  ImportOK(import') /\ AdirInv'
<1>1. PICK m : m = import /\ ImportOK(m) /\ m.pc \in {"use", "load"} /\ m \in ImportRecords
  BY DEF ImportInv, ImportOK
<1>2. PICK pc : pc = IF OfLayout /\ Len(m.chain) > 1 THEN "lookup" ELSE "segment"
  OBVIOUS
<1>3. pc \in {"lookup", "segment"}
  BY <1>2
<1>4. m.chain # <<>> /\ m.chain \in Seq(Dirs \cup Virtuals) /\ m.chain \in Seq(Kind(m))
  BY <1>1 DEF ImportOK, Focus, ImportRecords, ChainPCs
<1>5. PICK chain : chain = Tail(m.chain) /\ chain \in Seq(Dirs \cup Virtuals) /\ chain \in Seq(Kind(m))
  BY <1>4, TailOK
<1>6. PICK q : q = [m EXCEPT !.pc = pc, !.parent = i, !.chain = chain]
  OBVIOUS
<1>7. import' = q
  <2>1. import' = [m EXCEPT !.pc = pc, !.parent = i, !.chain = Tail(@)]
    BY <1>1, <1>2, Zenon DEF NextSegment
  <2> QED BY <1>1, <1>5, <1>6, <2>1 DEF ImportRecords
<1>8. pc \in ImportPCs
  BY <1>3 DEF ImportPCs
<1>9. /\ q \in ImportRecords /\ q.pc = pc /\ q.object = m.object /\ q.state = m.state /\ q.at = m.at /\ q.chain = chain
      /\ q.todo = m.todo /\ q.file = m.file /\ q.leaves = m.leaves /\ q.refs = m.refs
  BY <1>1, <1>5, <1>6, <1>8 DEF ImportRecords
<1>10. (LayoutChain(q) <=> LayoutChain(m)) /\ (Laying(q) <=> LayoutChain(m)) /\ (InLayout(q) <=> LayoutChain(m))
  BY <1>1, <1>3, <1>9 DEF LayoutChain, Laying, InLayout, ChainPCs
<1>11. LayoutChain(m) => Laying(m) /\ InLayout(m)
  BY DEF Laying, InLayout
<1>12. FileObjects(q) /\ LayoutObjects(q)
  BY <1>1, <1>9, <1>10, <1>11 DEF ImportOK, FileObjects, LayoutObjects
<1>13. Focus(q)
  BY <1>1, <1>3, <1>5, <1>9, <1>10, <1>11 DEF ImportOK, Focus, ChainPCs, Kind
<1>14. AdirInv'
  BY <1>3, <1>7, <1>9 DEF AdirInv
<1> QED BY <1>7, <1>9, <1>12, <1>13, <1>14 DEF ImportOK

LEMMA UseCachedKeeps ==
    ASSUME ImportAssumption, IInv, UseCached, UNCHANGED environment
    PROVE  AllKept
<1>1. PICK m : m = import /\ ImportOK(m) /\ m.pc = "use" /\ m \in ImportRecords
  BY DEF IInv, ImportInv, UseCached, In, ImportOK
<1>2. TreeInv' /\ RemovalInv' /\ StateInv'
  BY SameRows, SameState DEF UseCached, Crashes, IInv
<1>3. CASE Cached = INVALID_OBJECT_ID
  <2>1. PICK q : q = [m EXCEPT !.pc = "crashed"]
    OBVIOUS
  <2>2. import' = q
    BY <1>1, <1>3, <2>1 DEF UseCached, Crashes, Goto
  <2>3. q.pc = "crashed" /\ "crashed" \in ImportPCs /\ "crashed" \notin ChainPCs
    BY <1>1, <2>1 DEF ImportRecords, ImportPCs, ChainPCs
  <2>4. ~InLayout(q)
    BY <2>3 DEF InLayout, Laying, LayoutChain
  <2>5. ImportOK(q)
    BY <1>1, <2>1, <2>3, <2>4, GotoOK
  <2> QED BY <1>2, <2>2, <2>3, <2>5 DEF AllKept, AdirInv
<1>4. CASE Cached # INVALID_OBJECT_ID
  <2>1. PICK i : i = Cached
    OBVIOUS
  <2>2. NextSegment(i)
    BY <1>4, <2>1 DEF UseCached
  <2>3. i \in Keys
    <3>1. m.chain # <<>> /\ m.chain \in Seq(Kind(m))
      BY <1>1 DEF ImportOK, Focus, ChainPCs
    <3>2. Segment \in Kind(m)
      BY <1>1, <3>1, TailOK DEF Segment
    <3> QED BY <1>1, <2>1, <3>2 DEF Kind, Cached, OfLayout, IInv, StateInv
  <2> QED BY <1>1, <1>2, <2>2, <2>3, NextSegmentOK DEF AllKept, IInv
<1> QED BY <1>3, <1>4

LEMMA LoadSegmentKeeps ==
    ASSUME ImportAssumption, IInv, LoadSegment, UNCHANGED environment
    PROVE  AllKept
<1>1. PICK m : m = import /\ ImportOK(m) /\ m.pc = "load" /\ m \in ImportRecords
  BY DEF IInv, ImportInv, LoadSegment, In, ImportOK
<1>2. CASE m.parent \notin Ids
  BY <1>1, <1>2, FailsKeeps DEF LoadSegment, ChainPCs
<1>3. CASE m.parent \in Ids
  <2>1. PICK i : i = m.parent /\ i \in Keys
    BY <1>1 DEF ImportRecords
  <2>2. SetCache(i) /\ NextSegment(i) /\ UNCHANGED <<tree, removal, activeScan, adirId, queue>>
    BY <1>1, <1>3, <2>1 DEF LoadSegment
  <2>3. StateInv'
    BY <2>1, <2>2, SetCacheOK DEF IInv
  <2>4. TreeInv' /\ RemovalInv'
    BY <2>2, SameRows DEF IInv
  <2> QED BY <1>1, <2>1, <2>2, <2>3, <2>4, NextSegmentOK DEF AllKept, IInv
<1> QED BY <1>2, <1>3

\* A container at a segment of a path is a row, and no item.
LEMMA ContainerIsRow ==
    ASSUME PathsOK, NEW type \in {"dir", "virtual"}, NEW at \in Dirs \cup Virtuals, NEW parent \in Int,
           NEW o, o = Object(type, at, parent)
    PROVE  IsRow(o) /\ o.type = type /\ o.parent = parent /\ o.ref = INVALID_OBJECT_ID
<1>1. at \notin Files
  BY DEF PathsOK
<1>2. /\ o \in Objects /\ o.type = type /\ o.at = at /\ o.parent = parent /\ o.ref = INVALID_OBJECT_ID
  BY DEF Object, Objects
<1> QED BY <1>1, <1>2 DEF IsRow

LEMMA AddSegmentKeeps ==
    ASSUME ImportAssumption, IInv, AddSegment, UNCHANGED environment
    PROVE  AllKept
<1>1. PICK m : m = import /\ ImportOK(m) /\ m.pc = "segment" /\ m \in ImportRecords
  BY DEF IInv, ImportInv, AddSegment, In, ImportOK
<1>2. m.chain # <<>> /\ m.chain \in Seq(Kind(m)) /\ m.at \in Dirs \cup Virtuals
  BY <1>1 DEF AddSegment, ImportOK, Focus, ChainPCs
<1>3. Segment \in Dirs \cup Virtuals
  <2>1. Segment \in Kind(m)
    BY <1>1, <1>2, TailOK DEF Segment
  <2> QED BY <2>1 DEF Kind
<1>4. ASSUME NEW pc \in {"use", "load"}, NEW parent \in Keys, import' = [m EXCEPT !.pc = pc, !.parent = parent]
      PROVE  ImportOK(import') /\ AdirInv'
  <2>1. PICK q : q = [m EXCEPT !.pc = pc, !.parent = parent] /\ import' = q
    BY <1>4
  <2>2. /\ q \in ImportRecords /\ q.pc = pc /\ q.object = m.object /\ q.state = m.state /\ q.at = m.at
        /\ q.chain = m.chain /\ q.todo = m.todo /\ q.file = m.file /\ q.leaves = m.leaves /\ q.refs = m.refs
    BY ZenonT(60), <1>1, <2>1 DEF ImportRecords, ImportPCs
  <2>3. (LayoutChain(q) <=> LayoutChain(m)) /\ (Laying(q) <=> LayoutChain(m)) /\ (InLayout(q) <=> LayoutChain(m))
    BY <1>1, <2>2 DEF LayoutChain, Laying, InLayout, ChainPCs
  <2>4. LayoutChain(m) => Laying(m) /\ InLayout(m)
    BY DEF Laying, InLayout
  <2>5. FileObjects(q) /\ LayoutObjects(q)
    BY <1>1, <2>2, <2>3, <2>4 DEF ImportOK, FileObjects, LayoutObjects
  <2>6. Focus(q)
    BY <1>1, <1>2, <2>2, <2>3, <2>4 DEF ImportOK, Focus, ChainPCs, Kind
  <2> QED BY <2>1, <2>2, <2>5, <2>6 DEF ImportOK, AdirInv
<1> DEFINE row == Object(IF OfLayout THEN "virtual" ELSE "dir", Segment, m.parent)
<1>5. CASE Cached # INVALID_OBJECT_ID
  <2>1. Goto("use") /\ UNCHANGED <<tree, removal, scanState, queue>>
    BY <1>5 DEF AddSegment
  <2>2. import' = [m EXCEPT !.pc = "use", !.parent = m.parent] /\ m.parent \in Keys
    BY <1>1, <2>1 DEF Goto, ImportRecords
  <2>3. ImportOK(import') /\ AdirInv'
    BY <1>4, <2>2
  <2> QED BY <2>1, <2>3, SameRows, SameState DEF AllKept, IInv
<1>6. CASE Cached = INVALID_OBJECT_ID /\ RowsAt(Segment) # {}
  <2>1. PICK i : i = Min(RowsAt(Segment)) /\ i \in Nat
    BY <1>6, LeastRow DEF RowsAt, At, IInv
  <2>2. import' = [m EXCEPT !.pc = "load", !.parent = i] /\ UNCHANGED <<tree, removal, scanState, queue>>
    BY <1>1, <1>6, <2>1 DEF AddSegment
  <2>3. ImportOK(import') /\ AdirInv'
    BY <1>4, <2>1, <2>2 DEF Keys
  <2> QED BY <2>2, <2>3, SameRows, SameState DEF AllKept, IInv
<1>7. CASE Cached = INVALID_OBJECT_ID /\ RowsAt(Segment) = {} /\ Refused(row)
  <2>1. Fails /\ UNCHANGED queue
    BY <1>1, <1>7 DEF AddSegment
  <2> QED BY <1>1, <2>1, FailsKeeps DEF ChainPCs
<1>8. CASE Cached = INVALID_OBJECT_ID /\ RowsAt(Segment) = {} /\ ~Refused(row)
  <2>1. PICK o, i : o = row /\ i = NextId
    OBVIOUS
  <2>2. Insert(o) /\ import' = [m EXCEPT !.pc = "load", !.parent = i] /\ UNCHANGED <<removal, scanState, queue>>
    BY <1>1, <1>8, <2>1 DEF AddSegment
  <2>3. i \in Nat
    BY <2>1, NextIdIsNew DEF IInv
  <2>4. o.parent = m.parent
    BY <2>1 DEF Object
  <2>5. o.parent \in Ids
    BY <1>8, <2>1 DEF Refused
  <2>6. m.parent \in Int
    BY <1>1 DEF ImportRecords, Keys
  <2>7. IsRow(o) /\ o.type # "ref" /\ o.ref = INVALID_OBJECT_ID
    <3>1. PathsOK
      BY PathsAreOK
    <3>2. PICK type \in {"dir", "virtual"} : o = Object(type, Segment, m.parent)
      BY <2>1
    <3> QED BY <1>3, <2>6, <3>1, <3>2, ContainerIsRow
  <2>8. TreeInv'
    <3>1. TreeInv
      BY DEF IInv
    <3> QED BY <2>2, <2>5, <2>7, <3>1, InsertKeeps
  <2>9. ImportOK(import') /\ AdirInv'
    BY <1>4, <2>2, <2>3 DEF Keys
  <2> QED BY <2>2, <2>8, <2>9, SameState DEF AllKept, IInv, RemovalInv
<1> QED BY <1>5, <1>6, <1>7, <1>8

-------------------------------------------------------------------------------
(* createItems.                                                            *)

\* An item is a row, and refers to none.
LEMMA ItemIsRow ==
    ASSUME NEW f \in Files, NEW tag \in Tags \cup {Gone}, NEW parent \in Int,
           NEW o, o = Item(f, parent, tag)
    PROVE  IsRow(o) /\ o.type = "item" /\ o.parent = parent /\ o.ref = INVALID_OBJECT_ID
<1>1. o = [type |-> "item", at |-> f, parent |-> parent, ref |-> INVALID_OBJECT_ID,
           tag |-> tag, persistent |-> FALSE]
  BY DEF Item, Object
<1>2. o \in Objects /\ o.type = "item" /\ o.at = f /\ o.parent = parent /\ o.ref = INVALID_OBJECT_ID
  BY <1>1 DEF Objects, Gone
<1> QED BY <1>2 DEF IsRow

\* The object of a file is no root.
LEMMA FileIsNoRoot ==
    ASSUME ImportAssumption, TreeInv, NEW f \in Files, NEW i \in At("item", f)
    PROVE  i \in RowKeys /\ i \in Ids /\ tree[i].parent \in Ids
<1>1. f \notin {"root", "fsroot"}
  BY PathsAreOK DEF PathsOK
<1>2. i \in Ids /\ tree[i].at = f /\ i \in Nat
  BY DEF At, TreeInv, RowsOK
<1>3. i \notin Roots
  BY <1>1, <1>2 DEF TreeInv, NothingDangles, RootsStay, Roots, Object
<1> QED BY <1>2, <1>3 DEF RowKeys, Roots, TreeInv, NothingDangles, HasParent

\* The next statement of createItems, with what it has found of a file.
ItemStates == {"none", "New", "Existing", "Created", "Loaded"}
ItemFound(m, f, i, q) ==
    /\ \A g \in Files : g # f => q.state[g] = m.state[g]
    /\ q.object = [m.object EXCEPT ![f] = i]
ItemsNext(m, f, q) ==
    q.pc \in {"items", "update"} /\ q.todo \subseteq m.todo /\ (q.pc = "update" => q.file = f)
LEMMA ItemsOK ==
    ASSUME NEW m, ImportOK(m), m.pc = "items", NEW f, f \in Files, NEW i, i \in NonRoots, i # INVALID_OBJECT_ID,
           NEW q, q \in ImportRecords, ItemFound(m, f, i, q), ItemsNext(m, f, q)
    PROVE  ImportOK(q) /\ q.pc \notin {"flag", "list"}
<1>1. FileObjects(m) /\ m.todo \subseteq Files /\ m.object \in [Entries -> Keys]
  BY DEF ImportOK, Focus, ImportRecords
<1>2. i \notin Roots
  BY DEF NonRoots, RowKeys, Roots
<1>3. ASSUME NEW g \in Files
      PROVE  q.object[g] \notin Roots /\ (q.state[g] = "Created" => q.object[g] # INVALID_OBJECT_ID)
  <2>1. m.object[g] \notin Roots /\ (m.state[g] = "Created" => m.object[g] # INVALID_OBJECT_ID)
    BY <1>1 DEF FileObjects
  <2> QED BY <1>1, <1>2, <2>1 DEF Entries, ItemFound
<1>4. FileObjects(q)
  BY <1>3 DEF FileObjects
<1>5. LayoutObjects(q) /\ Focus(q)
  BY <1>1 DEF LayoutObjects, Focus, InLayout, Laying, LayoutChain, ChainPCs, ItemsNext
<1> QED BY <1>4, <1>5 DEF ImportOK, ItemsNext

LEMMA NextItemKeeps ==
    ASSUME ImportAssumption, IInv, NextItem, UNCHANGED environment
    PROVE  AllKept
<1>1. PICK m : m = import /\ ImportOK(m) /\ m.pc = "items" /\ m \in ImportRecords
  BY DEF IInv, ImportInv, NextItem, In, ImportOK
<1>2. TreeInv /\ StateInv /\ PathsOK
  BY PathsAreOK DEF IInv
<1>3. UNCHANGED queue
  BY DEF NextItem
<1>4. m.todo \subseteq Files /\ FileObjects(m)
  BY <1>1 DEF ImportOK, Focus
<1>5. CASE m.todo = {}
  <2>1. PICK todo : todo = InState("Created", Entries)
    OBVIOUS
  <2>2. todo \subseteq Entries /\ \A e \in todo : m.state[e] = "Created"
    BY <1>1, <2>1 DEF InState
  <2>3. PICK q : q = [m EXCEPT !.pc = "layout", !.todo = todo]
    OBVIOUS
  <2>4. import' = q /\ UNCHANGED <<tree, removal, scanState>>
    BY <1>1, <1>5, <2>1, <2>3, Zenon DEF NextItem
  <2>5. q \in ImportRecords /\ q.pc = "layout" /\ q.todo = todo /\ q.object = m.object /\ q.state = m.state
    BY ZenonT(60), <1>1, <2>2, <2>3 DEF ImportRecords, ImportPCs
  <2>6. FileObjects(q) /\ LayoutObjects(q)
    BY <1>4, <2>2, <2>5 DEF FileObjects, LayoutObjects
  <2>7. Focus(q)
    BY <2>5 DEF Focus, Laying, LayoutChain, ChainPCs
  <2> QED BY <1>3, <2>4, <2>5, <2>6, <2>7, SameRows, SameState DEF AllKept, IInv, AdirInv, ImportOK
<1>6. CASE m.todo # {}
  <2>1. PICK f \in m.todo : f = Entry /\ f \in Files
    BY <1>1, <1>4, <1>6, EntryIsLeft, PathsAreOK DEF ImportRecords
  <2>2. PICK todo : todo = m.todo \ {f}
    OBVIOUS
  <2>3. PICK rest : rest = [m EXCEPT !.todo = todo]
    OBVIOUS
  <2>4. PICK given, found, id :
            /\ given = m.object[f]
            /\ found = (IF given # INVALID_OBJECT_ID THEN {given} ELSE At("item", f))
            /\ id = Min(found)
    OBVIOUS
  <2>5. given \in NonRoots
    BY <1>1, <1>4, <2>1, <2>4 DEF FileObjects, ImportRecords, NonRoots, Keys, RowKeys, Roots, Entries
  <2>6. found # {} => id \in NonRoots /\ id # INVALID_OBJECT_ID /\ (given = INVALID_OBJECT_ID => tree[id].parent \in Nat)
    <3>1. CASE given # INVALID_OBJECT_ID
      <4>1. found = {given} /\ found \subseteq Nat
        BY <2>4, <2>5, <3>1 DEF NonRoots, RowKeys
      <4>2. Min(found) \in found
        BY <4>1, MinOfNaturals
      <4> QED BY <2>4, <2>5, <3>1, <4>1, <4>2
    <3>2. CASE given = INVALID_OBJECT_ID /\ found # {}
      <4>1. found = At("item", f)
        BY <2>4, <3>2
      <4>2. id \in found
        BY <1>2, <2>4, <3>2, <4>1, LeastRow DEF At
      <4>3. id \in RowKeys /\ tree[id].parent \in Ids
        BY <1>2, <2>1, <4>1, <4>2, FileIsNoRoot
      <4>4. PICK p : p = tree[id].parent /\ p \in Nat
        BY <1>2, <4>3 DEF TreeInv, RowsOK
      <4>5. id \in NonRoots /\ id # INVALID_OBJECT_ID
        BY <4>3 DEF NonRoots, RowKeys
      <4> QED BY <4>4, <4>5
    <3> QED BY <3>1, <3>2
  <2>7. PICK tag : tag = disk[f] /\ tag \in Tags \cup {Gone}
    BY <1>2, <2>1 DEF StateInv
  <2>8. /\ m.state \in [Entries -> ItemStates] /\ m.object \in [Entries -> Keys]
        /\ m.seen \in [Files -> Tags \cup {Gone}] /\ m.parent \in Keys /\ m.file \in Files \cup {NoDir}
        /\ m.task.parent \in Keys
    BY <1>1 DEF ImportRecords, ItemStates, Tasks
  <2>9. \A i \in NonRoots : i \in Keys
    BY DEF NonRoots, Keys, RowKeys
  <2>10. CASE ~Present(f)
    <3>1. import' = rest /\ UNCHANGED <<tree, removal, scanState>>
      BY <1>1, <1>6, <2>1, <2>2, <2>3, <2>10, Zenon DEF NextItem, Visited
    <3>2. rest \in ImportRecords /\ rest.pc = "items" /\ rest.object = m.object /\ rest.state = m.state /\ rest.todo = todo
      BY <1>1, <2>2, <2>3 DEF ImportRecords
    <3>3. FileObjects(rest) /\ LayoutObjects(rest) /\ Focus(rest)
      BY <1>4, <2>2, <3>2 DEF FileObjects, LayoutObjects, Focus, InLayout, Laying, LayoutChain, ChainPCs
    <3> QED BY <1>3, <3>1, <3>2, <3>3, SameRows, SameState DEF AllKept, IInv, AdirInv, ImportOK
  <2>11. CASE Present(f) /\ found # {} /\ given = INVALID_OBJECT_ID /\ tree[id].tag = m.seen[f]
    <3>1. PICK state, object : state = [m.state EXCEPT ![f] = "Existing"] /\ object = [m.object EXCEPT ![f] = id]
      OBVIOUS
    <3>2. import' = [rest EXCEPT !.state[f] = "Existing", !.object[f] = id] /\ UNCHANGED <<tree, removal, scanState>>
      BY <1>1, <1>6, <2>1, <2>2, <2>3, <2>4, <2>11, ZenonT(60) DEF NextItem, Visited
    <3>3. PICK q : q = [m EXCEPT !.todo = todo, !.state = state, !.object = object]
      OBVIOUS
    <3>4. import' = q
      BY <1>1, <2>3, <3>1, <3>2, <3>3 DEF ImportRecords
    <3>5. /\ state \in [Entries -> ItemStates] /\ object \in [Entries -> Keys]
          /\ \A g \in Files : g # f => state[g] = m.state[g]
      BY <2>1, <2>6, <2>8, <2>9, <2>11, <3>1 DEF ItemStates, Entries
    <3>6. todo \in SUBSET Entries /\ todo \subseteq m.todo
      BY <1>1, <2>2 DEF ImportRecords
    <3>7. q \in ImportRecords /\ q.pc = "items" /\ q.todo = todo /\ q.state = state /\ q.object = object
      BY <1>1, <3>3, <3>5, <3>6 DEF ImportRecords, ItemStates
    <3>8. ItemFound(m, f, id, q) /\ ItemsNext(m, f, q)
      BY <3>1, <3>5, <3>6, <3>7 DEF ItemFound, ItemsNext
    <3>9. ImportOK(import') /\ import'.pc \notin {"flag", "list"}
      BY <1>1, <2>1, <2>6, <2>11, <3>4, <3>7, <3>8, ItemsOK
    <3> QED BY <1>3, <3>2, <3>9, SameRows, SameState DEF AllKept, IInv, AdirInv
  <2>a. PICK seen : seen = [m.seen EXCEPT ![f] = tag]
    OBVIOUS
  <2>12. seen \in [Files -> Tags \cup {Gone}]
    BY <2>1, <2>7, <2>8, <2>a
  <2>13. ASSUME NEW i \in NonRoots, i # INVALID_OBJECT_ID, NEW parent \in Keys,
                import' = [rest EXCEPT !.pc = "update", !.file = f, !.object[f] = i, !.seen[f] = tag, !.parent = parent]
         PROVE  ImportOK(import') /\ AdirInv'
    <3>1. PICK object : object = [m.object EXCEPT ![f] = i]
      OBVIOUS
    <3>2. object \in [Entries -> Keys]
      BY <2>8, <2>9, <3>1
    <3>3. PICK q : q = [m EXCEPT !.pc = "update", !.todo = todo, !.file = f, !.object = object, !.seen = seen,
                                 !.parent = parent]
      OBVIOUS
    <3>4. import' = q
      BY ZenonT(60), <1>1, <2>3, <2>a, <2>13, <3>1, <3>3 DEF ImportRecords
    <3>5. todo \in SUBSET Entries /\ todo \subseteq m.todo /\ "update" \in ImportPCs
      BY <1>1, <2>2 DEF ImportRecords, ImportPCs
    <3>6. /\ q \in ImportRecords /\ q.pc = "update" /\ q.todo = todo /\ q.file = f
          /\ q.state = m.state /\ q.object = object
      BY <1>1, <2>1, <2>12, <2>13, <3>2, <3>3, <3>5 DEF ImportRecords
    <3>7. ItemFound(m, f, i, q) /\ ItemsNext(m, f, q)
      BY <3>1, <3>5, <3>6 DEF ItemFound, ItemsNext
    <3>8. ImportOK(import') /\ import'.pc \notin {"flag", "list"}
      BY <1>1, <2>1, <2>13, <3>4, <3>6, <3>7, ItemsOK
    <3> QED BY <3>8 DEF AdirInv
  <2>14. CASE Present(f) /\ found # {} /\ ~(given = INVALID_OBJECT_ID /\ tree[id].tag = m.seen[f])
    <3>1. PICK parent : parent = IF given # INVALID_OBJECT_ID THEN m.task.parent ELSE tree[id].parent
      OBVIOUS
    <3>2. parent \in Keys
      BY <2>6, <2>8, <2>14, <3>1 DEF Keys
    <3>3. /\ import' = [rest EXCEPT !.pc = "update", !.file = f, !.object[f] = id, !.seen[f] = tag, !.parent = parent]
          /\ UNCHANGED <<tree, removal, scanState>>
      BY <1>1, <1>6, <2>1, <2>2, <2>3, <2>4, <2>7, <2>14, <3>1, ZenonT(60) DEF NextItem, Visited
    <3>4. ImportOK(import') /\ AdirInv'
      BY <2>6, <2>13, <2>14, <3>2, <3>3
    <3> QED BY <1>3, <3>3, <3>4, SameRows, SameState DEF AllKept, IInv
  <2>15. CASE Present(f) /\ found = {}
    <3> DEFINE parent == import.object[DirOf[f]]
               rows == IF parent = INVALID_OBJECT_ID THEN Ensured(DirOf[f]) ELSE tree
               above == IF parent # INVALID_OBJECT_ID THEN parent
                        ELSE Min({i \in DOMAIN rows : rows[i].type = "dir" /\ rows[i].at = DirOf[f]})
               new == Max(DOMAIN rows) + 1
    <3>a. CreateItem(f)
      BY <1>1, <1>6, <2>1, <2>4, <2>15, Zenon DEF NextItem
    <3>b. IF above \notin DOMAIN rows THEN Throws
          ELSE /\ tree' = Added(rows, new, Item(f, above, disk[f]))
               /\ import' = [import EXCEPT !.todo = Visited, !.pc = "update", !.file = f, !.object[f] = new,
                                           !.seen[f] = disk[f], !.parent = above]
               /\ UNCHANGED <<removal, scanState, report>>
      BY <3>a, Zenon DEF CreateItem
    <3>1. parent \in Keys
      BY <1>1, <2>1, <2>8, PathsAreOK DEF Entries
    <3>2. rows = IF parent = INVALID_OBJECT_ID THEN Ensured(DirOf[f]) ELSE tree
      OBVIOUS
    <3>4. new = Max(DOMAIN rows) + 1
      OBVIOUS
    <3> HIDE DEF parent, rows, above, new
    <3>3. Extends(rows)
      <4>1. CASE parent = INVALID_OBJECT_ID
        <5>1. PICK d \in Dirs : d = DirOf[f]
          BY <2>1, PathsAreOK
        <5>2. Chain[d] \in Seq(Dirs) /\ d \in Range(Chain[d]) /\ rows = Ensured(d)
          BY <3>2, <4>1, <5>1, PathsAreOK
        <5> QED BY <1>2, <5>2, EnsuredExtends
      <4>2. CASE parent # INVALID_OBJECT_ID
        <5>1. rows = tree
          BY <3>2, <4>2
        <5> QED BY <1>2, <5>1 DEF Extends, TreeInv, RowsOK, Ids
      <4> QED BY <4>1, <4>2
    <3>5. CASE above \notin DOMAIN rows
      <4>1. Throws
        BY <3>b, <3>5, Zenon
      <4> QED BY <1>3, <4>1, ThrowsKeeps
    <3>6. CASE above \in DOMAIN rows
      <4>1. /\ tree' = Added(rows, new, Item(f, above, tag))
            /\ import' = [rest EXCEPT !.pc = "update", !.file = f, !.object[f] = new, !.seen[f] = tag, !.parent = above]
            /\ UNCHANGED <<removal, scanState>>
        <5>1. /\ tree' = Added(rows, new, Item(f, above, tag))
              /\ import' = [import EXCEPT !.todo = Visited, !.pc = "update", !.file = f, !.object[f] = new,
                                          !.seen[f] = tag, !.parent = above]
              /\ UNCHANGED <<removal, scanState>>
          BY <2>7, <3>b, <3>6, Zenon
        <5> QED BY <1>1, <2>1, <2>2, <2>3, <5>1, Zenon DEF Visited
      <4>2. above \in Nat
        BY <3>3, <3>6 DEF Extends
      <4>3. new \in RowKeys
        BY <1>2, <3>3, <3>4, NextKeyIsNew
      <4>4. PICK o : o = Item(f, above, tag)
        OBVIOUS
      <4>5. IsRow(o) /\ o.type = "item" /\ o.parent = above /\ o.ref = INVALID_OBJECT_ID
        BY <2>1, <2>7, <4>2, <4>4, ItemIsRow
      <4>6. Extends(Added(rows, new, o))
        BY <1>2, <3>3, <3>4, <3>6, <4>5, AddToExtension
      <4>7. TreeInv'
        BY <1>2, <4>1, <4>4, <4>6, ExtensionKeeps
      <4>8. ImportOK(import') /\ AdirInv'
        <5>1. new \in NonRoots /\ new # INVALID_OBJECT_ID /\ above \in Keys
          BY <4>2, <4>3 DEF NonRoots, RowKeys, Keys
        <5> QED BY <2>13, <4>1, <5>1
      <4> QED BY <1>3, <4>1, <4>7, <4>8, SameState DEF AllKept, IInv, RemovalInv
    <3> QED BY <3>5, <3>6
  <2> QED BY <2>10, <2>11, <2>14, <2>15
<1> QED BY <1>5, <1>6

LEMMA UpdateKeeps ==
    ASSUME ImportAssumption, IInv, Update, UNCHANGED environment
    PROVE  AllKept
<1>1. PICK m : m = import /\ ImportOK(m) /\ m.pc = "update" /\ m \in ImportRecords
  BY DEF IInv, ImportInv, Update, In, ImportOK
<1>2. PICK f \in Files : f = m.file
  BY <1>1 DEF ImportOK, Focus
<1>3. PICK id : id = m.object[f] /\ id \in Keys \ Roots
  BY <1>1 DEF ImportOK, FileObjects, ImportRecords, Entries
<1>4. CASE id \notin Ids \/ m.parent \notin Ids
  <2>1. Throws /\ UNCHANGED queue
    BY <1>1, <1>2, <1>3, <1>4 DEF Update
  <2> QED BY <2>1, ThrowsKeeps
<1>5. CASE id \in Ids /\ m.parent \in Ids
  <2>1. PICK o : o = Item(f, m.parent, m.seen[f])
    OBVIOUS
  <2>2. /\ tree' = [tree EXCEPT ![id] = o] /\ import' = [m EXCEPT !.pc = "items", !.state[f] = "Created"]
        /\ UNCHANGED <<removal, scanState, queue>>
    BY <1>1, <1>2, <1>3, <1>5, <2>1 DEF Update
  <2>3. TreeInv
    BY DEF IInv
  <2>4. IsRow(o) /\ o.type = "item" /\ o.parent = m.parent /\ o.ref = INVALID_OBJECT_ID
    <3>1. m.seen[f] \in Tags \cup {Gone} /\ m.parent \in Int
      BY <1>1, <1>2, <1>5 DEF ImportRecords, Keys
    <3> QED BY <1>2, <2>1, <3>1, ItemIsRow
  <2>5. TreeInv'
    BY <1>3, <1>5, <2>2, <2>3, <2>4, WriteKeeps
  <2>6. PICK state : state = [m.state EXCEPT ![f] = "Created"]
    OBVIOUS
  <2>7. state \in [Entries -> ItemStates] /\ \A g \in Files : state[g] = "Created" => g = f \/ m.state[g] = "Created"
    BY <1>1, <1>2, <2>6 DEF ImportRecords, ItemStates, Entries
  <2>8. PICK q : q = [m EXCEPT !.pc = "items", !.state = state] /\ q = import'
    BY <1>1, <2>2, <2>6 DEF ImportRecords
  <2>9. q \in ImportRecords /\ q.pc = "items" /\ q.object = m.object /\ q.state = state /\ q.todo = m.todo
    BY ZenonT(60), <1>1, <2>7, <2>8 DEF ImportRecords, ImportPCs, ItemStates
  <2>10. FileObjects(q)
    <3>1. FileObjects(m) /\ m.object[f] # INVALID_OBJECT_ID
      BY <1>1, <1>3, <1>5, <2>3 DEF ImportOK, TreeInv, RowsOK
    <3> QED BY <2>7, <2>9, <3>1 DEF FileObjects
  <2>11. m.todo \subseteq Files
    BY <1>1 DEF ImportOK, Focus
  <2>12. LayoutObjects(q) /\ Focus(q)
    BY <2>9, <2>11 DEF LayoutObjects, Focus, InLayout, Laying, LayoutChain, ChainPCs
  <2>13. ImportOK(q) /\ AdirInv'
    BY <2>8, <2>9, <2>10, <2>12 DEF ImportOK, AdirInv
  <2> QED BY <2>2, <2>5, <2>8, <2>13, SameState DEF AllKept, IInv, RemovalInv
<1> QED BY <1>4, <1>5

-------------------------------------------------------------------------------
(* fillLayout.                                                             *)

\* The layout of an item goes on with its next container.
LayoutReady(m) ==
    /\ m \in ImportRecords /\ FileObjects(m) /\ m.file \in Files /\ m.refs \subseteq RowKeys
    /\ \A f \in m.todo \cap Files : m.object[f] # INVALID_OBJECT_ID

LEMMA NextLeafOK ==
    ASSUME ImportAssumption, NEW m, LayoutReady(m), NEW q, q = NextLeaf(m)
    PROVE  ImportOK(q) /\ q.pc \notin {"flag", "list"}
<1>1. m \in ImportRecords /\ m.leaves \in Seq(Virtuals)
  BY DEF LayoutReady, ImportRecords
<1>2. ASSUME /\ q \in ImportRecords /\ q.pc \in {"clean", "reference", "lookup"} /\ q.object = m.object
             /\ q.state = m.state /\ q.file = m.file /\ q.refs = m.refs /\ q.todo = m.todo
             /\ q.pc = "lookup" => q.at \in Virtuals /\ q.chain \in Seq(Virtuals)
             /\ q.pc # "clean" => q.leaves # <<>>
      PROVE  ImportOK(q) /\ q.pc \notin {"flag", "list"}
  <2>1. FileObjects(q) /\ LayoutObjects(q)
    BY <1>2 DEF LayoutReady, FileObjects, LayoutObjects
  <2>2. Focus(q)
    BY <1>2 DEF LayoutReady, Focus, Kind, Laying, LayoutChain, ChainPCs
  <2> QED BY <1>2, <2>1, <2>2 DEF ImportOK
<1>3. CASE m.leaves = <<>>
  <2>1. q = [m EXCEPT !.pc = "clean"]
    BY <1>3 DEF NextLeaf
  <2>2. /\ q \in ImportRecords /\ q.pc = "clean" /\ q.object = m.object
        /\ q.state = m.state /\ q.file = m.file /\ q.refs = m.refs /\ q.todo = m.todo
    BY ZenonT(60), <1>1, <2>1 DEF ImportRecords, ImportPCs
  <2> QED BY <1>2, <2>2
<1>4. CASE m.leaves # <<>>
  <2>1. PICK v \in Virtuals : v = Head(m.leaves)
    BY <1>1, <1>4, TailOK
  <2>2. v \in Places
    BY DEF Places
  <2>3. CASE v \in Fixed
    <3>1. PICK id : id = KeptId(v) /\ id \in Keys
      BY <2>3, KeptIdIsKey DEF Keys
    <3>2. q = [m EXCEPT !.pc = "reference", !.at = v, !.parent = id]
      BY <1>4, <2>1, <2>3, <3>1 DEF NextLeaf
    <3>3. /\ q \in ImportRecords /\ q.pc = "reference" /\ q.object = m.object /\ q.leaves = m.leaves
          /\ q.state = m.state /\ q.file = m.file /\ q.refs = m.refs /\ q.todo = m.todo
      BY ZenonT(60), <1>1, <2>2, <3>1, <3>2 DEF ImportRecords, ImportPCs
    <3> QED BY <1>2, <1>4, <3>3
  <2>4. CASE v \notin Fixed
    <3>1. PICK chain : chain = Chain[v] /\ chain \in Seq(Virtuals)
      BY PathsAreOK
    <3>2. q = [m EXCEPT !.pc = "lookup", !.at = v, !.parent = CDS_ID_ROOT, !.chain = chain]
      BY <1>4, <2>1, <2>4, <3>1 DEF NextLeaf
    <3>3. chain \in Seq(Dirs \cup Virtuals) /\ 0 \in Keys /\ "lookup" \in ImportPCs
      BY <3>1 DEF Keys, ImportPCs
    <3>4. /\ q \in ImportRecords /\ q.pc = "lookup" /\ q.object = m.object /\ q.leaves = m.leaves
          /\ q.state = m.state /\ q.file = m.file /\ q.refs = m.refs /\ q.todo = m.todo
          /\ q.at = v /\ q.chain = chain
      BY ZenonT(60), <1>1, <2>2, <3>2, <3>3 DEF ImportRecords
    <3> QED BY <1>2, <1>4, <3>1, <3>4
  <2> QED BY <2>3, <2>4
<1> QED BY <1>3, <1>4

\* A reference to an item is a row.
LEMMA ReferenceIsRow ==
    ASSUME PathsOK, NEW main \in Int, NEW parent \in Int, NEW o, o = Reference(main, parent)
    PROVE  IsRow(o) /\ o.type = "ref" /\ o.parent = parent /\ o.ref = main
<1>1. o = [type |-> "ref", at |-> "none", parent |-> parent, ref |-> main, tag |-> Unread, persistent |-> FALSE]
  BY DEF Reference, Object
<1>2. "none" \notin Files
  BY DEF PathsOK
<1> QED BY <1>1, <1>2 DEF IsRow, Objects

LEMMA NextLayoutKeeps ==
    ASSUME ImportAssumption, IInv, NextLayout, UNCHANGED environment
    PROVE  AllKept
<1>1. PICK m : m = import /\ ImportOK(m) /\ m.pc = "layout" /\ m \in ImportRecords
  BY DEF IInv, ImportInv, NextLayout, In, ImportOK
<1>2. m.todo # {} /\ UNCHANGED <<tree, removal, scanState, queue>>
  BY <1>1 DEF NextLayout, Crashes
<1>3. TreeInv' /\ RemovalInv' /\ StateInv'
  BY <1>2, SameRows, SameState DEF IInv
<1>4. PICK e \in m.todo : e = Entry /\ e \in Entries
  BY <1>1, <1>2, EntryIsLeft, PathsAreOK DEF ImportRecords
<1>5. PICK todo, state : todo = m.todo \ {e} /\ state = [m.state EXCEPT ![e] = "Loaded"]
  OBVIOUS
<1>6. /\ todo \subseteq Entries /\ todo \subseteq m.todo /\ state \in [Entries -> ItemStates]
      /\ \A f \in Files : state[f] = "Created" => m.state[f] = "Created"
  BY <1>1, <1>4, <1>5 DEF ImportRecords, ItemStates, Entries
<1>7. PICK loaded : loaded = [m EXCEPT !.todo = todo, !.state = state]
  OBVIOUS
<1>8. loaded = [import EXCEPT !.todo = Visited, !.state[e] = "Loaded"]
  BY <1>1, <1>4, <1>5, <1>7 DEF ImportRecords, Visited
<1>9. FileObjects(m) /\ \A f \in m.todo \cap Files : m.object[f] # INVALID_OBJECT_ID
  BY <1>1 DEF ImportOK, LayoutObjects, InLayout
<1>10. /\ loaded \in ImportRecords /\ loaded.pc = "layout" /\ loaded.todo = todo
       /\ loaded.state = state /\ loaded.object = m.object
  BY <1>1, <1>6, <1>7 DEF ImportRecords, ItemStates
<1>11. FileObjects(loaded) /\ \A f \in loaded.todo \cap Files : loaded.object[f] # INVALID_OBJECT_ID
  BY <1>6, <1>9, <1>10 DEF FileObjects
<1>12. CASE e \in Dirs /\ m.object[e] = INVALID_OBJECT_ID
  <2>1. PICK q : q = [m EXCEPT !.pc = "crashed"]
    OBVIOUS
  <2>2. import' = q
    BY <1>1, <1>4, <1>12, <2>1 DEF NextLayout, Crashes, Goto
  <2>3. q.pc = "crashed" /\ "crashed" \in ImportPCs /\ "crashed" \notin ChainPCs
    BY <1>1, <2>1 DEF ImportRecords, ImportPCs, ChainPCs
  <2>4. ~InLayout(q)
    BY <2>3 DEF InLayout, Laying, LayoutChain
  <2>5. ImportOK(q)
    BY <1>1, <2>1, <2>3, <2>4, GotoOK
  <2> QED BY <1>3, <2>2, <2>3, <2>5 DEF AllKept, AdirInv
<1>13. CASE e \in Dirs /\ m.object[e] # INVALID_OBJECT_ID
  <2>1. import' = loaded
    BY <1>1, <1>4, <1>8, <1>13, Zenon DEF NextLayout
  <2>2. LayoutObjects(loaded) /\ Focus(loaded)
    BY <1>10, <1>11 DEF LayoutObjects, Focus, Laying, LayoutChain, ChainPCs
  <2> QED BY <1>3, <1>10, <1>11, <2>1, <2>2 DEF AllKept, AdirInv, ImportOK
<1>14. CASE e \notin Dirs
  <2>1. e \in Files
    BY <1>4, <1>14 DEF Entries
  <2>2. PICK leaves, refs : leaves = m.seen[e] /\ refs = RefsTo({m.object[e]})
    OBVIOUS
  <2>3. leaves \in Seq(Virtuals)
    <3>1. leaves \in Tags \/ leaves = <<>>
      BY <1>1, <2>1, <2>2 DEF ImportRecords, Gone, Unread
    <3>2. Tags \subseteq Seq(Virtuals)
      BY PathsAreOK
    <3>3. CASE leaves \in Tags
      BY <3>2, <3>3, Zenon
    <3>4. CASE leaves = <<>>
      BY <3>4
    <3> QED BY <3>1, <3>3, <3>4
  <2>4. m.object[e] \in RowKeys
    BY <1>1, <1>4, <1>9, <2>1 DEF FileObjects, ImportRecords, Keys, RowKeys, Entries
  <2>5. refs \subseteq RowKeys /\ refs \subseteq Nat
    BY <2>2, <2>4, RowsMayGo DEF IInv, RowKeys
  <2>6. PICK r : r = [loaded EXCEPT !.file = e, !.leaves = leaves, !.made = {}, !.refs = refs]
    OBVIOUS
  <2>7. PICK q : q = NextLeaf(r)
    OBVIOUS
  <2>8. import' = q
    BY <1>1, <1>4, <1>8, <1>14, <2>2, <2>6, <2>7, Zenon DEF NextLayout
  <2>9. /\ r \in ImportRecords /\ r.file = e /\ r.refs = refs /\ r.todo = loaded.todo
        /\ r.object = loaded.object /\ r.state = loaded.state
    BY <1>10, <2>1, <2>3, <2>5, <2>6 DEF ImportRecords
  <2>10. LayoutReady(r)
    BY <1>11, <2>1, <2>5, <2>9 DEF LayoutReady, FileObjects
  <2>11. ImportOK(q) /\ q.pc \notin {"flag", "list"}
    BY <2>7, <2>10, NextLeafOK
  <2> QED BY <1>3, <2>8, <2>11 DEF AllKept, AdirInv
<1> QED BY <1>12, <1>13, <1>14

LEMMA AddReferenceKeeps ==
    ASSUME ImportAssumption, IInv, AddReference, UNCHANGED environment
    PROVE  AllKept
<1>1. PICK m : m = import /\ ImportOK(m) /\ m.pc = "reference" /\ m \in ImportRecords
  BY DEF IInv, ImportInv, AddReference, In, ImportOK
<1>2. UNCHANGED queue
  BY DEF AddReference
<1>3. /\ Laying(m) /\ InLayout(m) /\ m.file \in Files /\ m.refs \subseteq RowKeys /\ m.leaves # <<>>
      /\ m.leaves \in Seq(Virtuals) /\ FileObjects(m)
      /\ \A f \in m.todo \cap Files : m.object[f] # INVALID_OBJECT_ID
  BY <1>1 DEF ImportOK, LayoutObjects, Focus, Laying, InLayout, ImportRecords
<1>4. ASSUME NEW i \in Nat, import' = NextLeaf([m EXCEPT !.leaves = Tail(@), !.made = @ \cup {i}])
      PROVE  ImportOK(import') /\ AdirInv'
  <2>1. PICK leaves : leaves = Tail(m.leaves) /\ leaves \in Seq(Virtuals)
    BY <1>3, TailOK
  <2>a. m.made \subseteq Nat
    BY <1>1 DEF ImportRecords
  <2>b. m.made \cup {i} \subseteq Nat
    BY <1>4, <2>a
  <2>2. PICK made : made = m.made \cup {i} /\ made \subseteq Nat
    BY <2>b, Zenon
  <2>3. PICK r : r = [m EXCEPT !.leaves = leaves, !.made = made]
    OBVIOUS
  <2>4. r = [m EXCEPT !.leaves = Tail(@), !.made = @ \cup {i}]
    BY <1>1, <2>1, <2>2, <2>3 DEF ImportRecords
  <2>5. PICK q : q = NextLeaf(r) /\ import' = q
    BY <1>4, <2>4
  <2>6. /\ r \in ImportRecords /\ r.file = m.file /\ r.refs = m.refs /\ r.todo = m.todo
        /\ r.object = m.object /\ r.state = m.state
    BY <1>1, <2>1, <2>2, <2>3 DEF ImportRecords
  <2>7. LayoutReady(r)
    BY <1>3, <2>6 DEF LayoutReady, FileObjects
  <2>8. ImportOK(q) /\ q.pc \notin {"flag", "list"}
    BY <2>5, <2>7, NextLeafOK
  <2> QED BY <2>5, <2>8 DEF AdirInv
<1>5. PICK f, id : f = m.file /\ id = m.object[f] /\ f \in Files
  BY <1>3
<1>6. PICK main : main = IF id \notin Ids THEN {} ELSE IF tree[id].at = f THEN {id} ELSE At("item", f)
  OBVIOUS
<1>7. PICK row, i : row = Reference(Min(main), m.parent) /\ i = Min(main)
  OBVIOUS
<1>8. PICK same : same = {j \in Ids : tree[j] = row}
  OBVIOUS
<1>9. TreeInv /\ PathsOK
  BY PathsAreOK DEF IInv
<1>10. CASE main = {} \/ (same = {} /\ Refused(row))
  <2>1. Fails
    BY <1>1, <1>5, <1>6, <1>7, <1>8, <1>10, Zenon DEF AddReference
  <2> QED BY <1>1, <1>2, <2>1, FailsKeeps
<1>11. CASE main # {} /\ same # {}
  <2>1. PICK j : j = Min(same) /\ j \in Nat
    BY <1>8, <1>9, <1>11, LeastRow
  <2>2. /\ import' = NextLeaf([m EXCEPT !.leaves = Tail(@), !.made = @ \cup {j}])
        /\ UNCHANGED <<tree, removal, scanState>>
    BY <1>1, <1>5, <1>6, <1>7, <1>8, <1>11, <2>1, ZenonT(60) DEF AddReference
  <2>3. ImportOK(import') /\ AdirInv'
    BY <1>4, <2>1, <2>2
  <2> QED BY <1>2, <2>2, <2>3, SameRows, SameState DEF AllKept, IInv
<1>12. CASE main # {} /\ same = {} /\ ~Refused(row)
  <2>1. PICK n : n = NextId /\ n \in Nat
    BY <1>9, NextIdIsNew
  <2>2. /\ Insert(row) /\ import' = NextLeaf([m EXCEPT !.leaves = Tail(@), !.made = @ \cup {n}])
        /\ UNCHANGED <<removal, scanState>>
    BY <1>1, <1>5, <1>6, <1>7, <1>8, <1>12, <2>1, Zenon DEF AddReference
  <2>3. i \in Ids /\ tree[i].type = "item"
    <3>1. CASE tree[id].at = f /\ id \in Ids
      <4>1. main = {id}
        BY <1>6, <3>1
      <4>2. i \in main
        BY <1>7, <1>9, <3>1, <4>1, LeastRow
      <4> QED BY <1>5, <1>9, <3>1, <4>1, <4>2 DEF TreeInv, RowsOK, IsRow
    <3>2. CASE ~(tree[id].at = f /\ id \in Ids)
      <4>1. main = At("item", f)
        BY <1>6, <1>12, <3>2
      <4>2. i \in main
        BY <1>7, <1>9, <1>12, <4>1, LeastRow DEF At
      <4> QED BY <4>1, <4>2 DEF At
    <3> QED BY <3>1, <3>2
  <2>4. i \in Int /\ m.parent \in Int /\ i # INVALID_OBJECT_ID
    BY <1>1, <1>9, <2>3 DEF TreeInv, RowsOK, ImportRecords, Keys
  <2>5. IsRow(row) /\ row.type = "ref" /\ row.parent = m.parent /\ row.ref = i
    BY <1>7, <1>9, <2>4, ReferenceIsRow
  <2>6. row.parent \in Ids
    BY <1>12 DEF Refused
  <2>7. TreeInv'
    BY <1>9, <2>2, <2>3, <2>4, <2>5, <2>6, InsertKeeps
  <2>8. ImportOK(import') /\ AdirInv'
    BY <1>4, <2>1, <2>2
  <2> QED BY <1>2, <2>2, <2>7, <2>8, SameState DEF AllKept, IInv, RemovalInv
<1> QED BY <1>10, <1>11, <1>12

LEMMA CleanUpKeeps ==
    ASSUME ImportAssumption, IInv, CleanUp, UNCHANGED environment
    PROVE  AllKept
<1>1. PICK m : m = import /\ ImportOK(m) /\ m.pc = "clean" /\ m \in ImportRecords
  BY DEF IInv, ImportInv, CleanUp, In, ImportOK
<1>2. UNCHANGED <<tree, scanState, queue>>
  BY DEF CleanUp
<1>3. TreeInv' /\ StateInv'
  BY <1>2, SameRows, SameState DEF IInv
<1>4. PICK orphans, i : orphans = m.refs \ m.made /\ i = Min(orphans)
  OBVIOUS
<1>5. Laying(m) /\ InLayout(m) /\ m.refs \subseteq RowKeys /\ m.file \in Files
  BY <1>1 DEF ImportOK, Focus, Laying, InLayout
<1>6. CASE orphans = {} \/ i \notin Ids
  <2>1. PICK q : q = [m EXCEPT !.pc = "played"]
    OBVIOUS
  <2>2. import' = q /\ UNCHANGED removal
    BY <1>1, <1>4, <1>6, <2>1 DEF CleanUp, Goto
  <2>3. q.pc = "played" /\ "played" \in ImportPCs /\ "played" \notin ChainPCs
    BY <1>1, <2>1 DEF ImportRecords, ImportPCs, ChainPCs
  <2>4. ImportOK(q)
    BY <1>1, <1>5, <2>1, <2>3, GotoOK
  <2> QED BY <1>2, <1>3, <2>2, <2>3, <2>4, SameRows DEF AllKept, AdirInv, IInv
<1>7. CASE orphans # {} /\ i \in Ids
  <2>1. /\ Becomes(Importer, Removing({i}, FALSE)) /\ import' = [m EXCEPT !.pc = "cleaning", !.refs = @ \ {i}]
    BY <1>1, <1>4, <1>7 DEF CleanUp
  <2>2. i \in RowKeys
    <3>1. orphans \in SUBSET Nat
      BY <1>4, <1>5 DEF RowKeys
    <3>2. i \in orphans
      BY <1>4, <1>7, <3>1, MinOfNaturals
    <3> QED BY <1>4, <1>5, <3>2
  <2>3. RemovalInv'
    <3>1. {i} \in SUBSET RowKeys
      BY <2>2
    <3>2. IsRemoval(Removing({i}, FALSE))
      BY <3>1, NewRemovals
    <3> QED BY <2>1, <3>2, BecomesKeeps DEF IInv
  <2>a. m.refs \ {i} \subseteq Nat /\ m.refs \ {i} \subseteq RowKeys
    BY <1>5 DEF RowKeys
  <2>4. PICK refs : refs = m.refs \ {i} /\ refs \subseteq Nat /\ refs \subseteq RowKeys
    BY <2>a, Zenon
  <2>5. PICK q : q = [m EXCEPT !.pc = "cleaning", !.refs = refs] /\ import' = q
    BY <1>1, <2>1, <2>4 DEF ImportRecords
  <2>6. /\ q \in ImportRecords /\ q.pc = "cleaning" /\ q.refs = refs /\ q.file = m.file /\ q.todo = m.todo
        /\ q.object = m.object /\ q.state = m.state
    BY ZenonT(60), <1>1, <2>4, <2>5 DEF ImportRecords, ImportPCs
  <2>7. FileObjects(q) /\ LayoutObjects(q)
    BY <1>1, <1>5, <2>6 DEF ImportOK, FileObjects, LayoutObjects
  <2>8. Focus(q)
    BY <1>5, <2>4, <2>6 DEF Focus, LayoutChain, ChainPCs
  <2> QED BY <1>3, <2>3, <2>5, <2>6, <2>7, <2>8 DEF AllKept, ImportOK, AdirInv
<1> QED BY <1>6, <1>7

LEMMA CleanedUpKeeps ==
    ASSUME ImportAssumption, IInv, CleanedUp, UNCHANGED environment
    PROVE  AllKept
<1>1. PICK m : m = import /\ ImportOK(m) /\ m.pc = "cleaning" /\ m \in ImportRecords
  BY DEF IInv, ImportInv, CleanedUp, In, ImportOK
<1>2. PICK q : q = [m EXCEPT !.pc = "clean"] /\ import' = q
  BY <1>1 DEF CleanedUp, Goto
<1>3. q.pc = "clean" /\ "clean" \in ImportPCs /\ "clean" \notin ChainPCs
  BY <1>1, <1>2 DEF ImportRecords, ImportPCs, ChainPCs
<1>4. Laying(m) /\ InLayout(m)
  BY <1>1 DEF Laying, InLayout
<1>5. ImportOK(q)
  BY <1>1, <1>2, <1>3, <1>4, GotoOK
<1>6. RemovalInv'
  BY NewRemovals, BecomesKeeps DEF CleanedUp, IInv
<1>7. TreeInv' /\ StateInv'
  BY SameRows, SameState DEF CleanedUp, IInv
<1> QED BY <1>2, <1>3, <1>5, <1>6, <1>7 DEF AllKept, AdirInv

LEMMA FindPlaylistsKeeps ==
    ASSUME ImportAssumption, IInv, FindPlaylists, UNCHANGED environment
    PROVE  AllKept
<1>1. PICK m : m = import /\ ImportOK(m) /\ m.pc = "played" /\ m \in ImportRecords
  BY DEF IInv, ImportInv, FindPlaylists, In, ImportOK
<1>2. PICK refs : refs = RefsTo({m.object[m.file]}) /\ refs \subseteq Nat
  BY ZenonT(60) DEF RefsTo, IInv, TreeInv, RowsOK
<1>3. PICK q : q = [m EXCEPT !.pc = "parents", !.refs = refs] /\ import' = q
  BY <1>1, <1>2 DEF FindPlaylists
<1>4. q \in ImportRecords /\ q.pc = "parents" /\ q.todo = m.todo /\ q.object = m.object /\ q.state = m.state
  BY ZenonT(60), <1>1, <1>2, <1>3 DEF ImportRecords, ImportPCs
<1>5. FileObjects(q) /\ LayoutObjects(q)
  BY <1>1, <1>4 DEF ImportOK, FileObjects, LayoutObjects, InLayout
<1>6. Focus(q)
  BY <1>4 DEF Focus, Laying, LayoutChain, ChainPCs
<1>7. TreeInv' /\ RemovalInv' /\ StateInv'
  BY SameRows, SameState DEF FindPlaylists, IInv
<1> QED BY <1>3, <1>4, <1>5, <1>6, <1>7 DEF AllKept, AdirInv, ImportOK

LEMMA LoadPlaylistsKeeps ==
    ASSUME ImportAssumption, IInv, LoadPlaylists, UNCHANGED environment
    PROVE  AllKept
<1>1. PICK m : m = import /\ ImportOK(m) /\ m.pc = "parents" /\ m \in ImportRecords
  BY DEF IInv, ImportInv, LoadPlaylists, In, ImportOK
<1>2. CASE m.refs \subseteq Ids
  <2>1. PICK q : q = [m EXCEPT !.pc = "layout"] /\ import' = q
    BY <1>1, <1>2 DEF LoadPlaylists, Goto
  <2>2. q.pc = "layout" /\ "layout" \in ImportPCs /\ "layout" \notin ChainPCs
    BY <1>1, <2>1 DEF ImportRecords, ImportPCs, ChainPCs
  <2>3. InLayout(m)
    BY <1>1 DEF InLayout
  <2>4. ImportOK(q)
    BY <1>1, <2>1, <2>2, <2>3, GotoOK
  <2>5. UNCHANGED <<tree, removal, scanState, queue>>
    BY <1>1, <1>2 DEF LoadPlaylists
  <2> QED BY <2>1, <2>2, <2>4, <2>5, SameRows, SameState DEF AllKept, AdirInv, IInv
<1>3. CASE ~(m.refs \subseteq Ids)
  BY <1>1, <1>3, ThrowsKeeps DEF LoadPlaylists
<1> QED BY <1>2, <1>3

-------------------------------------------------------------------------------
(* The end of an import, and the tasks.                                    *)

LEMMA FinishKeeps ==
    ASSUME ImportAssumption, IInv, Finish, UNCHANGED environment
    PROVE  AllKept
<1>1. PICK m : m = import /\ ImportOK(m) /\ m.pc = "layout" /\ m \in ImportRecords
  BY DEF IInv, ImportInv, Finish, In, ImportOK
<1>2. TreeInv' /\ RemovalInv'
  BY SameRows DEF Finish, IInv
<1>3. StateInv'
  <2>1. own' \in [Dirs -> Keys] /\ activeScan' \in Entries \cup {NoDir}
    BY DEF Finish, Without, IInv, StateInv, Keys
  <2> QED BY <2>1 DEF Finish, IInv, StateInv, environment
<1>4. PICK left : left = import.list \ {import.object[e] : e \in {x \in Entries : import.state[x] # "none"}}
  OBVIOUS
<1>5. left \subseteq RowKeys
  BY <1>1, <1>4 DEF ImportRecords
<1>6. CASE m.task.kind = "scan"
  <2>a. import' = [m EXCEPT !.pc = "sweep", !.list = left]
    <3>1. import' = [import EXCEPT !.pc = "sweep", !.list = left]
      BY <1>1, <1>4, <1>6 DEF Finish
    <3> QED BY <1>1, <3>1
  <2>1. PICK q : q = [m EXCEPT !.pc = "sweep", !.list = left] /\ import' = q
    BY <2>a
  <2>2. q \in ImportRecords /\ q.pc = "sweep" /\ q.object = m.object /\ q.state = m.state
    BY ZenonT(60), <1>1, <1>5, <2>1 DEF ImportRecords, ImportPCs
  <2>3. FileObjects(q)
    BY <1>1, <2>2 DEF ImportOK, FileObjects
  <2>4. LayoutObjects(q) /\ Focus(q)
    BY <2>2 DEF LayoutObjects, Focus, InLayout, Laying, LayoutChain, ChainPCs
  <2> QED BY <1>2, <1>3, <2>1, <2>2, <2>3, <2>4 DEF AllKept, ImportOK, AdirInv
<1>7. CASE m.task.kind # "scan"
  <2>1. Ends("added")
    BY <1>1, <1>7 DEF Finish
  <2> QED BY <1>2, <1>3, <2>1, EndsKeeps DEF AllKept
<1> QED BY <1>6, <1>7

LEMMA SweepKeeps ==
    ASSUME ImportAssumption, IInv, Sweep, UNCHANGED environment
    PROVE  AllKept
<1>1. PICK m : m = import /\ ImportOK(m) /\ m.pc = "sweep" /\ m \in ImportRecords
  BY DEF IInv, ImportInv, Sweep, In, ImportOK
<1>2. TreeInv' /\ StateInv'
  BY SameRows, SameState DEF Sweep, IInv
<1>3. CASE m.list = {}
  <2>1. Ends("scanned") /\ UNCHANGED <<tree, removal>>
    BY <1>1, <1>3 DEF Sweep
  <2> QED BY <1>2, <2>1, EndsKeeps, SameRows DEF AllKept, IInv
<1>4. CASE m.list # {}
  <2>1. Becomes("content", Removing(m.list, FALSE)) /\ Goto("sweeping")
    BY <1>1, <1>4 DEF Sweep
  <2>2. PICK S : S = m.list /\ S \in SUBSET RowKeys
    BY <1>1 DEF ImportRecords
  <2>3. RemovalInv'
    <3>1. IsRemoval(Removing(S, FALSE))
      BY <2>2, NewRemovals
    <3> QED BY <2>1, <2>2, <3>1, BecomesKeeps DEF IInv
  <2>4. PICK q : q = [m EXCEPT !.pc = "sweeping"] /\ import' = q
    BY <1>1, <2>1 DEF Goto
  <2>5. q.pc = "sweeping" /\ "sweeping" \in ImportPCs /\ "sweeping" \notin ChainPCs
    BY <1>1, <2>4 DEF ImportRecords, ImportPCs, ChainPCs
  <2>6. ~InLayout(q)
    BY <2>5 DEF InLayout, Laying, LayoutChain
  <2>7. ImportOK(q)
    BY <1>1, <2>4, <2>5, <2>6, GotoOK
  <2> QED BY <1>2, <2>3, <2>4, <2>5, <2>7 DEF AllKept, AdirInv
<1> QED BY <1>3, <1>4

\* A removal of the content thread is over, and with it the task.
LEMMA SweptKeeps ==
    ASSUME ImportAssumption, IInv, Swept \/ (Removed /\ UNCHANGED queue), UNCHANGED environment
    PROVE  AllKept
<1>1. Becomes("content", NoRemoval) /\ UNCHANGED <<tree, scanState, queue>> /\ \E outcome : Ends(outcome)
  BY DEF Swept, Removed
<1>2. RemovalInv'
  BY <1>1, NewRemovals, BecomesKeeps DEF IInv
<1>3. TreeInv' /\ StateInv'
  BY <1>1, SameRows, SameState DEF IInv
<1> QED BY <1>1, <1>2, <1>3, EndsKeeps DEF AllKept

LEMMA ImportStepKeeps ==
    ASSUME ImportAssumption, IInv, contentThread
    PROVE  AllKept
<1>1. importStep /\ UNCHANGED environment
  BY DEF contentThread
<1>2. CASE Rescan \/ FlagContainer \/ ListContents
  BY <1>1, <1>2, RescanKeeps, FlagContainerKeeps, ListContentsKeeps
<1>3. CASE Begin \/ NextContainer \/ NextItem \/ Update
  BY <1>1, <1>3, BeginKeeps, NextContainerKeeps, NextItemKeeps, UpdateKeeps
<1>4. CASE addContainerTree
  BY <1>1, <1>4, EndOfChainKeeps, LookUpKeeps, AddSegmentKeeps, UseCachedKeeps, LoadSegmentKeeps DEF addContainerTree
<1>5. CASE fillLayout
  BY <1>1, <1>5, NextLayoutKeeps, AddReferenceKeeps, CleanUpKeeps, CleanedUpKeeps, FindPlaylistsKeeps,
     LoadPlaylistsKeeps DEF fillLayout
<1>6. CASE Finish \/ Sweep \/ Swept \/ (Removed /\ UNCHANGED queue)
  BY <1>1, <1>6, FinishKeeps, SweepKeeps, SweptKeeps
<1> QED BY <1>1, <1>2, <1>3, <1>4, <1>5, <1>6 DEF importStep

\* The task that the content thread takes is one that was queued.
LEMMA NextTaskIsQueued ==
    ASSUME queue \in Seq(Queued), queue # <<>>
    PROVE  NextTask \in Queued /\ RemoveAt(queue, NextPlace) \in Seq(Queued)
<1>1. NextPlace \in DOMAIN queue
  <2>1. CASE Removes # {}
    <3>1. Removes \subseteq Nat
      BY DEF Removes
    <3> QED BY <2>1, <3>1, MinOfNaturals DEF NextPlace, Removes
  <2>2. CASE Removes = {}
    BY <2>2 DEF NextPlace
  <2> QED BY <2>1, <2>2
<1>2. NextTask \in Queued
  BY <1>1 DEF NextTask
<1>3. PICK k \in DOMAIN queue : k = NextPlace
  BY <1>1
<1>4. RemoveAt(queue, k) \in Seq(Queued)
  BY DEF RemoveAt
<1> QED BY <1>2, <1>3, <1>4

LEMMA StartTaskKeeps ==
    ASSUME ImportAssumption, IInv, StartTask
    PROVE  AllKept
<1>1. PICK task, begun : task = NextTask /\ begun = [NoImport EXCEPT !.task = task]
  OBVIOUS
<1>2. task \in Queued /\ queue' \in Seq(Queued)
  BY <1>1, NextTaskIsQueued DEF StartTask, IInv, StateInv
<1>3. TreeInv' /\ UNCHANGED <<activeScan, adirId, environment>>
  BY SameRows DEF StartTask, IInv
<1>4. ASSUME NEW pc \in {"rescan", "removing"}, import' = [begun EXCEPT !.pc = pc]
      PROVE  ImportOK(import') /\ AdirInv'
  <2>1. PICK n, q : n = NoImport /\ q = [n EXCEPT !.task = task, !.pc = pc]
    OBVIOUS
  <2>2. import' = q
    BY <1>1, <1>4, <2>1
  <2>3. n \in ImportRecords /\ FileObjects(n)
    BY <2>1, NoImportOK DEF ImportOK
  <2>4. q \in ImportRecords /\ q.pc = pc /\ q.object = n.object /\ q.state = n.state
    BY <1>2, <2>1, <2>3 DEF ImportRecords, ImportPCs, Queued
  <2>5. FileObjects(q) /\ LayoutObjects(q) /\ Focus(q)
    BY <2>3, <2>4 DEF FileObjects, LayoutObjects, Focus, InLayout, Laying, LayoutChain, ChainPCs
  <2> QED BY <2>2, <2>4, <2>5 DEF ImportOK, AdirInv
<1>5. CASE task.kind = "scan"
  <2>1. import' = [begun EXCEPT !.pc = "rescan"] /\ UNCHANGED <<removal, own, shared>>
    BY <1>1, <1>5 DEF StartTask
  <2>2. ImportOK(import') /\ AdirInv'
    BY <1>4, <2>1
  <2>3. RemovalInv' /\ StateInv'
    BY <1>2, <1>3, <2>1 DEF IInv, RemovalInv, StateInv, environment
  <2> QED BY <1>3, <2>2, <2>3 DEF AllKept
<1>6. CASE task.kind = "remove"
  <2>1. /\ import' = [begun EXCEPT !.pc = "removing"] /\ shared' = Without(shared)
        /\ own' = IF task.clear THEN Without(own) ELSE own
        /\ Becomes("content", Removing({task.object}, FALSE))
    BY <1>1, <1>6 DEF StartTask
  <2>2. ImportOK(import') /\ AdirInv'
    BY <1>4, <2>1
  <2>3. task.object \in RowKeys
    BY <1>2, <1>6 DEF Queued, Tasks, NonRoots
  <2>4. RemovalInv'
    <3>1. {task.object} \in SUBSET RowKeys
      BY <2>3
    <3>2. IsRemoval(Removing({task.object}, FALSE))
      BY <3>1, NewRemovals
    <3> QED BY <2>1, <3>2, BecomesKeeps DEF IInv
  <2>5. own' \in [Dirs -> Keys] /\ shared' \in [Virtuals -> Keys]
    BY <2>1 DEF Without, IInv, StateInv, Keys
  <2>6. StateInv'
    BY <1>2, <1>3, <2>5 DEF IInv, StateInv, environment
  <2> QED BY <1>3, <2>2, <2>4, <2>6 DEF AllKept
<1>7. task.kind \in {"scan", "remove"}
  BY <1>2 DEF Queued
<1> QED BY <1>5, <1>6, <1>7

-------------------------------------------------------------------------------
(* The other threads, and the disk.                                        *)

LEMMA RequestScanKeeps ==
    ASSUME IInv, RequestScan PROVE AllKept
<1>1. PICK task : task = ScanTask
  OBVIOUS
<1>2. task = [kind |-> "scan", file |-> NoDir, object |-> INVALID_OBJECT_ID,
              parent |-> INVALID_OBJECT_ID, clear |-> FALSE]
  BY <1>1 DEF ScanTask, NoTask
<1>3. task \in Queued
  BY <1>2 DEF Queued, Tasks, NonRoots, Keys
<1>4. queue \in Seq(Queued) /\ queue' = Append(queue, task)
  BY <1>1 DEF RequestScan, IInv, StateInv
<1>5. queue' \in Seq(Queued)
  BY <1>3, <1>4, AppendOK, Zenon
<1>6. StateInv'
  BY <1>5 DEF RequestScan, IInv, StateInv, scanState, environment
<1>7. TreeInv' /\ RemovalInv'
  BY SameRows DEF RequestScan, IInv
<1>8. ImportOK(import') /\ AdirInv'
  BY DEF RequestScan, IInv, ImportInv, AdirInv, scanState
<1> QED BY <1>6, <1>7, <1>8 DEF AllKept

\* The import does not take part.
LEMMA ImportRests ==
    ASSUME IInv, UNCHANGED <<import, adirId>> PROVE ImportOK(import') /\ AdirInv'
BY DEF IInv, ImportInv, AdirInv

LEMMA OtherRows ==
    ASSUME TreeInv, NEW i \in Ids \ Roots
    PROVE  i \in RowKeys
BY DEF TreeInv, RowsOK, RowKeys

LEMMA WebRemoveKeeps ==
    ASSUME IInv, NEW i, NEW all \in BOOLEAN, WebRemove(i, all) PROVE AllKept
<1>1. i \in RowKeys
  BY OtherRows DEF WebRemove, IInv, Roots
<1>2. UNCHANGED <<tree, own, activeScan, adirId, environment, import>>
  BY DEF WebRemove
<1>3. CASE all
  <2>1. PICK task : task = RemoveTask(i, FALSE) /\ task \in Queued
    BY <1>1, RemoveTaskOK
  <2>2. queue \in Seq(Queued) /\ queue' = Append(queue, task) /\ UNCHANGED <<removal, shared>>
    BY <1>3, <2>1 DEF WebRemove, IInv, StateInv
  <2>3. queue' \in Seq(Queued)
    BY <2>1, <2>2, AppendOK, Zenon
  <2>4. StateInv'
    BY <1>2, <2>2, <2>3 DEF IInv, StateInv, environment
  <2> QED BY <1>2, <2>2, <2>4, SameRows, ImportRests DEF AllKept, IInv
<1>4. CASE ~all
  <2>1. Becomes("web", Removing({i}, FALSE)) /\ shared' = Without(shared) /\ UNCHANGED queue
    BY <1>4 DEF WebRemove
  <2>2. RemovalInv'
    <3>1. {i} \in SUBSET RowKeys
      BY <1>1
    <3>2. IsRemoval(Removing({i}, FALSE))
      BY <3>1, NewRemovals
    <3> QED BY <2>1, <3>2, BecomesKeeps DEF IInv
  <2>3. StateInv'
    BY <1>2, <2>1 DEF IInv, StateInv, environment, Without, Keys
  <2> QED BY <1>2, <2>2, <2>3, SameRows, ImportRests DEF AllKept, IInv
<1> QED BY <1>3, <1>4

\* A removal is over.
LEMMA RemovedKeeps ==
    ASSUME IInv, NEW t, Becomes(t, NoRemoval), UNCHANGED <<tree, scanState, environment, queue, import>>
    PROVE  AllKept
<1>1. RemovalInv'
  BY NewRemovals, BecomesKeeps DEF IInv
<1>2. TreeInv' /\ StateInv' /\ ImportOK(import') /\ AdirInv'
  BY SameRows, SameState, ImportRests DEF IInv, scanState
<1> QED BY <1>1, <1>2 DEF AllKept

LEMMA RemovingKeeps ==
    ASSUME IInv, NEW t \in Threads, removing(t) PROVE AllKept
<1>1. TreeInv' /\ RemovalInv'
  BY RemovalStepKeeps DEF removing, IInv
<1>2. StateInv' /\ ImportOK(import') /\ AdirInv'
  BY SameState, ImportRests DEF removing, IInv, scanState
<1> QED BY <1>1, <1>2 DEF AllKept

\* What is on disk stays of its type.
DiskOK(d, l) == d \in [Files -> Tags \cup {Gone}] /\ l \subseteq Dirs

LEMMA AddsKeeps ==
    ASSUME ImportAssumption, IInv, NEW e \in Entries, Adds(e), DiskOK(disk', lost'), UNCHANGED <<scanMode, queue>>
    PROVE  AllKept
<1>1. PICK i : i = IF e \in Dirs \/ At("item", e) = {} THEN INVALID_OBJECT_ID ELSE Min(At("item", e))
  OBVIOUS
<1>2. PICK task : task = AddNow(e, i)
  OBVIOUS
<1>3. i \in NonRoots /\ (i \in Ids => tree[i].parent \in Nat)
  <2>1. CASE e \in Dirs \/ At("item", e) = {}
    <3>1. i = INVALID_OBJECT_ID /\ i \notin Ids
      BY <1>1, <2>1 DEF IInv, TreeInv, RowsOK
    <3> QED BY <3>1 DEF NonRoots
  <2>2. CASE e \notin Dirs /\ At("item", e) # {}
    <3>1. e \in Files /\ TreeInv
      BY <2>2 DEF Entries, IInv
    <3>2. i \in At("item", e)
      BY <1>1, <2>2, <3>1, LeastRow DEF At
    <3>3. i \in RowKeys /\ tree[i].parent \in Ids
      BY <3>1, <3>2, FileIsNoRoot
    <3> QED BY <3>1, <3>3 DEF NonRoots, TreeInv, RowsOK
  <2> QED BY <2>1, <2>2
<1>4. task \in Tasks
  <2>1. PICK p : p = IF i \in Ids THEN tree[i].parent ELSE INVALID_OBJECT_ID
    OBVIOUS
  <2>2. p \in Keys
    BY <1>3, <2>1 DEF Keys
  <2>3. task = [NoTask EXCEPT !.kind = "file", !.file = e, !.object = i, !.parent = p]
    BY <1>2, <2>1, Zenon DEF AddNow
  <2>4. PICK o : o = NoTask
    OBVIOUS
  <2>5. o = [kind |-> "none", file |-> NoDir, object |-> INVALID_OBJECT_ID, parent |-> INVALID_OBJECT_ID, clear |-> FALSE]
    BY <2>4, Zenon DEF NoTask
  <2>6. task = [o EXCEPT !.kind = "file", !.file = e, !.object = i, !.parent = p]
    BY <2>3, <2>4
  <2>7. task.kind = "file" /\ task \in [kind : {"file"}, file : Entries, object : NonRoots, parent : Keys, clear : BOOLEAN]
    BY ZenonT(60), <1>3, <2>2, <2>5, <2>6
  <2>8. task \in Tasks
    BY <2>7 DEF Tasks
  <2> QED BY <2>8
<1>5. PICK n, q : n = NoImport /\ q = [n EXCEPT !.pc = "begin", !.task = task, !.place = e]
  OBVIOUS
<1>6. import' = q /\ UNCHANGED <<tree, removal, own, activeScan, adirId>>
      /\ shared' = IF MustClear(task) THEN Without(shared) ELSE shared
  BY <1>1, <1>2, <1>5, Zenon DEF Adds
<1>7. n \in ImportRecords /\ FileObjects(n)
  BY <1>5, NoImportOK DEF ImportOK
<1>8. e \in Places
  BY DEF Places, Entries
<1>9. q \in ImportRecords /\ q.pc = "begin" /\ q.object = n.object /\ q.state = n.state /\ q.place = e
  BY <1>4, <1>5, <1>7, <1>8 DEF ImportRecords, ImportPCs
<1>10. FileObjects(q) /\ LayoutObjects(q) /\ Focus(q)
  BY <1>7, <1>9 DEF FileObjects, LayoutObjects, Focus, InLayout, Laying, LayoutChain, ChainPCs
<1>11. StateInv'
  BY <1>6 DEF IInv, StateInv, DiskOK, Without, Keys
<1>12. TreeInv' /\ RemovalInv'
  BY <1>6, SameRows DEF IInv
<1> QED BY <1>6, <1>9, <1>10, <1>11, <1>12 DEF AllKept, ImportOK, AdirInv

\* The row at a file or directory is no root.
LEMMA PlacedIsKey ==
    ASSUME ImportAssumption, TreeInv, NEW type, NEW e \in Entries, At(type, e) # {}
    PROVE  Min(At(type, e)) \in RowKeys
<1>1. PICK i : i = Min(At(type, e))
  OBVIOUS
<1>2. i \in At(type, e)
  BY <1>1, LeastRow DEF At
<1>3. e \notin {"root", "fsroot"}
  BY PathsAreOK DEF PathsOK, Entries
<1>4. i \in Ids /\ i \in Nat /\ tree[i].at = e
  BY <1>2 DEF At, TreeInv, RowsOK
<1> QED BY <1>1, <1>3, <1>4 DEF TreeInv, NothingDangles, RootsStay, Roots, Object, RowKeys

LEMMA DropsKeeps ==
    ASSUME ImportAssumption, IInv, NEW type \in {"item", "dir"}, NEW e \in Entries,
           Drops(type, e) \/ UNCHANGED <<removal, own, shared>>, DiskOK(disk', lost'),
           UNCHANGED <<tree, activeScan, adirId, scanMode, queue, import>>
    PROVE  AllKept
<1>1. CASE UNCHANGED <<removal, own, shared>>
  <2>1. StateInv'
    BY <1>1 DEF IInv, StateInv, DiskOK
  <2> QED BY <1>1, <2>1, SameRows, ImportRests DEF AllKept, IInv
<1>2. CASE Drops(type, e) /\ ~UNCHANGED <<removal, own, shared>>
  <2>1. PICK i : i = Min(At(type, e))
    OBVIOUS
  <2>2. /\ Becomes("inotify", Removing({i}, FALSE)) /\ own' = Without(own) /\ shared' = Without(shared)
        /\ At(type, e) # {}
    BY <1>2, <2>1 DEF Drops
  <2>3. i \in RowKeys
    BY <2>1, <2>2, PlacedIsKey DEF IInv
  <2>4. RemovalInv'
    <3>1. {i} \in SUBSET RowKeys
      BY <2>3
    <3>2. IsRemoval(Removing({i}, FALSE))
      BY <3>1, NewRemovals
    <3> QED BY <2>2, <3>2, BecomesKeeps DEF IInv
  <2>5. StateInv'
    BY <2>2 DEF IInv, StateInv, DiskOK, Without, Keys
  <2> QED BY <2>4, <2>5, SameRows, ImportRests DEF AllKept, IInv
<1> QED BY <1>1, <1>2

LEMMA DiskChangeKeeps ==
    ASSUME ImportAssumption, IInv, diskChange PROVE AllKept
<1>1. disk \in [Files -> Tags \cup {Gone}] /\ lost \subseteq Dirs
  BY DEF IInv, StateInv
<1>2. ASSUME NEW f \in Files, DeleteFile(f) PROVE AllKept
  <2>1. DiskOK(disk', lost') /\ f \in Entries
    BY <1>1, <1>2 DEF DeleteFile, DiskOK, Entries
  <2>2. Drops("item", f) \/ UNCHANGED <<removal, own, shared>>
    BY <1>2 DEF DeleteFile
  <2>3. UNCHANGED <<tree, activeScan, adirId, scanMode, queue, import>>
    BY <1>2 DEF DeleteFile
  <2> QED BY <2>1, <2>2, <2>3, DropsKeeps
<1>3. ASSUME NEW d \in Dirs, LoseDirectory(d) PROVE AllKept
  <2>1. DiskOK(disk', lost') /\ d \in Entries
    BY <1>1, <1>3 DEF LoseDirectory, DiskOK, Entries
  <2>2. Drops("dir", d) \/ UNCHANGED <<removal, own, shared>>
    BY <1>3 DEF LoseDirectory
  <2>3. UNCHANGED <<tree, activeScan, adirId, scanMode, queue, import>>
    BY <1>3 DEF LoseDirectory
  <2> QED BY <2>1, <2>2, <2>3, DropsKeeps
<1>4. ASSUME NEW e \in Entries, IF Watched THEN Adds(e) ELSE Disturbed /\ UnchangedTree,
             DiskOK(disk', lost'), UNCHANGED <<scanMode, queue>>
      PROVE  AllKept
  <2>1. CASE Watched
    BY <1>4, <2>1, AddsKeeps
  <2>2. CASE ~Watched
    <3>1. UNCHANGED <<tree, removal, scanState, import>>
      BY <1>4, <2>2 DEF UnchangedTree
    <3>2. StateInv'
      BY <1>4, <3>1 DEF IInv, StateInv, DiskOK, scanState
    <3> QED BY <3>1, <3>2, SameRows, ImportRests DEF AllKept, IInv, scanState
  <2> QED BY <2>1, <2>2
<1>5. ASSUME NEW f \in Files, NEW tag \in Tags, WriteFile(f, tag) PROVE AllKept
  <2>1. DiskOK(disk', lost') /\ f \in Entries /\ UNCHANGED <<scanMode, queue>>
    BY <1>1, <1>5 DEF WriteFile, DiskOK, Entries
  <2>2. IF Watched THEN Adds(f) ELSE Disturbed /\ UnchangedTree
    BY <1>5 DEF WriteFile
  <2> QED BY <1>4, <2>1, <2>2
<1>6. ASSUME NEW d \in Dirs, MakeDirectory(d) PROVE AllKept
  <2>1. DiskOK(disk', lost') /\ d \in Entries /\ UNCHANGED <<scanMode, queue>>
    BY <1>1, <1>6 DEF MakeDirectory, DiskOK, Entries
  <2>2. IF Watched THEN Adds(d) ELSE Disturbed /\ UnchangedTree
    BY <1>6 DEF MakeDirectory
  <2> QED BY <1>4, <2>1, <2>2
<1> QED BY <1>2, <1>3, <1>5, <1>6 DEF diskChange

\* Whatever step the threads take, what holds of the rows, of the removals and
\* of the import goes on to hold.
LEMMA StepKeeps ==
    ASSUME ImportAssumption, IInv, [Next]_vars PROVE IInv'
<1>1. SUFFICES AllKept
  BY KeptKeeps
<1>2. CASE UNCHANGED vars
  BY <1>2, SameRows, SameState, ImportRests DEF vars, AllKept, IInv, scanState
<1>3. CASE StartTask \/ contentThread \/ RequestScan
  BY <1>3, StartTaskKeeps, ImportStepKeeps, RequestScanKeeps
<1>4. ASSUME NEW i, NEW all \in BOOLEAN, WebRemove(i, all) PROVE AllKept
  BY <1>4, WebRemoveKeeps
<1>5. CASE WebRemoved \/ InotifyRemoved
  BY <1>5, RemovedKeeps DEF WebRemoved, InotifyRemoved
<1>6. ASSUME NEW t \in Threads, removing(t) PROVE AllKept
  BY <1>6, RemovingKeeps
<1>7. CASE diskChange
  BY <1>7, DiskChangeKeeps
<1> QED BY <1>2, <1>3, <1>4, <1>5, <1>6, <1>7 DEF Next


-------------------------------------------------------------------------------
(* Removals that come one after the other (SequentialSpec).                *)

Active(t) == removal[t].pc # "idle"

\* A removal belongs to the task of the content thread, or falls between tasks.
BelongsTo(t) ==
    \/ In("idle") /\ t # "content"
    \/ (In("removing") \/ In("sweeping")) /\ t = "content"
    \/ In("cleaning") /\ t = Importer
Alone == \A t \in Threads : Active(t) => BelongsTo(t) /\ \A u \in Threads : Active(u) => u = t
IdleImport == In("idle") => import.task.kind # "file"

\* How the removal of a thread has come to where it is.
Fresh(r) == \E S \in SUBSET RowKeys : r = Removing(S, FALSE)
Advances(t) ==
    \/ Fresh(removal'[t]) /\ UNCHANGED tree
    \/ Active(t) /\ removalStep(t)
    \/ Active(t) /\ removal'[t] = removal[t] /\ UNCHANGED tree
InTurn == Alone' /\ IdleImport' /\ \A t \in Threads : Active(t)' => Advances(t)

LEMMA TreeStepIsStep ==
    ASSUME ImportAssumption, [TreeNext]_vars PROVE [Next]_vars
BY Zenon DEF ImportAssumption, TreeNext, SequentialStep, UserStep, Next

\* While a task is not at one of its own removals, no thread is at any.
LEMMA NobodyRemoves ==
    ASSUME Alone, IdleImport, Quiet, ~In("removing"), ~In("sweeping"), ~In("cleaning")
    PROVE  \A t \in Threads : ~Active(t)
<1>1. SUFFICES ASSUME NEW t \in Threads, Active(t) PROVE FALSE
  OBVIOUS
<1>2. In("idle") /\ t # "content"
  BY <1>1 DEF Alone, BelongsTo
<1>3. t = Importer
  BY <1>1 DEF Quiet, Active
<1> QED BY <1>2, <1>3 DEF IdleImport, Importer

\* The task goes on, or is over.
GoesOn == import' = NoImport \/ import'.pc # "idle"

LEMMA GoesOnIdle == ASSUME GoesOn PROVE IdleImport'
<1>1. NoImport.task.kind = "none"
  BY NoImportOK DEF NoTask
<1> QED BY <1>1 DEF GoesOn, IdleImport, In

LEMMA NobodyInTurn ==
    ASSUME \A t \in Threads : ~Active(t), UNCHANGED removal, IdleImport'
    PROVE  InTurn
BY DEF InTurn, Alone, Active

\* One removal begins where there was none.
LEMMA BeginsInTurn ==
    ASSUME RemovalInv, \A t \in Threads : ~Active(t), NEW u, NEW S \in SUBSET RowKeys,
           Becomes(u, Removing(S, FALSE)), UNCHANGED tree, IdleImport', BelongsTo(u)'
    PROVE  InTurn
<1>1. PICK r : r = Removing(S, FALSE)
  OBVIOUS
<1>2. removal' = [removal EXCEPT ![u] = r]
  BY <1>1 DEF Becomes
<1>3. ASSUME NEW t \in Threads, Active(t)' PROVE t = u /\ removal'[t] = r
  BY <1>2, <1>3 DEF RemovalInv, Active
<1>4. Alone'
  BY <1>3 DEF Alone
<1>5. \A t \in Threads : Active(t)' => Advances(t)
  BY <1>1, <1>3 DEF Advances, Fresh
<1> QED BY <1>4, <1>5 DEF InTurn

\* The one removal is over.
LEMMA EndsInTurn ==
    ASSUME RemovalInv, Alone, NEW u \in Threads, Active(u), Becomes(u, NoRemoval), IdleImport'
    PROVE  InTurn
<1>1. PICK r : r = NoRemoval /\ r.pc = "idle"
  BY NewRemovals
<1>2. removal' = [removal EXCEPT ![u] = r]
  BY <1>1 DEF Becomes
<1>3. ASSUME NEW t \in Threads PROVE ~Active(t)'
  BY <1>1, <1>2 DEF RemovalInv, Active, Alone
<1> QED BY <1>3 DEF InTurn, Alone

\* Neither the removals nor the import nor the rows change.
LEMMA RestsInTurn ==
    ASSUME Alone, IdleImport, UNCHANGED <<tree, removal, import>> PROVE InTurn
<1>1. Alone' /\ IdleImport'
  BY DEF Alone, IdleImport, Active, BelongsTo, In, Importer
<1> QED BY <1>1 DEF InTurn, Advances, Active

\* The statements of the import that are not about removals.
LEMMA StatementsGoOn ==
    ASSUME import \in ImportRecords
    PROVE  /\ Rescan \/ FlagContainer \/ ListContents \/ Begin \/ Finish => GoesOn /\ UNCHANGED removal
           /\ addContainerTree => GoesOn /\ UNCHANGED removal
           /\ FindPlaylists \/ LoadPlaylists => GoesOn /\ UNCHANGED removal
<1>1. PICK m : m = import /\ m \in ImportRecords
  OBVIOUS
<1>2. \A outcome : Ends(outcome) => GoesOn
  BY DEF Ends, GoesOn
<1>3. Throws => GoesOn /\ UNCHANGED removal
  BY <1>2 DEF Throws
<1>4. ASSUME NEW pc \in ImportPCs \ {"idle"} PROVE Goto(pc) => GoesOn
  BY <1>1, <1>4 DEF Goto, GoesOn, ImportRecords
<1>5. Fails => GoesOn /\ UNCHANGED removal
  BY <1>3, <1>4 DEF Fails, ImportPCs
<1>6. Crashes => GoesOn /\ UNCHANGED removal
  BY <1>4 DEF Crashes, ImportPCs
<1>7. Rescan => GoesOn /\ UNCHANGED removal
  BY <1>1, <1>2 DEF Rescan, GoesOn, ImportRecords
<1>8. FlagContainer => GoesOn /\ UNCHANGED removal
  BY <1>3, <1>4 DEF FlagContainer, ImportPCs
<1>9. ListContents => GoesOn /\ UNCHANGED removal
  BY <1>1, <1>2 DEF ListContents, GoesOn, ImportRecords
<1>10. Begin => GoesOn /\ UNCHANGED removal
  BY <1>1, <1>2, <1>4 DEF Begin, GoesOn, ImportRecords, ImportPCs
<1>11. Finish => GoesOn /\ UNCHANGED removal
  BY <1>1, <1>2 DEF Finish, GoesOn, ImportRecords
<1>12. EndOfChain => GoesOn /\ UNCHANGED removal
  BY <1>1 DEF EndOfChain, GoesOn, ImportRecords
<1>13. LookUp => GoesOn /\ UNCHANGED removal
  BY <1>4 DEF LookUp, ImportPCs
<1>14. ASSUME NEW i PROVE NextSegment(i) => GoesOn
  BY <1>1 DEF NextSegment, GoesOn, ImportRecords
<1>15. AddSegment => GoesOn /\ UNCHANGED removal
  BY <1>1, <1>4, <1>5 DEF AddSegment, GoesOn, ImportRecords, ImportPCs
<1>16. UseCached => GoesOn /\ UNCHANGED removal
  BY <1>6, <1>14 DEF UseCached
<1>17. LoadSegment => GoesOn /\ UNCHANGED removal
  BY <1>5, <1>14 DEF LoadSegment
<1>18. FindPlaylists => GoesOn /\ UNCHANGED removal
  BY <1>1 DEF FindPlaylists, GoesOn, ImportRecords
<1>19. LoadPlaylists => GoesOn /\ UNCHANGED removal
  BY <1>3, <1>4 DEF LoadPlaylists, ImportPCs
<1> QED
  BY <1>7, <1>8, <1>9, <1>10, <1>11, <1>12, <1>13, <1>15, <1>16, <1>17, <1>18, <1>19 DEF addContainerTree

LEMMA LoopsGoOn ==
    ASSUME import \in ImportRecords
    PROVE  /\ NextContainer \/ NextItem \/ Update => GoesOn /\ UNCHANGED removal
           /\ NextLayout \/ AddReference => GoesOn /\ UNCHANGED removal
<1>1. PICK m : m = import /\ m \in ImportRecords
  OBVIOUS
<1>2. Throws => GoesOn /\ UNCHANGED removal
  BY DEF Throws, Ends, GoesOn
<1>3. ASSUME NEW pc \in ImportPCs \ {"idle"} PROVE Goto(pc) => GoesOn
  BY <1>1, <1>3 DEF Goto, GoesOn, ImportRecords
<1>4. Fails => GoesOn /\ UNCHANGED removal
  BY <1>2, <1>3 DEF Fails, ImportPCs
<1>5. Crashes => GoesOn /\ UNCHANGED removal
  BY <1>3 DEF Crashes, ImportPCs
<1>6. NextContainer => GoesOn /\ UNCHANGED removal
  BY <1>1 DEF NextContainer, GoesOn, ImportRecords, In
<1>7. NextItem => GoesOn /\ UNCHANGED removal
  <2>1. SUFFICES ASSUME NextItem PROVE GoesOn /\ UNCHANGED removal
    OBVIOUS
  <2>2. PICK f, rest, given, found, id, tag :
            /\ f = Entry /\ rest = [m EXCEPT !.todo = Visited] /\ given = m.object[f]
            /\ found = (IF given # INVALID_OBJECT_ID THEN {given} ELSE At("item", f))
            /\ id = Min(found) /\ tag = disk[f]
    OBVIOUS
  <2>3. rest.pc = "items" /\ "pc" \in DOMAIN rest /\ "pc" \in DOMAIN m
    BY <1>1, <2>1, <2>2 DEF NextItem, In, ImportRecords
  <2>4. \A i, p : [rest EXCEPT !.pc = "update", !.file = f, !.object[f] = i, !.seen[f] = tag, !.parent = p].pc # "idle"
    BY <2>3
  <2>5. CASE m.todo = {}
    <3>1. import' = [m EXCEPT !.pc = "layout", !.todo = InState("Created", Entries)] /\ UNCHANGED removal
      BY <1>1, <2>1, <2>5, Zenon DEF NextItem
    <3> QED BY <2>3, <3>1 DEF GoesOn
  <2>6. CASE m.todo # {} /\ ~Present(f)
    <3>1. import' = rest /\ UNCHANGED removal
      BY <1>1, <2>1, <2>2, <2>6, Zenon DEF NextItem
    <3> QED BY <2>3, <3>1 DEF GoesOn
  <2>7. CASE m.todo # {} /\ Present(f) /\ found # {} /\ given = INVALID_OBJECT_ID /\ tree[id].tag = m.seen[f]
    <3>1. import' = [rest EXCEPT !.state[f] = "Existing", !.object[f] = id] /\ UNCHANGED removal
      BY <1>1, <2>1, <2>2, <2>7, ZenonT(60) DEF NextItem
    <3> QED BY <2>3, <3>1 DEF GoesOn
  <2>8. CASE m.todo # {} /\ Present(f) /\ found # {} /\ ~(given = INVALID_OBJECT_ID /\ tree[id].tag = m.seen[f])
    <3>1. PICK p : p = IF given # INVALID_OBJECT_ID THEN m.task.parent ELSE tree[id].parent
      OBVIOUS
    <3>2. /\ import' = [rest EXCEPT !.pc = "update", !.file = f, !.object[f] = id, !.seen[f] = tag, !.parent = p]
          /\ UNCHANGED removal
      BY <1>1, <2>1, <2>2, <2>8, <3>1, ZenonT(60) DEF NextItem
    <3> QED BY <2>4, <3>2 DEF GoesOn
  <2>9. CASE m.todo # {} /\ Present(f) /\ found = {}
    <3> DEFINE parent == import.object[DirOf[f]]
               rows == IF parent = INVALID_OBJECT_ID THEN Ensured(DirOf[f]) ELSE tree
               above == IF parent # INVALID_OBJECT_ID THEN parent
                        ELSE Min({i \in DOMAIN rows : rows[i].type = "dir" /\ rows[i].at = DirOf[f]})
               new == Max(DOMAIN rows) + 1
    <3>a. CreateItem(f)
      BY <1>1, <2>1, <2>2, <2>9, Zenon DEF NextItem
    <3>b. IF above \notin DOMAIN rows THEN Throws
          ELSE /\ tree' = Added(rows, new, Item(f, above, disk[f]))
               /\ import' = [import EXCEPT !.todo = Visited, !.pc = "update", !.file = f, !.object[f] = new,
                                           !.seen[f] = disk[f], !.parent = above]
               /\ UNCHANGED <<removal, scanState, report>>
      BY <3>a, Zenon DEF CreateItem
    <3> HIDE DEF parent, rows, above, new
    <3>2. CASE above \notin DOMAIN rows
      <4>1. Throws
        BY <3>b, <3>2, Zenon
      <4> QED BY <1>2, <4>1
    <3>3. CASE above \in DOMAIN rows
      <4>1. /\ import' = [rest EXCEPT !.pc = "update", !.file = f, !.object[f] = new, !.seen[f] = tag, !.parent = above]
            /\ UNCHANGED removal
        <5>1. /\ import' = [import EXCEPT !.todo = Visited, !.pc = "update", !.file = f, !.object[f] = new,
                                          !.seen[f] = tag, !.parent = above]
              /\ UNCHANGED removal
          BY <2>2, <3>b, <3>3, Zenon
        <5> QED BY <1>1, <2>2, <5>1, Zenon
      <4> QED BY <2>4, <4>1 DEF GoesOn
    <3> QED BY <3>2, <3>3
  <2> QED BY <2>5, <2>6, <2>7, <2>8, <2>9
<1>8. Update => GoesOn /\ UNCHANGED removal
  BY <1>1, <1>2 DEF Update, GoesOn, ImportRecords
<1>9. ASSUME NEW r, "pc" \in DOMAIN r PROVE NextLeaf(r).pc # "idle"
  BY <1>9 DEF NextLeaf
<1>10. NextLayout => GoesOn /\ UNCHANGED removal
  BY <1>1, <1>5, <1>9 DEF NextLayout, GoesOn, ImportRecords, In
<1>11. AddReference => GoesOn /\ UNCHANGED removal
  BY <1>1, <1>4, <1>9 DEF AddReference, GoesOn, ImportRecords, In
<1> QED BY <1>6, <1>7, <1>8, <1>10, <1>11

\* A statement of the removal itself.
LEMMA RemovalStepBecomes ==
    ASSUME NEW t, removalStep(t) PROVE Active(t) /\ \E r : Becomes(t, r)
BY Zenon DEF removalStep, Types, Signals, Parents, References, Children, DeleteCollected, FindEmptyUpnp,
             FindEmptyUi, Purge, InRemoval, Active

LEMMA RemovingInTurn ==
    ASSUME RemovalInv, Alone, IdleImport, NEW u \in Threads, removing(u) PROVE InTurn
<1>1. removalStep(u) /\ UNCHANGED import
  BY DEF removing
<1>2. Active(u) /\ \E r : Becomes(u, r)
  BY <1>1, RemovalStepBecomes
<1>3. \A t \in Threads : Active(t)' => t = u
  BY <1>2 DEF Alone, Becomes, Active, RemovalInv
<1>4. BelongsTo(u)' /\ IdleImport'
  BY <1>1, <1>2 DEF Alone, BelongsTo, IdleImport, In, Importer
<1>5. Alone'
  BY <1>3, <1>4 DEF Alone
<1> QED BY <1>1, <1>2, <1>3, <1>4, <1>5 DEF InTurn, Advances

LEMMA CleaningInTurn ==
    ASSUME ImportAssumption, IInv, Alone, IdleImport, Quiet, CleanUp \/ CleanedUp PROVE InTurn
<1>1. PICK m : m = import /\ ImportOK(m) /\ m \in ImportRecords
  BY DEF IInv, ImportInv, ImportOK
<1>2. RemovalInv
  BY DEF IInv
<1>3. ASSUME CleanUp PROVE InTurn
  <2>1. m.pc = "clean" /\ \A t \in Threads : ~Active(t)
    BY <1>1, <1>3, NobodyRemoves DEF CleanUp, In
  <2>2. PICK orphans, i : orphans = m.refs \ m.made /\ i = Min(orphans)
    OBVIOUS
  <2>3. CASE orphans = {} \/ i \notin Ids
    <3>1. import' = [m EXCEPT !.pc = "played"] /\ UNCHANGED removal
      BY <1>1, <1>3, <2>2, <2>3 DEF CleanUp, Goto
    <3>2. GoesOn
      BY <1>1, <3>1 DEF GoesOn, ImportRecords
    <3> QED BY <2>1, <3>1, <3>2, GoesOnIdle, NobodyInTurn
  <2>4. CASE orphans # {} /\ i \in Ids
    <3>1. /\ Becomes(Importer, Removing({i}, FALSE)) /\ import' = [m EXCEPT !.pc = "cleaning", !.refs = @ \ {i}]
          /\ UNCHANGED tree
      BY <1>1, <1>3, <2>2, <2>4 DEF CleanUp
    <3>2. i \in RowKeys
      <4>1. m.refs \subseteq RowKeys
        BY <1>1, <2>1 DEF ImportOK, Focus, Laying
      <4>2. orphans \in SUBSET Nat
        BY <2>2, <4>1 DEF RowKeys
      <4>3. i \in orphans
        BY <2>2, <2>4, <4>2, MinOfNaturals
      <4> QED BY <2>2, <4>1, <4>3
    <3>3. import'.pc = "cleaning" /\ import'.task = import.task
      BY <1>1, <3>1 DEF ImportRecords
    <3>a. PICK u : u = Importer
      OBVIOUS
    <3>4. PICK S \in SUBSET RowKeys : S = {i}
      BY <3>2
    <3>5. IdleImport' /\ BelongsTo(u)'
      BY <3>3, <3>a DEF IdleImport, BelongsTo, In, Importer
    <3>6. Becomes(u, Removing(S, FALSE)) /\ UNCHANGED tree
      BY <3>1, <3>4, <3>a
    <3> QED BY <1>2, <2>1, <3>5, <3>6, BeginsInTurn
  <2> QED BY <2>3, <2>4
<1>4. ASSUME CleanedUp PROVE InTurn
  <2>1. PICK u : u = Importer
    OBVIOUS
  <2>2. u \in Threads
    BY <2>1 DEF Importer, ImportAssumption
  <2>3. Active(u) /\ Becomes(u, NoRemoval) /\ import' = [m EXCEPT !.pc = "clean"]
    BY <1>1, <1>4, <2>1 DEF CleanedUp, InRemoval, Active, Goto
  <2>4. GoesOn
    BY <1>1, <2>3 DEF GoesOn, ImportRecords
  <2> QED BY <1>2, <2>2, <2>3, <2>4, GoesOnIdle, EndsInTurn
<1> QED BY <1>3, <1>4

LEMMA SweepingInTurn ==
    ASSUME ImportAssumption, IInv, Alone, IdleImport, Quiet, Sweep \/ Swept \/ Removed PROVE InTurn
<1>1. PICK m : m = import /\ m \in ImportRecords
  BY DEF IInv, ImportInv, ImportOK
<1>2. RemovalInv
  BY DEF IInv
<1>3. \A outcome : Ends(outcome) => GoesOn
  BY DEF Ends, GoesOn
<1>4. ASSUME Sweep PROVE InTurn
  <2>1. m.pc = "sweep" /\ \A t \in Threads : ~Active(t)
    BY <1>1, <1>4, NobodyRemoves DEF Sweep, In
  <2>2. CASE m.list = {}
    <3>1. GoesOn /\ UNCHANGED removal
      BY <1>1, <1>3, <1>4, <2>2 DEF Sweep
    <3> QED BY <2>1, <3>1, GoesOnIdle, NobodyInTurn
  <2>3. CASE m.list # {}
    <3>1. PICK S \in SUBSET RowKeys : S = m.list
      BY <1>1 DEF ImportRecords
    <3>2. Becomes("content", Removing(S, FALSE)) /\ import' = [m EXCEPT !.pc = "sweeping"] /\ UNCHANGED tree
      BY <1>1, <1>4, <2>3, <3>1 DEF Sweep, Goto
    <3>3. import'.pc = "sweeping"
      BY <1>1, <3>2 DEF ImportRecords
    <3>4. IdleImport' /\ BelongsTo("content")'
      BY <3>3 DEF IdleImport, BelongsTo, In
    <3> QED BY <1>2, <2>1, <3>2, <3>4, BeginsInTurn
  <2> QED BY <2>2, <2>3
<1>5. ASSUME Swept \/ Removed PROVE InTurn
  <2>1. Active("content") /\ Becomes("content", NoRemoval) /\ GoesOn
    BY <1>3, <1>5 DEF Swept, Removed, InRemoval, Active
  <2>2. "content" \in Threads
    BY DEF ImportAssumption
  <2> QED BY <1>2, <2>1, <2>2, GoesOnIdle, EndsInTurn
<1> QED BY <1>4, <1>5

LEMMA ImportStepInTurn ==
    ASSUME ImportAssumption, IInv, Alone, IdleImport, Quiet, contentThread PROVE InTurn
<1>1. import \in ImportRecords
  BY DEF IInv, ImportInv, ImportOK
<1>2. ASSUME ~In("removing"), ~In("sweeping"), ~In("cleaning"), GoesOn, UNCHANGED removal PROVE InTurn
  BY <1>2, NobodyRemoves, GoesOnIdle, NobodyInTurn
<1>3. CASE Rescan \/ FlagContainer \/ ListContents \/ Begin \/ Finish
  <2>1. ~In("removing") /\ ~In("sweeping") /\ ~In("cleaning")
    BY <1>3 DEF Rescan, FlagContainer, ListContents, Begin, Finish, In
  <2> QED BY <1>1, <1>2, <1>3, <2>1, StatementsGoOn
<1>4. CASE addContainerTree
  <2>1. ~In("removing") /\ ~In("sweeping") /\ ~In("cleaning")
    BY <1>4 DEF addContainerTree, EndOfChain, LookUp, AddSegment, UseCached, LoadSegment, In
  <2> QED BY <1>1, <1>2, <1>4, <2>1, StatementsGoOn
<1>5. CASE FindPlaylists \/ LoadPlaylists
  <2>1. ~In("removing") /\ ~In("sweeping") /\ ~In("cleaning")
    BY <1>5 DEF FindPlaylists, LoadPlaylists, In
  <2> QED BY <1>1, <1>2, <1>5, <2>1, StatementsGoOn
<1>6. CASE NextContainer \/ NextItem \/ Update
  <2>1. ~In("removing") /\ ~In("sweeping") /\ ~In("cleaning")
    BY <1>6, Zenon DEF NextContainer, NextItem, Update, In
  <2> QED BY <1>1, <1>2, <1>6, <2>1, LoopsGoOn
<1>7. CASE NextLayout \/ AddReference
  <2>1. ~In("removing") /\ ~In("sweeping") /\ ~In("cleaning")
    BY <1>7, Zenon DEF NextLayout, AddReference, In
  <2> QED BY <1>1, <1>2, <1>7, <2>1, LoopsGoOn
<1>8. CASE CleanUp \/ CleanedUp
  BY <1>8, CleaningInTurn
<1>9. CASE Sweep \/ Swept \/ Removed
  BY <1>9, SweepingInTurn
<1> QED
  BY <1>3, <1>4, <1>5, <1>6, <1>7, <1>8, <1>9 DEF contentThread, importStep, fillLayout

LEMMA StartTaskInTurn ==
    ASSUME ImportAssumption, IInv, Alone, IdleImport, Quiet, StartTask PROVE InTurn
<1>1. \A t \in Threads : ~Active(t)
  BY NobodyRemoves DEF StartTask, In
<1>2. PICK task, begun : task = NextTask /\ begun = [NoImport EXCEPT !.task = task]
  OBVIOUS
<1>3. task \in Queued
  BY <1>2, NextTaskIsQueued DEF StartTask, IInv, StateInv
<1>4. \A pc : [begun EXCEPT !.pc = pc].pc = pc
  BY <1>2, NoImportOK DEF ImportOK, ImportRecords
<1>5. CASE task.kind = "scan"
  <2>1. import' = [begun EXCEPT !.pc = "rescan"] /\ UNCHANGED removal
    BY <1>2, <1>5 DEF StartTask
  <2>2. IdleImport'
    BY <1>4, <2>1 DEF IdleImport, In
  <2> QED BY <1>1, <2>1, <2>2, NobodyInTurn
<1>6. CASE task.kind = "remove"
  <2>1. /\ import' = [begun EXCEPT !.pc = "removing"] /\ UNCHANGED tree
        /\ Becomes("content", Removing({task.object}, FALSE))
    BY <1>2, <1>6 DEF StartTask
  <2>a. task.object \in RowKeys
    BY <1>3, <1>6 DEF Queued, Tasks, NonRoots
  <2>2. PICK S \in SUBSET RowKeys : S = {task.object}
    BY <2>a
  <2>3. IdleImport' /\ BelongsTo("content")'
    BY <1>4, <2>1 DEF IdleImport, BelongsTo, In
  <2>4. Becomes("content", Removing(S, FALSE)) /\ RemovalInv
    BY <2>1, <2>2 DEF IInv
  <2> QED BY <1>1, <2>1, <2>3, <2>4, BeginsInTurn
<1> QED BY <1>3, <1>5, <1>6 DEF Queued

LEMMA UserInTurn ==
    ASSUME ImportAssumption, IInv, Alone, IdleImport, UserStep PROVE InTurn
<1>1. RemovalInv
  BY DEF IInv
<1>2. ASSUME Quiet, In("idle"), NEW i \in Ids, NEW all \in BOOLEAN, WebRemove(i, all) PROVE InTurn
  <2>1. UNCHANGED <<tree, import>> /\ i \in RowKeys
    BY <1>2 DEF WebRemove, IInv, TreeInv, RowsOK, RowKeys, Roots
  <2>2. CASE all
    BY <1>2, <2>1, <2>2, RestsInTurn DEF WebRemove
  <2>3. CASE ~all
    <3>1. PICK S \in SUBSET RowKeys : S = {i}
      BY <2>1
    <3>2. Becomes("web", Removing(S, FALSE))
      BY <1>2, <2>3, <3>1 DEF WebRemove
    <3>3. \A t \in Threads : ~Active(t)
      BY <1>2, NobodyRemoves DEF In
    <3>4. IdleImport' /\ BelongsTo("web")'
      BY <1>2, <2>1 DEF IdleImport, BelongsTo, In
    <3> QED BY <1>1, <2>1, <3>2, <3>3, <3>4, BeginsInTurn
  <2> QED BY <2>2, <2>3
<1>3. ASSUME WebRemoved PROVE InTurn
  <2>1. Active("web") /\ Becomes("web", NoRemoval) /\ UNCHANGED import /\ "web" \in Threads
    BY <1>3 DEF WebRemoved, InRemoval, Active, ImportAssumption
  <2>2. IdleImport'
    BY <2>1 DEF IdleImport, In
  <2> QED BY <1>1, <2>1, <2>2, EndsInTurn
<1> QED BY <1>2, <1>3 DEF UserStep

LEMMA DropsInTurn ==
    ASSUME ImportAssumption, IInv, Alone, IdleImport, Quiet, UNCHANGED <<tree, import>>,
           NEW type \in {"item", "dir"}, NEW e \in Entries,
           (Drops(type, e) /\ In("idle")) \/ UNCHANGED removal
    PROVE  InTurn
<1>1. CASE UNCHANGED removal
  BY <1>1, RestsInTurn
<1>2. CASE Drops(type, e) /\ In("idle") /\ ~UNCHANGED removal
  <2>1. PICK i : i = Min(At(type, e))
    OBVIOUS
  <2>2. Becomes("inotify", Removing({i}, FALSE)) /\ At(type, e) # {}
    BY <1>2, <2>1 DEF Drops
  <2>3. i \in RowKeys
    BY <2>1, <2>2, PlacedIsKey DEF IInv
  <2>4. PICK S \in SUBSET RowKeys : S = {i}
    BY <2>3
  <2>5. Becomes("inotify", Removing(S, FALSE)) /\ RemovalInv
    BY <2>2, <2>4 DEF IInv
  <2>6. \A t \in Threads : ~Active(t)
    BY <1>2, NobodyRemoves DEF In
  <2>7. IdleImport' /\ BelongsTo("inotify")'
    BY <1>2 DEF IdleImport, BelongsTo, In
  <2> QED BY <2>5, <2>6, <2>7, BeginsInTurn
<1> QED BY <1>1, <1>2

LEMMA AddsInTurn ==
    ASSUME Alone, IdleImport, Quiet, NEW e,
           Adds(e) \/ UNCHANGED <<tree, removal, import>>
    PROVE  InTurn
<1>1. CASE Adds(e)
  <2>1. \A t \in Threads : ~Active(t)
    BY <1>1, NobodyRemoves DEF Adds, In
  <2>2. UNCHANGED removal /\ import'.pc = "begin"
    BY <1>1, NoImportOK DEF Adds, ImportOK, ImportRecords
  <2>3. IdleImport'
    BY <2>2 DEF IdleImport, In
  <2> QED BY <2>1, <2>2, <2>3, NobodyInTurn
<1> QED BY <1>1, RestsInTurn

LEMMA DiskChangeInTurn ==
    ASSUME ImportAssumption, IInv, Alone, IdleImport, Quiet, diskChange, Settled \/ scanMode = "timed" PROVE InTurn
<1>1. Watched => In("idle")
  BY DEF Watched, Settled
<1>2. ASSUME NEW f \in Files, DeleteFile(f) PROVE InTurn
  <2>1. /\ f \in Entries /\ UNCHANGED <<tree, import>>
        /\ (Drops("item", f) /\ In("idle")) \/ UNCHANGED removal
    BY <1>1, <1>2 DEF DeleteFile, Entries
  <2> QED BY <2>1, DropsInTurn
<1>3. ASSUME NEW d \in Dirs, LoseDirectory(d) PROVE InTurn
  <2>1. /\ d \in Entries /\ UNCHANGED <<tree, import>>
        /\ (Drops("dir", d) /\ In("idle")) \/ UNCHANGED removal
    BY <1>1, <1>3 DEF LoseDirectory, Entries
  <2> QED BY <2>1, DropsInTurn
<1>4. ASSUME NEW f, NEW tag, WriteFile(f, tag) PROVE InTurn
  <2>1. Adds(f) \/ UNCHANGED <<tree, removal, import>>
    BY <1>4 DEF WriteFile, UnchangedTree
  <2> QED BY <2>1, AddsInTurn
<1>5. ASSUME NEW d, MakeDirectory(d) PROVE InTurn
  <2>1. Adds(d) \/ UNCHANGED <<tree, removal, import>>
    BY <1>5 DEF MakeDirectory, UnchangedTree
  <2> QED BY <2>1, AddsInTurn
<1> QED BY <1>2, <1>3, <1>4, <1>5 DEF diskChange

\* One removal at a time, each going on from where it was.
LEMMA StepsInTurn ==
    ASSUME ImportAssumption, IInv, Alone, IdleImport, [TreeNext]_vars PROVE InTurn
<1>1. RemovalInv
  BY DEF IInv
<1>2. CASE UNCHANGED vars
  BY <1>2, RestsInTurn DEF vars
<1>3. CASE Quiet /\ (StartTask \/ contentThread)
  BY <1>3, StartTaskInTurn, ImportStepInTurn
<1>4. CASE RequestScan
  BY <1>4, RestsInTurn DEF RequestScan
<1>5. CASE Quiet /\ diskChange /\ (Settled \/ (scanMode = "timed" /\ (In("idle") \/ lost' = lost)))
  BY <1>5, DiskChangeInTurn
<1>6. ASSUME NEW t \in Threads, removing(t) PROVE InTurn
  BY <1>1, <1>6, RemovingInTurn
<1>7. CASE UserStep
  BY <1>7, UserInTurn
<1>8. CASE InotifyRemoved
  <2>1. Active("inotify") /\ Becomes("inotify", NoRemoval) /\ UNCHANGED import /\ "inotify" \in Threads
    BY <1>8 DEF InotifyRemoved, InRemoval, Active, ImportAssumption
  <2>2. IdleImport'
    BY <2>1 DEF IdleImport, In
  <2> QED BY <1>1, <2>1, <2>2, EndsInTurn
<1> QED BY <1>2, <1>3, <1>4, <1>5, <1>6, <1>7, <1>8 DEF TreeNext, SequentialStep

-------------------------------------------------------------------------------
(* What such a removal was asked to remove is gone at its end.             *)

\* Since it began rows have gone, and none has come or changed.
Shrunk(r) ==
    /\ IsFiniteSet(DOMAIN r.was) /\ DOMAIN r.was \subseteq Nat
    /\ Ids \subseteq DOMAIN r.was /\ \A i \in Ids : tree[i] = r.was[i]

\* Where the objects it was asked to remove are.
Left(r) == r.listed \cap Ids
Taken(r) ==
    /\ r.pc = "signals" => r.parents = {} /\ Left(r) \subseteq r.remove
    /\ r.pc = "parents" => Left(r) \subseteq r.remove \cup r.parents
    /\ r.pc \in {"items", "children", "delete"} => Left(r) \subseteq r.remove
    /\ r.pc \in {"upnp", "ui", "purge", "done"} => Left(r) = {}
OnItsWay(r) == Shrunk(r) /\ (~IsMixed(r) => Taken(r))

\* The statements of a removal, one by one.
TypesMove(r, q) == r.pc = "types" /\ q = AfterTypes(r) /\ UNCHANGED tree
SignalsMove(r, q) ==
    /\ r.pc = "signals" /\ UNCHANGED tree
    /\ q = [r EXCEPT !.pc = "parents", !.parents = {}, !.ui = ParentsOf(r.parents \cup r.containers)]
ParentsMove(r, q) ==
    /\ r.pc = "parents" /\ UNCHANGED tree
    /\ q = [r EXCEPT !.pc = "items", !.parents = {}, !.remove = r.remove \cup r.parents,
                     !.upnp = r.upnp \cup ParentsOf(r.parents)]
ReferencesMove(r, q) ==
    /\ r.pc = "items" /\ UNCHANGED tree
    /\ q = [r EXCEPT !.pc = "children", !.items = {}, !.remove = r.remove \cup RefsTo(r.items),
                     !.upnp = r.upnp \cup ParentsOf(RefsTo(r.items))]
ChildrenMove(r, q) == r.pc = "children" /\ q = AfterChildren(r) /\ UNCHANGED tree
DeleteMove(r, q) ==
    /\ r.pc = "delete" /\ Delete(r.remove)
    /\ q = [r EXCEPT !.remove = {}, !.pc = IF Pending(r) THEN "parents" ELSE "upnp"]
UpnpMove(r, q) ==
    /\ r.pc = "upnp" /\ UNCHANGED tree
    /\ q = [r EXCEPT !.pc = "ui", !.changed = r.changed \cup Protected(r.upnp), !.empty = Childless(r.upnp),
                     !.ui = r.ui \cup ParentsOf(Childless(r.upnp)), !.upnp = Occupied(r.upnp)]
DoneMove(r, q) ==
    /\ r.pc = "ui" /\ UNCHANGED tree /\ r.empty \cup Childless(r.ui) = {}
    /\ q = [r EXCEPT !.pc = "done",
                     !.changed = r.changed \cup Protected(r.ui)
                                 \cup (Occupied(r.ui) \cup ParentsOf(Childless(r.ui))) \cup r.upnp]
UiMove(r, q) ==
    /\ r.pc = "ui" /\ UNCHANGED tree
    /\ q = [r EXCEPT !.pc = "purge", !.empty = r.empty \cup Childless(r.ui),
                     !.ui = Occupied(r.ui) \cup ParentsOf(Childless(r.ui)),
                     !.changed = r.changed \cup Protected(r.ui)]
PurgeMove(r, q) ==
    /\ r.pc = "purge" /\ Delete(r.empty)
    /\ q = [r EXCEPT !.empty = {}, !.pc = IF r.upnp \cup r.ui = {} THEN "done" ELSE "upnp"]
Moves(r, q) ==
    \/ TypesMove(r, q) \/ SignalsMove(r, q) \/ ParentsMove(r, q) \/ ReferencesMove(r, q) \/ ChildrenMove(r, q)
    \/ DeleteMove(r, q) \/ UpnpMove(r, q) \/ DoneMove(r, q) \/ UiMove(r, q) \/ PurgeMove(r, q)

LEMMA RemovalMoves ==
    ASSUME RemovalInv, NEW t \in Threads, removalStep(t), NEW r, r = removal[t], NEW q, q = removal'[t]
    PROVE  Moves(r, q)
<1>1. PICK was : was = r.was /\ r \in RemovalRecords(was) /\ r.all = FALSE
  BY DEF RemovalInv, IsRemoval, RemovalRecords
<1>2. \A s : Becomes(t, s) => q = s
  BY DEF RemovalInv, Becomes
<1>3. CASE Types(t)
  <2>1. Becomes(t, AfterTypes(removal[t])) /\ UNCHANGED tree
    BY <1>1, <1>3, TypesEffect
  <2> QED BY <1>2, <1>3, <2>1 DEF Types, InRemoval, Moves, TypesMove
<1>4. CASE Signals(t)
  BY <1>2, <1>4 DEF Signals, InRemoval, Moves, SignalsMove
<1>5. CASE Parents(t)
  BY <1>2, <1>5 DEF Parents, InRemoval, Moves, ParentsMove
<1>6. CASE References(t)
  BY <1>2, <1>6 DEF References, InRemoval, Moves, ReferencesMove
<1>7. CASE Children(t)
  <2>1. Becomes(t, AfterChildren(removal[t])) /\ UNCHANGED tree
    BY <1>1, <1>7, ChildrenEffect
  <2> QED BY <1>2, <1>7, <2>1 DEF Children, InRemoval, Moves, ChildrenMove
<1>8. CASE DeleteCollected(t)
  <2>1. PICK e : e = [r EXCEPT !.remove = {}]
    OBVIOUS
  <2>2. q = [e EXCEPT !.pc = IF Pending(e) THEN "parents" ELSE "upnp"]
    BY <1>2, <1>8, <2>1, Zenon DEF DeleteCollected
  <2>3. Pending(e) <=> Pending(r)
    BY <1>1, <2>1 DEF Pending, RemovalRecords
  <2>4. r.pc = "delete" /\ Delete(r.remove)
    BY <1>8 DEF DeleteCollected, InRemoval
  <2> QED BY <1>1, <2>1, <2>2, <2>3, <2>4 DEF RemovalRecords, Moves, DeleteMove
<1>9. CASE FindEmptyUpnp(t)
  BY <1>2, <1>9 DEF FindEmptyUpnp, InRemoval, Moves, UpnpMove
<1>10. CASE FindEmptyUi(t)
  <2>1. r.pc = "ui" /\ UNCHANGED tree
    BY <1>10 DEF FindEmptyUi, InRemoval
  <2>2. PICK empty, left : empty = r.empty \cup Childless(r.ui) /\ left = Occupied(r.ui) \cup ParentsOf(Childless(r.ui))
    OBVIOUS
  <2>3. CASE empty = {}
    <3>1. q = [r EXCEPT !.pc = "done", !.changed = r.changed \cup Protected(r.ui) \cup left \cup r.upnp]
      BY <1>2, <1>10, <2>2, <2>3 DEF FindEmptyUi
    <3> QED BY <2>1, <2>2, <2>3, <3>1 DEF Moves, DoneMove
  <2>4. CASE empty # {}
    <3>1. q = [r EXCEPT !.pc = "purge", !.empty = empty, !.ui = left, !.changed = r.changed \cup Protected(r.ui)]
      BY <1>2, <1>10, <2>2, <2>4 DEF FindEmptyUi
    <3> QED BY <2>1, <2>2, <3>1 DEF Moves, UiMove
  <2> QED BY <2>3, <2>4
<1>11. CASE Purge(t)
  <2>1. PICK e : e = [r EXCEPT !.empty = {}]
    OBVIOUS
  <2>2. q = IF e.upnp \cup e.ui = {} THEN [e EXCEPT !.pc = "done"] ELSE [e EXCEPT !.pc = "upnp"]
    BY <1>2, <1>11, <2>1, Zenon DEF Purge
  <2>3. e.upnp = r.upnp /\ e.ui = r.ui
    BY <1>1, <2>1 DEF RemovalRecords
  <2>4. r.pc = "purge" /\ Delete(r.empty)
    BY <1>11 DEF Purge, InRemoval
  <2> QED BY <1>1, <2>1, <2>2, <2>3, <2>4 DEF RemovalRecords, Moves, PurgeMove
<1> QED BY <1>3, <1>4, <1>5, <1>6, <1>7, <1>8, <1>9, <1>10, <1>11 DEF removalStep

\* What the statements leave of a removal.
LEMMA RemovalStays ==
    ASSUME NEW r, IsRemoval(r), NEW q, Moves(r, q)
    PROVE  q.listed = r.listed /\ q.was = r.was
<1>1. PICK was : was = r.was /\ r \in RemovalRecords(was)
  BY DEF IsRemoval
<1>2. CASE TypesMove(r, q)
  BY <1>1, <1>2 DEF TypesMove, AfterTypes, RemovalRecords
<1>3. CASE ChildrenMove(r, q)
  BY <1>1, <1>3 DEF ChildrenMove, AfterChildren, EndOfTurn, RemovalRecords
<1>4. CASE SignalsMove(r, q) \/ ParentsMove(r, q) \/ ReferencesMove(r, q) \/ DeleteMove(r, q)
  BY <1>1, <1>4 DEF SignalsMove, ParentsMove, ReferencesMove, DeleteMove, RemovalRecords
<1>5. CASE UpnpMove(r, q) \/ DoneMove(r, q) \/ UiMove(r, q) \/ PurgeMove(r, q)
  BY <1>1, <1>5 DEF UpnpMove, DoneMove, UiMove, PurgeMove, RemovalRecords
<1> QED BY <1>2, <1>3, <1>4, <1>5 DEF Moves

LEMMA ShrunkStays ==
    ASSUME TreeInv, NEW r, Shrunk(r), NEW q, q.was = r.was
    PROVE  /\ UNCHANGED tree => Shrunk(q)' /\ Ids' = Ids
           /\ \A S \in SUBSET RowKeys : Delete(S) => Shrunk(q)' /\ Ids' \subseteq Ids /\ Ids' \cap S = {}
<1>1. UNCHANGED tree => Shrunk(q)' /\ Ids' = Ids
  BY DEF Shrunk, Ids
<1>2. ASSUME NEW S \in SUBSET RowKeys, Delete(S)
      PROVE  Shrunk(q)' /\ Ids' \subseteq Ids /\ Ids' \cap S = {}
  <2>1. Ids' \subseteq Ids /\ Ids' \cap S = {} /\ \A i \in Ids' : tree'[i] = tree[i]
    BY <1>2, DeleteKeeps
  <2> QED BY <2>1 DEF Shrunk
<1> QED BY <1>1, <1>2

LEMMA TakenStays ==
    ASSUME TreeInv, NEW r, IsRemoval(r), NEW q, Moves(r, q), OnItsWay(r)
    PROVE  OnItsWay(q)'
<1>1. PICK was : was = r.was /\ r \in RemovalRecords(was)
  BY DEF IsRemoval
<1>2. q.listed = r.listed /\ q.was = r.was /\ Shrunk(r)
  BY RemovalStays DEF OnItsWay
<1>3. /\ UNCHANGED tree => Shrunk(q)' /\ Left(q)' = Left(r)
      /\ \A S \in SUBSET RowKeys : Delete(S) => Shrunk(q)' /\ Left(q)' \subseteq Left(r) /\ Left(q)' \cap S = {}
  BY <1>2, ShrunkStays DEF Left
<1>4. ASSUME Shrunk(q)', ~IsMixed(r) => Taken(q)' PROVE OnItsWay(q)'
  BY <1>2, <1>4 DEF OnItsWay, IsMixed
<1>5. ~IsMixed(r) => Taken(r)
  BY DEF OnItsWay
<1>6. CASE TypesMove(r, q)
  <2>1. Found(r) = Left(r) /\ UNCHANGED tree
    BY <1>6 DEF Found, Left, TypesMove
  <2>2. CASE Left(r) = {}
    <3>1. q.pc = "done"
      BY <1>1, <1>6, <2>1, <2>2 DEF TypesMove, AfterTypes, RemovalRecords
    <3> QED BY <1>3, <1>4, <2>1, <2>2, <3>1 DEF Taken
  <2>3. CASE Left(r) # {} /\ Containers(Left(r)) = {}
    <3>1. q.pc = "parents" /\ q.parents = Left(r)
      BY <1>1, <1>6, <2>1, <2>3 DEF TypesMove, AfterTypes, RemovalRecords
    <3> QED BY <1>3, <1>4, <2>1, <3>1 DEF Taken
  <2>4. CASE Left(r) # {} /\ Containers(Left(r)) # {}
    <3>1. q.pc = "signals" /\ q.parents = Left(r) \ Containers(Left(r)) /\ q.remove = Containers(Left(r))
      BY <1>1, <1>6, <2>1, <2>4 DEF TypesMove, AfterTypes, RemovalRecords
    <3>2. ASSUME ~IsMixed(r) PROVE Containers(Left(r)) = Left(r)
      <4>1. \A i \in Left(r) : IsContainer(i)
        BY <1>2, <2>4, <3>2 DEF IsMixed, Shrunk, Left, Containers, IsContainer
      <4> QED BY <4>1 DEF Containers
    <3>3. ~IsMixed(r) => q.parents = {} /\ Left(r) \subseteq q.remove
      BY <3>1, <3>2
    <3> QED BY <1>3, <1>4, <2>1, <3>1, <3>3 DEF Taken
  <2> QED BY <2>2, <2>3, <2>4
<1>7. CASE ChildrenMove(r, q)
  <2>1. q.pc \in {"parents", "delete"} /\ r.remove \subseteq q.remove /\ r.pc = "children" /\ UNCHANGED tree
    BY <1>1, <1>7 DEF ChildrenMove, AfterChildren, EndOfTurn, RemovalRecords
  <2> QED BY <1>3, <1>4, <1>5, <2>1 DEF Taken
<1>8. CASE DeleteMove(r, q)
  <2>1. r.pc = "delete" /\ q.pc \in {"parents", "upnp"}
    BY <1>1, <1>8 DEF DeleteMove, RemovalRecords
  <2>2. PICK S \in SUBSET RowKeys : S = r.remove /\ Delete(S)
    BY <1>1, <1>8 DEF DeleteMove, RemovalRecords
  <2>3. Shrunk(q)' /\ (~IsMixed(r) => Left(q)' = {})
    BY <1>3, <1>5, <2>1, <2>2 DEF Taken
  <2> QED BY <1>4, <2>1, <2>3 DEF Taken
<1>9. CASE PurgeMove(r, q)
  <2>1. r.pc = "purge" /\ q.pc \in {"done", "upnp"}
    BY <1>1, <1>9 DEF PurgeMove, RemovalRecords
  <2>2. PICK S \in SUBSET RowKeys : Delete(S)
    BY <1>1, <1>9 DEF PurgeMove, RemovalRecords
  <2>3. Shrunk(q)' /\ (~IsMixed(r) => Left(q)' = {})
    BY <1>3, <1>5, <2>1, <2>2 DEF Taken
  <2> QED BY <1>4, <2>1, <2>3 DEF Taken
<1>10. CASE SignalsMove(r, q)
  <2>1. r.pc = "signals" /\ q.pc = "parents" /\ q.remove = r.remove /\ UNCHANGED tree
    BY <1>1, <1>10 DEF SignalsMove, RemovalRecords
  <2> QED BY <1>3, <1>4, <1>5, <2>1 DEF Taken
<1>11. CASE ParentsMove(r, q)
  <2>1. r.pc = "parents" /\ q.pc = "items" /\ q.remove = r.remove \cup r.parents /\ UNCHANGED tree
    BY <1>1, <1>11 DEF ParentsMove, RemovalRecords
  <2> QED BY <1>3, <1>4, <1>5, <2>1 DEF Taken
<1>12. CASE ReferencesMove(r, q)
  <2>1. r.pc = "items" /\ q.pc = "children" /\ r.remove \subseteq q.remove /\ UNCHANGED tree
    BY <1>1, <1>12 DEF ReferencesMove, RemovalRecords
  <2> QED BY <1>3, <1>4, <1>5, <2>1 DEF Taken
<1>13. CASE UpnpMove(r, q) \/ DoneMove(r, q) \/ UiMove(r, q)
  <2>1. r.pc \in {"upnp", "ui"} /\ q.pc \in {"ui", "done", "purge"} /\ UNCHANGED tree
    BY <1>1, <1>13 DEF UpnpMove, DoneMove, UiMove, RemovalRecords
  <2> QED BY <1>3, <1>4, <1>5, <2>1 DEF Taken
<1> QED BY <1>6, <1>7, <1>8, <1>9, <1>10, <1>11, <1>12, <1>13 DEF Moves

\* One that begins has taken nothing yet.
LEMMA FreshIsOnItsWay ==
    ASSUME TreeInv, UNCHANGED tree, NEW r, Fresh(r) PROVE OnItsWay(r)'
<1>1. r.was = tree /\ r.pc = "types"
  BY NewRemovals DEF Fresh
<1>2. Shrunk(r)'
  BY <1>1 DEF Shrunk, TreeInv, RowsOK, Ids
<1>3. Taken(r)'
  BY <1>1 DEF Taken
<1> QED BY <1>2, <1>3 DEF OnItsWay

\* What holds while removals come one after the other.
SequentialInv == Alone /\ IdleImport /\ \A t \in Threads : Active(t) => OnItsWay(removal[t])

LEMMA SequentialKeeps ==
    ASSUME ImportAssumption, IInv, SequentialInv, [TreeNext]_vars PROVE SequentialInv'
<1>1. InTurn
  BY StepsInTurn DEF SequentialInv
<1>2. ASSUME NEW t \in Threads, Active(t)' PROVE OnItsWay(removal[t])'
  <2>1. CASE Fresh(removal'[t]) /\ UNCHANGED tree
    <3>1. PICK r : r = removal'[t]
      OBVIOUS
    <3>2. OnItsWay(r)'
      BY <2>1, <3>1, FreshIsOnItsWay DEF IInv
    <3> QED BY <3>1, <3>2
  <2>2. CASE Active(t) /\ removalStep(t)
    <3>1. PICK r, q : r = removal[t] /\ q = removal'[t]
      OBVIOUS
    <3>2. Moves(r, q) /\ IsRemoval(r) /\ OnItsWay(r)
      BY <2>2, <3>1, RemovalMoves DEF SequentialInv, IInv, RemovalInv
    <3>3. OnItsWay(q)'
      BY <3>2, TakenStays DEF IInv
    <3> QED BY <3>1, <3>3
  <2>3. CASE Active(t) /\ removal'[t] = removal[t] /\ UNCHANGED tree
    <3>1. PICK r : r = removal[t] /\ r = removal'[t]
      BY <2>3
    <3>2. OnItsWay(r)
      BY <2>3, <3>1 DEF SequentialInv
    <3>3. OnItsWay(r)'
      BY <2>3, <3>2 DEF OnItsWay, Shrunk, Taken, Left, Ids
    <3> QED BY <3>1, <3>3
  <2> QED BY <1>1, <1>2, <2>1, <2>2, <2>3 DEF InTurn, Advances
<1> QED BY <1>1, <1>2 DEF SequentialInv, InTurn

-------------------------------------------------------------------------------
(* Such a removal is whole, as long as rows are below containers and it    *)
(* deletes what it finds at once.                                          *)

InContainers(rows) ==
    \A i \in DOMAIN rows \ {CDS_ID_ROOT} :
        rows[i].parent \in DOMAIN rows /\ rows[rows[i].parent].type \in {"dir", "virtual"}
FitsAtOnce(r) == Cardinality(r.remove) <= MaxRemoveSize

\* While it collects: of what it is going to delete, it has still to look at
\* some items for their references and at some containers for their children,
\* and has noted where each row is missed.
Unfinished(r) ==
    /\ r.remove \subseteq Ids /\ r.containers \subseteq r.remove
    /\ r.parents \subseteq r.items /\ r.items \subseteq r.remove \cup r.parents
    /\ \A i \in r.items : i \in Ids /\ ~IsContainer(i)
    /\ \A c \in r.remove \ r.containers : IsContainer(c) => ChildrenOf({c}) \subseteq r.remove
    /\ \A i \in r.remove \ r.items : ~IsContainer(i) => RefsTo({i}) \subseteq r.remove
Noted(r) == ParentsOf(r.remove) \subseteq r.remove \cup r.upnp \cup r.ui
Collects(r) ==
    /\ r.pc = "types" => tree = r.was
    /\ r.pc \in {"signals", "parents", "items", "children", "delete"} =>
           tree = r.was /\ Unfinished(r)
    /\ r.pc = "signals" => r.items = {} /\ r.remove = r.containers
    /\ r.pc \in {"parents", "items", "children", "delete"} => Noted(r)
    /\ r.pc \in {"items", "children", "delete"} => r.parents = {}
    /\ r.pc \in {"children", "delete"} => r.items = {}
    /\ r.pc = "delete" => r.containers = {}

\* While it purges: the containers that lost a row are to be looked at, are
\* going to be deleted, or are protected and reported.
Losers(r) == {c \in Ids \cap DOMAIN r.was : Before(r, {c}) \ Ids # {}}
Guarded(r) == {c \in r.changed : IsContainer(c) /\ tree[c].persistent}
Purges(r) ==
    /\ r.pc = "upnp" => Losers(r) \subseteq r.upnp \cup r.ui \cup Guarded(r)
    /\ r.pc \in {"ui", "purge"} =>
           /\ Losers(r) \subseteq r.upnp \cup r.ui \cup r.empty \cup Guarded(r)
           /\ \A c \in r.empty : IsContainer(c) /\ ChildrenOf({c}) = {}
    /\ r.pc = "ui" => (\A c \in r.upnp : ChildrenOf({c}) # {}) /\ ParentsOf(r.empty) \subseteq r.ui
    /\ r.pc = "purge" => ParentsOf(r.empty) \subseteq r.ui \cup Guarded(r)
    /\ r.pc = "done" =>
           /\ Losers(r) \subseteq r.changed
           /\ \A c \in Losers(r) : ChildrenOf({c}) # {} \/ tree[c].persistent
WholeSoFar(r) == InContainers(r.was) /\ (~IsMixed(r) => Collects(r) /\ Purges(r))
WholeInv == \A t \in Threads : Active(t) => WholeSoFar(removal[t])

LEMMA SameTreeWhole ==
    ASSUME UNCHANGED tree, NEW q, Collects(q), Purges(q) PROVE Collects(q)' /\ Purges(q)'
<1>1. Ids' = Ids /\ \A i : IsContainer(i)' <=> IsContainer(i)
  BY DEF Ids, IsContainer
<1>2. \A S : ChildrenOf(S)' = ChildrenOf(S) /\ RefsTo(S)' = RefsTo(S) /\ ParentsOf(S)' = ParentsOf(S)
  BY DEF Ids, ChildrenOf, RefsTo, ParentsOf
<1>3. Unfinished(q)' <=> Unfinished(q)
  BY <1>1, <1>2 DEF Unfinished
<1>4. (Noted(q)' <=> Noted(q)) /\ Losers(q)' = Losers(q) /\ Guarded(q)' = Guarded(q)
  BY <1>1, <1>2 DEF Noted, Losers, Guarded
<1>5. Collects(q)'
  BY <1>3, <1>4 DEF Collects
<1>6. Purges(q)'
  BY <1>1, <1>2, <1>4 DEF Purges
<1> QED BY <1>5, <1>6

LEMMA TypesWhole ==
    ASSUME TreeInv, NEW r, IsRemoval(r), NEW q, TypesMove(r, q), Shrunk(r), ~IsMixed(r), Collects(r)
    PROVE  Collects(q) /\ Purges(q)
<1>1. PICK was : was = r.was /\ r \in RemovalRecords(was)
  BY DEF IsRemoval
<1>2. PICK F : F = Found(r) /\ F \subseteq Ids /\ tree = r.was /\ q.was = r.was
  BY <1>1 DEF Found, TypesMove, Collects, AfterTypes, RemovalRecords
<1>3. Containers(F) \subseteq F /\ (\A i \in Containers(F) : IsContainer(i)) /\ \A i \in F \ Containers(F) : ~IsContainer(i)
  BY DEF Containers
<1>4. CASE F = {}
  <2>1. q.pc = "done"
    BY <1>1, <1>2, <1>4 DEF TypesMove, AfterTypes, RemovalRecords
  <2>2. Losers(q) = {}
    BY <1>2 DEF Losers, Before, Ids
  <2> QED BY <2>1, <2>2 DEF Collects, Purges
<1>5. CASE F # {} /\ Containers(F) = {}
  <2>1. q.pc = "parents" /\ q.items = F /\ q.parents = F /\ q.containers = {} /\ q.remove = {}
    BY <1>1, <1>2, <1>5 DEF TypesMove, AfterTypes, RemovalRecords
  <2>2. Unfinished(q) /\ Noted(q)
    BY <1>2, <1>3, <1>5, <2>1 DEF Unfinished, Noted, ParentsOf
  <2> QED BY <1>2, <2>1, <2>2 DEF Collects, Purges
<1>6. CASE F # {} /\ Containers(F) # {}
  <2>1. \A i \in F : IsContainer(i)
    BY <1>2, <1>6 DEF IsMixed, Shrunk, Found, Containers, IsContainer
  <2>2. Containers(F) = F
    BY <2>1 DEF Containers
  <2>3. q.pc = "signals" /\ q.items = {} /\ q.parents = {} /\ q.containers = F /\ q.remove = F
    BY <1>1, <1>2, <1>6, <2>2 DEF TypesMove, AfterTypes, RemovalRecords
  <2>4. Unfinished(q)
    BY <1>2, <2>1, <2>3 DEF Unfinished
  <2> QED BY <1>2, <2>3, <2>4 DEF Collects, Purges
<1> QED BY <1>4, <1>5, <1>6

LEMMA SignalsWhole ==
    ASSUME NEW r, IsRemoval(r), NEW q, SignalsMove(r, q), Collects(r)
    PROVE  Collects(q) /\ Purges(q)
<1>1. PICK was : was = r.was /\ r \in RemovalRecords(was)
  BY DEF IsRemoval
<1>2. tree = r.was /\ Unfinished(r) /\ r.items = {} /\ r.remove = r.containers /\ r.parents = {}
  BY DEF SignalsMove, Collects, Unfinished
<1>3. /\ q.pc = "parents" /\ q.parents = {} /\ q.ui = ParentsOf(r.remove) /\ q.was = r.was
      /\ q.items = r.items /\ q.remove = r.remove /\ q.containers = r.containers /\ q.upnp = r.upnp
  BY <1>1, <1>2 DEF SignalsMove, RemovalRecords
<1>4. Unfinished(q)
  BY <1>2, <1>3 DEF Unfinished
<1>5. Noted(q)
  BY <1>3 DEF Noted
<1> QED BY <1>2, <1>3, <1>4, <1>5 DEF Collects, Purges

LEMMA ParentsWhole ==
    ASSUME NEW r, IsRemoval(r), NEW q, ParentsMove(r, q), Collects(r)
    PROVE  Collects(q) /\ Purges(q)
<1>1. PICK was : was = r.was /\ r \in RemovalRecords(was)
  BY DEF IsRemoval
<1>2. tree = r.was /\ Unfinished(r) /\ Noted(r)
  BY DEF ParentsMove, Collects
<1>3. /\ q.pc = "items" /\ q.parents = {} /\ q.remove = r.remove \cup r.parents /\ q.was = r.was
      /\ q.items = r.items /\ q.containers = r.containers /\ q.upnp = r.upnp \cup ParentsOf(r.parents)
      /\ q.ui = r.ui
  BY <1>1 DEF ParentsMove, RemovalRecords
<1>4. Unfinished(q)
  BY <1>2, <1>3 DEF Unfinished
<1>5. Noted(q)
  BY <1>2, <1>3 DEF Noted, ParentsOf
<1> QED BY <1>2, <1>3, <1>4, <1>5 DEF Collects, Purges

LEMMA ReferencesWhole ==
    ASSUME TreeInv, NEW r, IsRemoval(r), NEW q, ReferencesMove(r, q), Collects(r)
    PROVE  Collects(q) /\ Purges(q)
<1>1. PICK was : was = r.was /\ r \in RemovalRecords(was)
  BY DEF IsRemoval
<1>2. tree = r.was /\ Unfinished(r) /\ Noted(r) /\ r.parents = {}
  BY DEF ReferencesMove, Collects
<1>3. PICK R : R = RefsTo(r.items)
  OBVIOUS
<1>4. /\ q.pc = "children" /\ q.items = {} /\ q.remove = r.remove \cup R /\ q.was = r.was
      /\ q.parents = r.parents /\ q.containers = r.containers /\ q.upnp = r.upnp \cup ParentsOf(R)
      /\ q.ui = r.ui
  BY <1>1, <1>3 DEF ReferencesMove, RemovalRecords
<1>5. r.items \subseteq Nat
  BY <1>1 DEF RemovalRecords, RowKeys
<1>6. R \subseteq Ids /\ \A i \in R : tree[i].type = "ref"
  BY <1>3, <1>5 DEF RefsTo, TreeInv, NothingDangles, RefersToItem
<1>7. \A i \in R : ~IsContainer(i) /\ RefsTo({i}) = {}
  <2>1. ASSUME NEW j \in Ids, tree[j].ref \in R PROVE FALSE
    <3>1. PICK k \in R : k = tree[j].ref
      BY <2>1
    <3>2. k \in Nat /\ tree[k].type = "ref"
      BY <1>6 DEF TreeInv, RowsOK
    <3>3. k # INVALID_OBJECT_ID
      BY <3>2
    <3> QED BY <3>1, <3>2, <3>3 DEF TreeInv, NothingDangles, RefersToItem
  <2> QED BY <1>6, <2>1 DEF RefsTo, IsContainer
<1>8. \A i \in r.items : RefsTo({i}) \subseteq R
  BY <1>3 DEF RefsTo
<1>9. Unfinished(q)
  BY <1>2, <1>4, <1>6, <1>7, <1>8 DEF Unfinished
<1>10. Noted(q)
  BY <1>2, <1>4 DEF Noted, ParentsOf
<1> QED BY <1>2, <1>4, <1>9, <1>10 DEF Collects, Purges

LEMMA ChildrenWhole ==
    ASSUME ImportAssumption, TreeInv, NEW r, IsRemoval(r), NEW q, ChildrenMove(r, q), Collects(r), FitsAtOnce(q)
    PROVE  Collects(q) /\ Purges(q)
<1>1. PICK was : was = r.was /\ r \in RemovalRecords(was)
  BY DEF IsRemoval
<1>2. tree = r.was /\ Unfinished(r) /\ Noted(r) /\ r.parents = {} /\ r.items = {}
  BY DEF ChildrenMove, Collects
<1>3. PICK C : C = ChildrenOf(r.containers)
  OBVIOUS
<1>4. PICK e : e = [r EXCEPT !.containers = Containers(C), !.items = C \ Containers(C), !.parents = {},
                             !.remove = r.remove \cup C]
  OBVIOUS
<1>5. q = EndOfTurn(e)
  BY <1>3, <1>4, Zenon DEF ChildrenMove, AfterChildren
<1>6. /\ e.items = C \ Containers(C) /\ e.containers = Containers(C) /\ e.parents = {}
      /\ e.remove = r.remove \cup C /\ e.upnp = r.upnp /\ e.ui = r.ui /\ e.was = r.was
      /\ "pc" \in DOMAIN e
  BY <1>1, <1>4 DEF RemovalRecords
<1>7. /\ q.items = e.items /\ q.containers = e.containers /\ q.parents = e.parents
      /\ q.remove = e.remove /\ q.upnp = e.upnp /\ q.ui = e.ui /\ q.was = e.was
      /\ q.pc = IF Cardinality(e.remove) > MaxRemoveSize \/ ~Pending(e) THEN "delete" ELSE "parents"
  BY <1>5, <1>6 DEF EndOfTurn
<1>8. C \subseteq Ids
  BY <1>3 DEF ChildrenOf
<1>9. e.remove \subseteq Ids /\ r.remove \subseteq Ids
  BY <1>2, <1>6, <1>8 DEF Unfinished
<1>10. ~(Cardinality(e.remove) > MaxRemoveSize)
  <2>1. IsFiniteSet(Ids)
    BY DEF TreeInv, RowsOK
  <2>2. IsFiniteSet(e.remove)
    BY <1>9, <2>1, FS_Subset
  <2>3. PICK n : n = Cardinality(e.remove) /\ n \in Nat
    BY <2>2, FS_CardinalityType
  <2>4. n <= MaxRemoveSize /\ MaxRemoveSize \in Nat
    BY <1>7, <2>3 DEF FitsAtOnce, ImportAssumption
  <2>5. ~(n > MaxRemoveSize)
    BY ONLY <2>3, <2>4
  <2> QED BY <2>3, <2>5
<1>11. (q.pc = "delete" /\ q.items = {} /\ q.containers = {}) \/ q.pc = "parents"
  BY <1>7, <1>10 DEF Pending
<1>12. (\A i \in Containers(C) : IsContainer(i)) /\ Containers(C) \subseteq C /\ \A i \in C \ Containers(C) : ~IsContainer(i)
  BY DEF Containers
<1>13. \A c \in r.containers : ChildrenOf({c}) \subseteq C
  BY <1>3 DEF ChildrenOf
<1>14. Unfinished(q)
  <2>1. \A c \in q.remove \ q.containers : IsContainer(c) => ChildrenOf({c}) \subseteq q.remove
    <3>1. SUFFICES ASSUME NEW c \in q.remove \ q.containers, IsContainer(c) PROVE ChildrenOf({c}) \subseteq r.remove \cup C
      BY <1>6, <1>7
    <3>2. c \in r.remove
      BY <1>6, <1>7, <1>12, <3>1
    <3> QED BY <1>2, <1>13, <3>1, <3>2 DEF Unfinished
  <2>2. \A i \in q.remove \ q.items : ~IsContainer(i) => RefsTo({i}) \subseteq q.remove
    <3>1. SUFFICES ASSUME NEW i \in q.remove \ q.items, ~IsContainer(i) PROVE RefsTo({i}) \subseteq r.remove
      BY <1>6, <1>7
    <3>2. i \in r.remove
      BY <1>6, <1>7, <1>12, <3>1
    <3> QED BY <1>2, <3>1, <3>2 DEF Unfinished
  <2> QED BY ZenonT(60), <1>6, <1>7, <1>8, <1>9, <1>12, <2>1, <2>2 DEF Unfinished
<1>15. Noted(q)
  <2>1. ParentsOf(C) \subseteq r.containers
    BY <1>3 DEF ParentsOf, ChildrenOf
  <2>2. ParentsOf(r.remove \cup C) = ParentsOf(r.remove) \cup ParentsOf(C)
    BY DEF ParentsOf
  <2>3. r.containers \subseteq r.remove
    BY <1>2 DEF Unfinished
  <2> QED BY <1>2, <1>6, <1>7, <2>1, <2>2, <2>3 DEF Noted
<1> QED BY <1>2, <1>6, <1>7, <1>11, <1>14, <1>15 DEF Collects, Purges

\* What is deleted is what was collected: nothing else hangs on it.
LEMMA DeleteWhole ==
    ASSUME TreeInv, InContainers(tree), NEW r, IsRemoval(r), NEW q, DeleteMove(r, q), Collects(r)
    PROVE  Collects(q)' /\ Purges(q)'
<1>1. PICK was : was = r.was /\ r \in RemovalRecords(was)
  BY DEF IsRemoval
<1>2. /\ tree = r.was /\ Unfinished(r) /\ Noted(r) /\ r.parents = {} /\ r.items = {} /\ r.containers = {}
  BY DEF DeleteMove, Collects
<1>3. PICK S \in SUBSET RowKeys : S = r.remove
  BY <1>1 DEF RemovalRecords
<1>4. S \subseteq Ids
  BY <1>2, <1>3 DEF Unfinished
<1>5. IsClosed(S)
  <2>1. ASSUME NEW i \in Ids, tree[i].parent \in S PROVE i \in S
    <3>1. PICK c \in S : c = tree[i].parent
      BY <2>1
    <3>2. i # CDS_ID_ROOT
      BY <3>1 DEF TreeInv, NothingDangles, RootsStay, Object, RowKeys
    <3>3. IsContainer(c)
      BY <3>1, <3>2 DEF InContainers, IsContainer, Ids
    <3>4. ChildrenOf({c}) \subseteq S
      BY <1>2, <1>3, <3>3 DEF Unfinished
    <3> QED BY <2>1, <3>1, <3>4 DEF ChildrenOf
  <2>2. ASSUME NEW i \in Ids, tree[i].ref \in S PROVE i \in S
    <3>1. PICK m \in S : m = tree[i].ref
      BY <2>2
    <3>2. m \in Nat /\ m # INVALID_OBJECT_ID
      BY DEF RowKeys
    <3>3. tree[m].type = "item"
      BY <3>1, <3>2 DEF TreeInv, NothingDangles, RefersToItem
    <3>4. ~IsContainer(m)
      BY <3>3 DEF IsContainer
    <3>5. RefsTo({m}) \subseteq S
      BY <1>2, <1>3, <3>4 DEF Unfinished
    <3> QED BY <2>2, <3>1, <3>5 DEF RefsTo
  <2> QED BY <2>1, <2>2 DEF IsClosed, ChildrenOf, RefsTo
<1>6. Cascade(S) = S
  <2>1. IsFiniteSet(Ids)
    BY DEF TreeInv, RowsOK
  <2>2. Cascade(S) \subseteq S
    BY <1>4, <1>5, <2>1, CascadeIsLeast
  <2>3. S \cap Ids \subseteq Cascade(S)
    BY <2>1, CascadeIsClosed
  <2> QED BY <1>4, <2>2, <2>3
<1>7. Ids' = Ids \ S
  <2>1. Delete(S)
    BY <1>3 DEF DeleteMove
  <2> QED BY <1>6, <2>1, DeleteKeeps
<1>8. q.pc = "upnp" /\ q.upnp = r.upnp /\ q.ui = r.ui /\ q.was = r.was
  BY <1>1, <1>2 DEF DeleteMove, Pending, RemovalRecords
<1>9. Losers(q)' \subseteq q.upnp \cup q.ui
  <2>1. SUFFICES ASSUME NEW c \in Ids', NEW i \in Before(q, {c}), i \notin Ids' PROVE c \in r.upnp \cup r.ui
    BY <1>8 DEF Losers
  <2>2. i \in S /\ i \in Ids /\ tree[i].parent = c
    BY <1>2, <1>7, <1>8, <2>1 DEF Before, Ids
  <2>3. c \in ParentsOf(r.remove) /\ c \notin r.remove
    BY <1>3, <1>7, <2>1, <2>2 DEF ParentsOf
  <2> QED BY <1>2, <2>3 DEF Noted
<1> QED BY <1>8, <1>9 DEF Collects, Purges

LEMMA LosersAreContainers ==
    ASSUME TreeInv, NEW r, Shrunk(r), InContainers(r.was)
    PROVE  \A c \in Losers(r) : IsContainer(c)
<1>1. SUFFICES ASSUME NEW c \in Losers(r) PROVE IsContainer(c)
  OBVIOUS
<1>2. PICK i \in DOMAIN r.was : r.was[i].parent = c /\ i \notin Ids
  BY DEF Losers, Before
<1>3. i # CDS_ID_ROOT
  BY <1>2 DEF TreeInv, NothingDangles, RootsStay, Roots
<1>4. c \in Ids /\ r.was[c].type \in {"dir", "virtual"}
  BY <1>2, <1>3 DEF Losers, InContainers
<1> QED BY <1>4 DEF Shrunk, IsContainer

\* Of containers those that are protected, those without children and the others.
LEMMA ThreeKinds ==
    ASSUME NEW S, NEW c \in S, IsContainer(c), tree[c].persistent \in BOOLEAN
    PROVE  /\ c \in Protected(S) \/ c \in Childless(S) \/ c \in Occupied(S)
           /\ c \in Protected(S) <=> tree[c].persistent
           /\ c \in Childless(S) => ChildrenOf({c}) = {}
           /\ c \in Occupied(S) => ChildrenOf({c}) # {}
BY DEF Protected, Childless, Occupied

LEMMA UpnpWhole ==
    ASSUME TreeInv, NEW r, IsRemoval(r), NEW q, UpnpMove(r, q), Shrunk(r), InContainers(r.was), Purges(r)
    PROVE  Collects(q) /\ Purges(q)
<1>1. PICK was : was = r.was /\ r \in RemovalRecords(was)
  BY DEF IsRemoval
<1>2. /\ q.pc = "ui" /\ q.was = r.was /\ q.changed = r.changed \cup Protected(r.upnp)
      /\ q.empty = Childless(r.upnp) /\ q.ui = r.ui \cup ParentsOf(Childless(r.upnp)) /\ q.upnp = Occupied(r.upnp)
  BY <1>1 DEF UpnpMove, RemovalRecords
<1>3. Losers(r) \subseteq r.upnp \cup r.ui \cup Guarded(r)
  BY DEF UpnpMove, Purges
<1>4. Losers(q) = Losers(r)
  BY <1>2 DEF Losers, Before
<1>5. Guarded(r) \subseteq Guarded(q)
  BY <1>2 DEF Guarded
<1>6. ASSUME NEW c \in Losers(q) PROVE c \in q.upnp \cup q.ui \cup q.empty \cup Guarded(q)
  <2>1. IsContainer(c) /\ tree[c].persistent \in BOOLEAN
    BY <1>4, LosersAreContainers DEF Losers, TreeInv, RowsOK, IsRow, Objects
  <2>2. CASE c \in r.upnp
    <3>1. c \in Protected(r.upnp) => c \in Guarded(q)
      BY <1>2, <2>1 DEF Guarded, Protected
    <3>2. c \in Protected(r.upnp) \/ c \in Childless(r.upnp) \/ c \in Occupied(r.upnp)
      BY <2>1, <2>2, ThreeKinds
    <3> QED BY <1>2, <3>1, <3>2
  <2>3. CASE c \in r.ui \/ c \in Guarded(r)
    BY <1>2, <1>5, <2>3
  <2> QED BY <1>3, <1>4, <2>2, <2>3
<1>7. (\A c \in q.empty : IsContainer(c) /\ ChildrenOf({c}) = {}) /\ \A c \in q.upnp : ChildrenOf({c}) # {}
  BY <1>2 DEF Childless, Occupied
<1>8. ParentsOf(q.empty) \subseteq q.ui
  BY <1>2
<1> QED BY <1>2, <1>6, <1>7, <1>8 DEF Collects, Purges

LEMMA DoneWhole ==
    ASSUME TreeInv, NEW r, IsRemoval(r), NEW q, DoneMove(r, q), Shrunk(r), InContainers(r.was), Purges(r)
    PROVE  Collects(q) /\ Purges(q)
<1>1. PICK was : was = r.was /\ r \in RemovalRecords(was)
  BY DEF IsRemoval
<1>2. /\ q.pc = "done" /\ q.was = r.was /\ r.empty = {} /\ Childless(r.ui) = {}
      /\ q.changed = r.changed \cup Protected(r.ui) \cup (Occupied(r.ui) \cup ParentsOf(Childless(r.ui))) \cup r.upnp
  BY <1>1 DEF DoneMove, RemovalRecords
<1>3. Losers(r) \subseteq r.upnp \cup r.ui \cup Guarded(r) /\ \A c \in r.upnp : ChildrenOf({c}) # {}
  BY <1>2 DEF DoneMove, Purges
<1>4. Losers(q) = Losers(r)
  BY <1>2 DEF Losers, Before
<1>5. ASSUME NEW c \in Losers(q) PROVE c \in q.changed /\ (ChildrenOf({c}) # {} \/ tree[c].persistent)
  <2>1. IsContainer(c) /\ tree[c].persistent \in BOOLEAN
    BY <1>4, LosersAreContainers DEF Losers, TreeInv, RowsOK, IsRow, Objects
  <2>2. CASE c \in r.upnp
    BY <1>2, <1>3, <2>2
  <2>3. CASE c \in r.ui
    <3>1. c \in Protected(r.ui) \/ c \in Occupied(r.ui)
      BY <1>2, <2>1, <2>3, ThreeKinds
    <3>2. c \in Protected(r.ui) => tree[c].persistent
      BY DEF Protected
    <3>3. c \in Occupied(r.ui) => ChildrenOf({c}) # {}
      BY DEF Occupied
    <3> QED BY <1>2, <3>1, <3>2, <3>3
  <2>4. CASE c \in Guarded(r)
    BY <1>2, <2>4 DEF Guarded
  <2> QED BY <1>3, <1>4, <2>2, <2>3, <2>4
<1> QED BY <1>2, <1>5 DEF Collects, Purges

LEMMA UiWhole ==
    ASSUME TreeInv, InContainers(tree), NEW r, IsRemoval(r), NEW q, UiMove(r, q), Shrunk(r), InContainers(r.was),
           Purges(r)
    PROVE  Collects(q) /\ Purges(q)
<1>1. PICK was : was = r.was /\ r \in RemovalRecords(was)
  BY DEF IsRemoval
<1>2. /\ q.pc = "purge" /\ q.was = r.was /\ q.empty = r.empty \cup Childless(r.ui) /\ q.upnp = r.upnp
      /\ q.ui = Occupied(r.ui) \cup ParentsOf(Childless(r.ui)) /\ q.changed = r.changed \cup Protected(r.ui)
  BY <1>1 DEF UiMove, RemovalRecords
<1>3. /\ Losers(r) \subseteq r.upnp \cup r.ui \cup r.empty \cup Guarded(r)
      /\ \A c \in r.empty : IsContainer(c) /\ ChildrenOf({c}) = {}
      /\ ParentsOf(r.empty) \subseteq r.ui
  BY DEF UiMove, Purges
<1>4. Losers(q) = Losers(r)
  BY <1>2 DEF Losers, Before
<1>5. Guarded(r) \subseteq Guarded(q)
  BY <1>2 DEF Guarded
<1>6. \A c : c \in Protected(r.ui) => c \in Guarded(q)
  BY <1>2 DEF Guarded, Protected
<1>7. ASSUME NEW c \in Losers(q) PROVE c \in q.upnp \cup q.ui \cup q.empty \cup Guarded(q)
  <2>1. IsContainer(c) /\ tree[c].persistent \in BOOLEAN
    BY <1>4, LosersAreContainers DEF Losers, TreeInv, RowsOK, IsRow, Objects
  <2>2. CASE c \in r.ui
    BY <1>2, <1>6, <2>1, <2>2, ThreeKinds
  <2>3. CASE c \in r.upnp \cup r.empty \cup Guarded(r)
    BY <1>2, <1>5, <2>3
  <2> QED BY <1>3, <1>4, <2>2, <2>3
<1>8. \A c \in q.empty : IsContainer(c) /\ ChildrenOf({c}) = {}
  BY <1>2, <1>3 DEF Childless
<1>9. ASSUME NEW i \in r.empty PROVE tree[i].parent \in q.ui \cup Guarded(q)
  <2>1. i \in Ids /\ i # CDS_ID_ROOT
    BY <1>1, <1>3 DEF IsContainer, RemovalRecords, RowKeys, Roots
  <2>2. PICK c : c = tree[i].parent
    OBVIOUS
  <2>3. IsContainer(c) /\ tree[c].persistent \in BOOLEAN
    BY <2>1, <2>2 DEF InContainers, IsContainer, Ids, TreeInv, RowsOK, IsRow, Objects
  <2>4. c \in r.ui /\ ChildrenOf({c}) # {}
    BY <1>3, <2>1, <2>2 DEF ParentsOf, ChildrenOf
  <2>5. c \in Protected(r.ui) \/ c \in Occupied(r.ui)
    BY <2>3, <2>4, ThreeKinds
  <2> QED BY <1>2, <1>6, <2>2, <2>5
<1>10. ParentsOf(q.empty) \subseteq q.ui \cup Guarded(q)
  <2>1. ParentsOf(q.empty) = ParentsOf(r.empty) \cup ParentsOf(Childless(r.ui))
    BY <1>2 DEF ParentsOf
  <2>2. ParentsOf(r.empty) \subseteq q.ui \cup Guarded(q)
    BY <1>9 DEF ParentsOf
  <2> QED BY <1>2, <2>1, <2>2
<1> QED BY <1>2, <1>7, <1>8, <1>10 DEF Collects, Purges

LEMMA PurgeWhole ==
    ASSUME TreeInv, NEW r, IsRemoval(r), NEW q, PurgeMove(r, q), Shrunk(r), Purges(r)
    PROVE  Collects(q)' /\ Purges(q)'
<1>1. PICK was : was = r.was /\ r \in RemovalRecords(was)
  BY DEF IsRemoval
<1>2. /\ q.pc = (IF r.upnp \cup r.ui = {} THEN "done" ELSE "upnp") /\ q.was = r.was
      /\ q.upnp = r.upnp /\ q.ui = r.ui /\ q.changed = r.changed
  BY <1>1 DEF PurgeMove, RemovalRecords
<1>3. /\ Losers(r) \subseteq r.upnp \cup r.ui \cup r.empty \cup Guarded(r)
      /\ \A c \in r.empty : IsContainer(c) /\ ChildrenOf({c}) = {}
      /\ ParentsOf(r.empty) \subseteq r.ui \cup Guarded(r)
  BY DEF PurgeMove, Purges
<1>4. PICK S \in SUBSET RowKeys : S = r.empty
  BY <1>1 DEF RemovalRecords
<1>5. S \subseteq Ids
  BY <1>3, <1>4 DEF IsContainer
<1>6. IsClosed(S)
  <2>1. ASSUME NEW i \in Ids, tree[i].parent \in S PROVE FALSE
    BY <1>3, <1>4, <2>1 DEF ChildrenOf
  <2>2. ASSUME NEW i \in Ids, tree[i].ref \in S PROVE FALSE
    <3>1. PICK m \in S : m = tree[i].ref
      BY <2>2
    <3>2. m \in Nat /\ m # INVALID_OBJECT_ID
      BY DEF RowKeys
    <3>3. tree[m].type = "item"
      BY <3>1, <3>2 DEF TreeInv, NothingDangles, RefersToItem
    <3> QED BY <1>3, <1>4, <3>3 DEF IsContainer
  <2> QED BY <2>1, <2>2 DEF IsClosed, ChildrenOf, RefsTo
<1>7. Cascade(S) = S
  <2>1. IsFiniteSet(Ids)
    BY DEF TreeInv, RowsOK
  <2>2. Cascade(S) \subseteq S
    BY <1>5, <1>6, <2>1, CascadeIsLeast
  <2>3. S \cap Ids \subseteq Cascade(S)
    BY <2>1, CascadeIsClosed
  <2> QED BY <1>5, <2>2, <2>3
<1>8. Ids' = Ids \ S /\ \A i \in Ids' : tree'[i] = tree[i]
  <2>1. Delete(S)
    BY <1>4 DEF PurgeMove
  <2> QED BY <1>7, <2>1, DeleteKeeps
<1>9. \A c \in Guarded(r) \cap Ids' : c \in Guarded(q)' /\ c \in q.changed /\ tree'[c].persistent
  BY <1>2, <1>8 DEF Guarded, IsContainer
<1>10. ASSUME NEW c \in Losers(q)' PROVE c \in q.upnp \cup q.ui \cup (Guarded(r) \cap Ids')
  <2>1. c \in Ids' /\ c \in DOMAIN r.was
    BY <1>2, <1>10 DEF Losers
  <2>2. PICK i \in DOMAIN r.was : r.was[i].parent = c /\ i \notin Ids'
    BY <1>2, <1>10 DEF Losers, Before
  <2>3. CASE i \in Ids
    <3>1. i \in S /\ tree[i].parent = c
      BY <1>8, <2>2, <2>3 DEF Shrunk
    <3>2. c \in ParentsOf(r.empty)
      BY <1>4, <2>3, <3>1 DEF ParentsOf
    <3> QED BY <1>2, <1>3, <2>1, <3>2
  <2>4. CASE i \notin Ids
    <3>1. c \in Losers(r) /\ c \notin r.empty
      BY <1>4, <1>8, <2>1, <2>2, <2>4 DEF Losers, Before
    <3> QED BY <1>2, <1>3, <2>1, <3>1
  <2> QED BY <2>3, <2>4
<1>11. CASE q.pc = "upnp"
  BY <1>9, <1>10, <1>11 DEF Collects, Purges
<1>12. CASE q.pc = "done"
  <2>1. q.upnp \cup q.ui = {}
    BY <1>2, <1>12
  <2> QED BY <1>9, <1>10, <1>12, <2>1 DEF Collects, Purges
<1> QED BY <1>2, <1>11, <1>12

\* What was below rows, or referred to them, is in any set with them that has
\* the children of its rows and what refers to them.
LEMMA RelatedIsLeast ==
    ASSUME NEW S, NEW rows, NEW X, IsFiniteSet(DOMAIN rows), S \subseteq X,
           \A i \in DOMAIN rows : rows[i].parent \in X \/ rows[i].ref \in X => i \in X
    PROVE  Related(S, rows) \subseteq X
<1> DEFINE N == Cardinality(DOMAIN rows)
           V == SUBSET X
           G == [R \in V |-> R \cup {i \in DOMAIN rows : rows[i].parent \in R \/ rows[i].ref \in R}]
           reached[n \in 0 .. Cardinality(DOMAIN rows)] ==
               IF n = 0 THEN S
               ELSE LET R == reached[n - 1]
                    IN R \cup {i \in DOMAIN rows : rows[i].parent \in R \/ rows[i].ref \in R}
<1>1. Related(S, rows) = reached[N]
  BY DEF Related
<1>2. N \in Nat
  BY FS_CardinalityType
<1>3. G \in [V -> V]
  OBVIOUS
<1>4. PICK f \in [0 .. N -> V] : Iterates(f, N, S, G)
  <2>1. S \in V
    OBVIOUS
  <2> HIDE DEF N, V, G
  <2> QED BY <1>2, <1>3, <2>1, IterationExists
<1>5. PICK g : /\ Related(S, rows) = g[N]
               /\ g = [n \in 0 .. Cardinality(DOMAIN rows) |->
                          IF n = 0 THEN S
                          ELSE LET R == g[n - 1]
                               IN R \cup {i \in DOMAIN rows : rows[i].parent \in R \/ rows[i].ref \in R}]
  <2>1. \A n \in 0 .. N : n # 0 => f[n - 1] \in V
    BY <1>2
  <2>2. \A n \in 0 .. N : f[n] = IF n = 0 THEN S ELSE G[f[n - 1]]
    BY <1>4 DEF Iterates
  <2>3. f = [n \in 0 .. Cardinality(DOMAIN rows) |->
                IF n = 0 THEN S
                ELSE LET R == f[n - 1]
                     IN R \cup {i \in DOMAIN rows : rows[i].parent \in R \/ rows[i].ref \in R}]
    BY <1>4, <2>1, <2>2
  <2>4. reached = [n \in 0 .. Cardinality(DOMAIN rows) |->
                      IF n = 0 THEN S
                      ELSE LET R == reached[n - 1]
                           IN R \cup {i \in DOMAIN rows : rows[i].parent \in R \/ rows[i].ref \in R}]
    BY ZenonT(60), <2>3
  <2> HIDE DEF reached
  <2> QED BY <1>1, <2>4
<1>6. g[0] = S
  BY <1>2, <1>5
<1>7. ASSUME NEW n \in 0 .. N, n + 1 \in 0 .. N, g[n] \in V PROVE g[n + 1] = G[g[n]]
  <2>1. n + 1 # 0 /\ (n + 1) - 1 = n
    BY <1>2
  <2>2. g[n + 1] = g[n] \cup {i \in DOMAIN rows : rows[i].parent \in g[n] \/ rows[i].ref \in g[n]}
    BY <1>5, <1>7, <2>1
  <2> QED BY <1>7, <2>2
<1>8. Agree(f, g, N)
  <2>1. Follows(g, N, S, G, V)
    BY <1>6, <1>7 DEF Follows
  <2> HIDE DEF N, V, G
  <2> QED BY <1>2, <1>4, <2>1, IterationUnique
<1>9. N \in 0 .. N
  BY <1>2
<1>10. g[N] \in V
  BY <1>8, <1>9 DEF Agree
<1> QED BY <1>5, <1>10

\* With what was asked for, what was below it and what referred to it is gone.
LEMMA GoneWithAll ==
    ASSUME TreeInv, NEW t, NEW r, r = removal[t], IsRemoval(r), InRemoval(t, "done") => OnItsWay(r)
    PROVE  AllGone(t)
<1> DEFINE X == r.listed \cup (DOMAIN r.was \ Ids)
<1>1. SUFFICES ASSUME InRemoval(t, "done"), ~IsMixed(r) PROVE Ids \cap Related(r.listed, r.was) = {}
  BY DEF AllGone
<1>2. Shrunk(r) /\ r.listed \cap Ids = {} /\ r.listed \subseteq RowKeys
  BY <1>1 DEF OnItsWay, Taken, Left, InRemoval, IsRemoval, RemovalRecords
<1>3. X \cap Ids = {}
  BY <1>2
<1>4. ASSUME NEW i \in DOMAIN r.was, r.was[i].parent \in X \/ r.was[i].ref \in X PROVE i \in X
  <2>1. SUFFICES ASSUME i \in Ids PROVE FALSE
    OBVIOUS
  <2>2. tree[i].parent \in X \/ tree[i].ref \in X
    BY <1>2, <1>4, <2>1 DEF Shrunk
  <2>3. X \subseteq Nat
    BY <1>2 DEF Shrunk, RowKeys
  <2>4. tree[i].parent \in Ids \/ tree[i].parent = -1
    BY <2>1 DEF TreeInv, NothingDangles, HasParent, RootsStay, Object
  <2>5. tree[i].ref \in Ids \/ tree[i].ref = INVALID_OBJECT_ID
    BY <2>1 DEF TreeInv, NothingDangles, RefersToItem
  <2> QED BY <1>3, <2>2, <2>3, <2>4, <2>5
<1>5. Related(r.listed, r.was) \subseteq X
  <2>1. r.listed \subseteq X /\ IsFiniteSet(DOMAIN r.was)
    BY <1>2 DEF Shrunk
  <2> HIDE DEF X
  <2> QED BY <1>4, <2>1, RelatedIsLeast
<1> QED BY <1>3, <1>5

LEMMA WholeStays ==
    ASSUME ImportAssumption, TreeInv, InContainers(tree), NEW r, IsRemoval(r), NEW q, Moves(r, q),
           OnItsWay(r), WholeSoFar(r), FitsAtOnce(q)
    PROVE  WholeSoFar(q)'
<1>1. q.was = r.was /\ q.listed = r.listed /\ Shrunk(r)
  BY RemovalStays DEF OnItsWay
<1>2. InContainers(r.was) /\ (~IsMixed(r) => Collects(r) /\ Purges(r))
  BY DEF WholeSoFar
<1>3. ASSUME ~IsMixed(r) => Collects(q)' /\ Purges(q)' PROVE WholeSoFar(q)'
  BY <1>1, <1>2, <1>3 DEF WholeSoFar, IsMixed, InContainers
<1>4. CASE IsMixed(r)
  BY <1>3, <1>4
<1>5. CASE ~IsMixed(r)
  <2>1. Collects(r) /\ Purges(r)
    BY <1>2, <1>5
  <2>2. ASSUME UNCHANGED tree, Collects(q), Purges(q) PROVE WholeSoFar(q)'
    BY <1>3, <2>2, SameTreeWhole
  <2>a. /\ TypesMove(r, q) \/ SignalsMove(r, q) \/ ParentsMove(r, q) \/ ReferencesMove(r, q) => UNCHANGED tree
        /\ ChildrenMove(r, q) \/ UpnpMove(r, q) \/ DoneMove(r, q) \/ UiMove(r, q) => UNCHANGED tree
    BY DEF TypesMove, SignalsMove, ParentsMove, ReferencesMove, ChildrenMove, UpnpMove, DoneMove, UiMove
  <2>3. CASE TypesMove(r, q)
    BY <1>1, <1>5, <2>1, <2>2, <2>a, <2>3, TypesWhole
  <2>4. CASE SignalsMove(r, q)
    BY <2>1, <2>2, <2>a, <2>4, SignalsWhole
  <2>5. CASE ParentsMove(r, q)
    BY <2>1, <2>2, <2>a, <2>5, ParentsWhole
  <2>6. CASE ReferencesMove(r, q)
    BY <2>1, <2>2, <2>a, <2>6, ReferencesWhole
  <2>7. CASE ChildrenMove(r, q)
    BY <2>1, <2>2, <2>a, <2>7, ChildrenWhole
  <2>8. CASE DeleteMove(r, q)
    BY <1>3, <2>1, <2>8, DeleteWhole
  <2>9. CASE UpnpMove(r, q)
    BY <1>1, <1>2, <2>1, <2>2, <2>a, <2>9, UpnpWhole
  <2>10. CASE DoneMove(r, q)
    BY <1>1, <1>2, <2>1, <2>2, <2>a, <2>10, DoneWhole
  <2>11. CASE UiMove(r, q)
    BY <1>1, <1>2, <2>1, <2>2, <2>a, <2>11, UiWhole
  <2>12. CASE PurgeMove(r, q)
    BY <1>1, <1>3, <2>1, <2>12, PurgeWhole
  <2> QED BY <2>3, <2>4, <2>5, <2>6, <2>7, <2>8, <2>9, <2>10, <2>11, <2>12 DEF Moves
<1> QED BY <1>4, <1>5

LEMMA FreshIsWhole ==
    ASSUME InContainers(tree), UNCHANGED tree, NEW r, Fresh(r) PROVE WholeSoFar(r)'
<1>1. r.was = tree /\ r.pc = "types"
  BY NewRemovals DEF Fresh
<1>2. InContainers(r.was)
  BY <1>1
<1>3. InContainers(r.was)'
  BY <1>2 DEF InContainers
<1>4. Collects(r)' /\ Purges(r)'
  BY <1>1 DEF Collects, Purges
<1> QED BY <1>3, <1>4 DEF WholeSoFar

LEMMA WholeKeeps ==
    ASSUME ImportAssumption, IInv, SequentialInv, InContainers(tree), WholeInv, [TreeNext]_vars,
           \A t \in Threads : FitsAtOnce(removal[t])'
    PROVE  WholeInv'
<1>1. InTurn
  BY StepsInTurn DEF SequentialInv
<1>2. ASSUME NEW t \in Threads, Active(t)' PROVE WholeSoFar(removal[t])'
  <2>1. CASE Fresh(removal'[t]) /\ UNCHANGED tree
    <3>1. PICK r : r = removal'[t]
      OBVIOUS
    <3>2. WholeSoFar(r)'
      BY <2>1, <3>1, FreshIsWhole
    <3> QED BY <3>1, <3>2
  <2>2. CASE Active(t) /\ removalStep(t)
    <3>1. PICK r, q : r = removal[t] /\ q = removal'[t]
      OBVIOUS
    <3>2. Moves(r, q) /\ IsRemoval(r) /\ OnItsWay(r) /\ WholeSoFar(r)
      BY <2>2, <3>1, RemovalMoves DEF SequentialInv, IInv, RemovalInv, WholeInv
    <3>3. FitsAtOnce(q)
      BY <3>1 DEF FitsAtOnce
    <3>4. WholeSoFar(q)'
      BY <3>2, <3>3, WholeStays DEF IInv
    <3> QED BY <3>1, <3>4
  <2>3. CASE Active(t) /\ removal'[t] = removal[t] /\ UNCHANGED tree
    <3>1. PICK r : r = removal[t] /\ r = removal'[t]
      BY <2>3
    <3>2. WholeSoFar(r)
      BY <2>3, <3>1 DEF WholeInv
    <3>3. WholeSoFar(r)'
      BY <2>3, <3>2, SameTreeWhole DEF WholeSoFar, IsMixed, InContainers
    <3> QED BY <3>1, <3>3
  <2> QED BY <1>1, <1>2, <2>1, <2>2, <2>3 DEF InTurn, Advances
<1> QED BY <1>2 DEF WholeInv

\* At its end it has reported what lost a child, and left nothing empty.
LEMMA WholeIsReported ==
    ASSUME TreeInv, NEW t, NEW r, r = removal[t], InRemoval(t, "done") => OnItsWay(r) /\ WholeSoFar(r)
    PROVE  NoneLeftEmpty(t) /\ LosersReported(t)
<1>1. SUFFICES ASSUME InRemoval(t, "done"), ~IsMixed(r)
               PROVE  /\ {c \in Ids \cap DOMAIN r.was : Before(r, {c}) \ Ids # {}} \subseteq r.changed
                      /\ \A c \in Ids \cap DOMAIN r.was :
                             Before(r, {c}) # {} /\ ChildrenOf({c}) = {} => tree[c].persistent
  BY DEF NoneLeftEmpty, LosersReported
<1>2. Losers(r) \subseteq r.changed /\ \A c \in Losers(r) : ChildrenOf({c}) # {} \/ tree[c].persistent
  BY <1>1 DEF InRemoval, WholeSoFar, Purges
<1>3. ASSUME NEW c \in Ids \cap DOMAIN r.was, Before(r, {c}) # {}, ChildrenOf({c}) = {} PROVE c \in Losers(r)
  <2>1. PICK i \in DOMAIN r.was : r.was[i].parent = c
    BY <1>3 DEF Before
  <2>2. i \notin Ids
    BY <1>1, <1>3, <2>1 DEF OnItsWay, Shrunk, ChildrenOf
  <2> QED BY <2>1, <2>2 DEF Losers, Before
<1> QED BY <1>2, <1>3 DEF Losers

LEMMA SoundIsInContainers ==
    ASSUME TreeInv, TreeIsSound PROVE InContainers(tree)
BY DEF TreeIsSound, IsContainer, InContainers, Ids

-------------------------------------------------------------------------------
(* Theorems.                                                               *)

\* The inductive invariant holds, however the threads' statements interleave.
THEOREM ImportInvariant == Spec => []IInv
<1>1. Init => IInv
  BY ImportAssumption, ImportInit
<1>2. IInv /\ [Next]_vars => IInv'
  BY ImportAssumption, StepKeeps
<1> QED BY <1>1, <1>2, PTL DEF Spec

\* The rows, the removals, the caches and the import are of their types, with
\* however many threads at work on them.
THEOREM TypeCorrect == Spec => []ImportTypeOK
<1>1. IInv => ImportTypeOK
  <2>1. SUFFICES ASSUME IInv PROVE ImportTypeOK
    OBVIOUS
  <2>2. ASSUME NEW t \in Threads PROVE removal[t] \in Removals(removal[t].was)
    <3>1. PICK r, was : r = removal[t] /\ was = r.was /\ r \in RemovalRecords(was)
      BY <2>1 DEF IInv, RemovalInv, IsRemoval
    <3>2. r \in Removals(was)
      <4>1. RowKeys \subseteq Int
        BY DEF RowKeys
      <4> QED BY <3>1, <4>1 DEF RemovalRecords, Removals
    <3> QED BY <3>1, <3>2
  <2>3. TreeTypeOK
    BY <2>1, <2>2 DEF TreeTypeOK, IInv, TreeInv, RowsOK, IsRow
  <2>4. /\ import.pc \in ImportPCs /\ import.list \subseteq Nat /\ import.parent \in Keys
        /\ import.object \in [Entries -> Keys] /\ import.todo \subseteq Entries
    <3>1. PICK m : m = import /\ m \in ImportRecords
      BY <2>1 DEF IInv, ImportInv, ImportOK
    <3>2. /\ m.pc \in ImportPCs /\ m.list \subseteq Nat /\ m.parent \in Keys
          /\ m.object \in [Entries -> Keys] /\ m.todo \subseteq Entries
      BY <3>1 DEF ImportRecords, RowKeys
    <3> QED BY <3>1, <3>2
  <2>5. adirId \in Keys
    BY <2>1 DEF IInv, StateInv, NonRoots, RowKeys, Keys
  <2> QED BY <2>1, <2>3, <2>4, <2>5 DEF ImportTypeOK, IInv, StateInv
<1> QED BY <1>1, ImportInvariant, PTL

\* No row dangles: below each row but the root there is one, and each reference
\* refers to an item, whatever the threads add and remove at the same time.
THEOREM NoRowDangles == Spec => []NothingDangles
<1>1. IInv => NothingDangles
  BY DEF IInv, TreeInv
<1> QED BY <1>1, ImportInvariant, PTL

\* Removals come one after the other, and each that is not of items and
\* containers at once is on its way.
THEOREM SequentialInvariant == SequentialSpec => [](IInv /\ SequentialInv)
<1>1. Init => IInv /\ SequentialInv
  <2>1. ASSUME Init PROVE IInv /\ SequentialInv
    <3>1. IInv
      BY <2>1, ImportAssumption, ImportInit
    <3>2. PICK n : n = NoRemoval /\ n.pc = "idle"
      BY NewRemovals
    <3>3. \A t \in Threads : ~Active(t)
      BY <2>1, <3>2 DEF Init, Active
    <3>4. IdleImport
      BY <2>1, NoImportOK DEF Init, IdleImport, NoTask
    <3> QED BY <3>1, <3>3, <3>4 DEF SequentialInv, Alone
  <2> QED BY <2>1
<1>2. IInv /\ SequentialInv /\ [TreeNext]_vars => (IInv /\ SequentialInv)'
  BY ImportAssumption, StepKeeps, TreeStepIsStep, SequentialKeeps
<1> QED BY <1>1, <1>2, PTL DEF SequentialSpec

\* After a removal nothing is left of what it was asked to remove, of what was
\* below that, nor of what referred to it, in however many parts it deleted them.
THEOREM RemovedIsGone == SequentialSpec => [](\A t \in Threads : AllGone(t))
<1>1. IInv /\ SequentialInv => \A t \in Threads : AllGone(t)
  <2>1. SUFFICES ASSUME IInv, SequentialInv, NEW t \in Threads PROVE AllGone(t)
    OBVIOUS
  <2>2. PICK r : r = removal[t]
    OBVIOUS
  <2>3. IsRemoval(r) /\ (InRemoval(t, "done") => OnItsWay(r))
    BY <2>1, <2>2 DEF SequentialInv, Active, InRemoval, IInv, RemovalInv
  <2> QED BY <2>1, <2>2, <2>3, GoneWithAll DEF IInv
<1> QED BY <1>1, SequentialInvariant, PTL

\* Such a removal leaves nothing of what it was asked to remove, no container
\* empty that it emptied, and reports each container that lost an object: as long
\* as rows are below containers (TreeIsSound, an invariant of the runs) and each
\* removal deletes what it has collected at once.
Sound == TreeIsSound /\ \A t \in Threads : FitsAtOnce(removal[t])
THEOREM RemovalsAreWhole == SequentialSpec /\ []Sound => []RemovalIsWhole
<1>1. Init => WholeInv
  <2>1. ASSUME Init, NEW t \in Threads PROVE ~Active(t)
    <3>1. PICK n : n = NoRemoval /\ n.pc = "idle"
      BY NewRemovals
    <3> QED BY <2>1, <3>1 DEF Init, Active
  <2> QED BY <2>1 DEF WholeInv
<1>2. IInv /\ SequentialInv /\ Sound /\ Sound' /\ WholeInv /\ [TreeNext]_vars => WholeInv'
  <2>1. SUFFICES ASSUME IInv, SequentialInv, Sound, Sound', WholeInv, [TreeNext]_vars PROVE WholeInv'
    OBVIOUS
  <2>2. InContainers(tree) /\ \A t \in Threads : FitsAtOnce(removal[t])'
    BY <2>1, SoundIsInContainers DEF Sound, IInv
  <2> QED BY <2>1, <2>2, ImportAssumption, WholeKeeps
<1>3. IInv /\ SequentialInv /\ WholeInv => RemovalIsWhole
  <2>1. SUFFICES ASSUME IInv, SequentialInv, WholeInv, NEW t \in Threads
                 PROVE  AllGone(t) /\ NoneLeftEmpty(t) /\ LosersReported(t)
    BY DEF RemovalIsWhole
  <2>2. PICK r : r = removal[t]
    OBVIOUS
  <2>3. /\ IsRemoval(r) /\ TreeInv
        /\ InRemoval(t, "done") => OnItsWay(r) /\ WholeSoFar(r)
    BY <2>1, <2>2 DEF SequentialInv, WholeInv, Active, InRemoval, IInv, RemovalInv
  <2> QED BY <2>2, <2>3, GoneWithAll, WholeIsReported
<1> QED BY <1>1, <1>2, <1>3, SequentialInvariant, PTL DEF SequentialSpec
=============================================================================
