------------------------- MODULE ClusterLayoutProofs -------------------------
(***************************************************************************)
(* The layout of any forest with any list of vectors is the same forest in *)
(* levels.  The invariant WalkInv relates every place in `bfs' to the place   *)
(* of the parent of the vertex there: it is earlier, it ascends with the   *)
(* places of the children, and the level is one more.  In the end every    *)
(* vertex has a place, which is its new number.                            *)
(*                                                                         *)
(* What the layout hands over (Delivered) is all that the parent LOUDS     *)
(* needs of a cluster: parents never decrease, so the one bit of a vertex  *)
(* is at its number plus its parent's (Place), and the ones come in the    *)
(* order of the vertices.  The invariant LoudsInv says how far each loop   *)
(* of ParentLouds has come among those places.                             *)
(***************************************************************************)
EXTENDS ParentLouds, FiniteSetTheorems, WellFoundedInduction, TLAPS

Below(c, T, x) == {y \in T : ChildLess(c, y, x)}

-----------------------------------------------------------------------------
(***************************************************************************)
(* Sorting.                                                                *)
(***************************************************************************)
LEMMA ForestFacts ==
    ASSUME NEW c, IsForest(c)
    PROVE  /\ c.nv \in Nat /\ c.nr \in Nat
           /\ Total(c) \in Nat /\ Total(c) > 0 /\ Total(c) = c.nv + c.nr
           /\ Locals(c) = 0 .. Total(c) - 1
           /\ \A u \in Locals(c) : c.parent[u] \in 0 .. Total(c)
           /\ \A u \in Locals(c) : u < c.nv => c.parent[u] = 0
           /\ \A k \in 0 .. c.nr - 1 : c.indices[k] \in Nat
           /\ IsFiniteSet(Locals(c)) /\ Cardinality(Locals(c)) = Total(c)
           /\ \A T \in SUBSET Locals(c) : IsFiniteSet(T) /\ Cardinality(T) \in Nat
  <1>1. /\ c.nv \in Nat /\ c.nr \in Nat
        /\ Total(c) \in Nat /\ Total(c) > 0 /\ Total(c) = c.nv + c.nr
    BY DEF IsForest, Total
  <1>2. Locals(c) = 0 .. Total(c) - 1
    BY DEF Locals
  <1>3. IsFiniteSet(Locals(c)) /\ Cardinality(Locals(c)) = Total(c)
    <2>1. 0 \in Int /\ Total(c) - 1 \in Int /\ ~(0 > Total(c) - 1)
      BY <1>1
    <2>2. /\ IsFiniteSet(0 .. Total(c) - 1)
          /\ Cardinality(0 .. Total(c) - 1) = Total(c) - 1 - 0 + 1
      BY <2>1, FS_Interval
    <2> QED BY <2>2, <1>1, <1>2
  <1>4. \A T \in SUBSET Locals(c) : IsFiniteSet(T) /\ Cardinality(T) \in Nat
    BY <1>3, FS_Subset, FS_CardinalityType
  <1>5. /\ \A u \in Locals(c) : c.parent[u] \in 0 .. Total(c)
        /\ \A u \in Locals(c) : u < c.nv => c.parent[u] = 0
        /\ \A k \in 0 .. c.nr - 1 : c.indices[k] \in Nat
    BY DEF IsForest, Virtual
  <1> QED BY <1>1, <1>2, <1>3, <1>4, <1>5

LEMMA KeyFacts ==
    ASSUME NEW c, IsForest(c), NEW u \in Locals(c)
    PROVE  u \in Nat /\ StableKeyForLocal(c, u) \in Nat
  <1>1. u \in Nat /\ u < c.nv + c.nr /\ c.nv \in Nat /\ c.nr \in Nat
    BY ForestFacts
  <1>2. CASE u < c.nv
    BY <1>1, <1>2 DEF StableKeyForLocal, Virtual
  <1>3. CASE ~(u < c.nv)
    <2>1. u - c.nv \in 0 .. c.nr - 1
      BY <1>1, <1>3
    <2>2. c.indices[u - c.nv] \in Nat
      BY <2>1, ForestFacts
    <2> QED BY <1>1, <1>3, <2>2 DEF StableKeyForLocal, Virtual
  <1> QED BY <1>2, <1>3

\* child_less is a strict total order.
LEMMA LessOrder ==
    ASSUME NEW c, IsForest(c)
    PROVE  /\ \A a \in Locals(c) : ~ChildLess(c, a, a)
           /\ \A a, b \in Locals(c) : ChildLess(c, a, b) \/ a = b \/ ChildLess(c, b, a)
           /\ \A a, b, d \in Locals(c) :
                 ChildLess(c, a, b) /\ ChildLess(c, b, d) => ChildLess(c, a, d)
  <1>1. \A u \in Locals(c) : u \in Nat /\ StableKeyForLocal(c, u) \in Nat
    BY KeyFacts
  <1>2. \A a \in Locals(c) : ~ChildLess(c, a, a)
    BY <1>1 DEF ChildLess
  <1>3. ASSUME NEW a \in Locals(c), NEW b \in Locals(c)
        PROVE  ChildLess(c, a, b) \/ a = b \/ ChildLess(c, b, a)
    BY <1>1 DEF ChildLess
  <1>4. ASSUME NEW a \in Locals(c), NEW b \in Locals(c), NEW d \in Locals(c),
               ChildLess(c, a, b), ChildLess(c, b, d)
        PROVE  ChildLess(c, a, d)
    BY <1>1, <1>4 DEF ChildLess
  <1> QED BY <1>2, <1>3, <1>4

LEMMA RankGrows ==
    ASSUME NEW c, IsForest(c), NEW T \in SUBSET Locals(c),
           NEW x \in T, NEW y \in T, ChildLess(c, x, y)
    PROVE  Cardinality(Below(c, T, x)) < Cardinality(Below(c, T, y))
  <1> DEFINE B == Below(c, T, y)
  <1>1. \A z \in T : z \in Locals(c)
    OBVIOUS
  <1>2. Below(c, T, x) \in SUBSET B
    BY <1>1, LessOrder DEF Below
  <1>3. x \in B /\ x \notin Below(c, T, x)
    BY <1>1, LessOrder DEF Below
  <1>4. B \in SUBSET Locals(c) /\ Below(c, T, x) \in SUBSET Locals(c)
    BY DEF Below
  <1>5. IsFiniteSet(B) /\ Cardinality(B) \in Nat /\ Cardinality(Below(c, T, x)) \in Nat
    BY <1>4, ForestFacts
  <1> HIDE DEF B
  <1>6. /\ Cardinality(Below(c, T, x)) <= Cardinality(B)
        /\ Cardinality(B) = Cardinality(Below(c, T, x)) => B = Below(c, T, x)
    BY <1>2, <1>5, FS_Subset
  <1>7. B # Below(c, T, x)
    BY <1>3
  <1>8. Cardinality(Below(c, T, x)) < Cardinality(B)
    BY <1>5, <1>6, <1>7
  <1> QED BY <1>8 DEF B

LEMMA SortedIs ==
    ASSUME NEW c, NEW T
    PROVE  Sorted(c, T) = [k \in 1 .. Cardinality(T) |->
                             CHOOSE x \in T : Cardinality(Below(c, T, x)) = k - 1]
  BY DEF Sorted, SortedBy, Below

\* Every number below Cardinality(T) is the rank of a member, and only of one.
LEMMA RankOnto ==
    ASSUME NEW c, IsForest(c), NEW T \in SUBSET Locals(c)
    PROVE  /\ \A x \in T : Cardinality(Below(c, T, x)) \in 0 .. Cardinality(T) - 1
           /\ \A x, y \in T : Cardinality(Below(c, T, x)) = Cardinality(Below(c, T, y))
                                 => x = y
           /\ \A k \in 0 .. Cardinality(T) - 1 :
                 \E x \in T : Cardinality(Below(c, T, x)) = k
  <1> DEFINE n == Cardinality(T)
             f == [x \in T |-> Cardinality(Below(c, T, x))]
  <1>1. IsFiniteSet(T) /\ n \in Nat
    BY ForestFacts
  <1>2. ASSUME NEW x \in T PROVE Cardinality(Below(c, T, x)) \in 0 .. n - 1
    <2>1. Below(c, T, x) \in SUBSET T /\ x \notin Below(c, T, x)
      BY LessOrder DEF Below
    <2>2. Below(c, T, x) \in SUBSET Locals(c)
      BY <2>1
    <2>3. Cardinality(Below(c, T, x)) \in Nat
      BY <2>2, ForestFacts
    <2>4. /\ Cardinality(Below(c, T, x)) <= Cardinality(T)
          /\ Cardinality(T) = Cardinality(Below(c, T, x)) => T = Below(c, T, x)
      BY <2>1, <1>1, FS_Subset
    <2> QED BY <1>1, <2>1, <2>3, <2>4
  <1>3. ASSUME NEW x \in T, NEW y \in T,
               Cardinality(Below(c, T, x)) = Cardinality(Below(c, T, y))
        PROVE  x = y
    <2>1. CASE ChildLess(c, x, y)
      <3>1. Cardinality(Below(c, T, x)) < Cardinality(Below(c, T, y))
        BY <2>1, RankGrows
      <3> QED BY <3>1, <1>2, <1>3
    <2>2. CASE ChildLess(c, y, x)
      <3>1. Cardinality(Below(c, T, y)) < Cardinality(Below(c, T, x))
        BY <2>2, RankGrows
      <3> QED BY <3>1, <1>2, <1>3
    <2> QED BY <2>1, <2>2, LessOrder
  <1>4. f \in Injection(T, 0 .. n - 1)
    BY <1>2, <1>3 DEF Injection, IsInjective
  <1>5. IsFiniteSet(0 .. n - 1) /\ Cardinality(0 .. n - 1) = n
    <2>1. 0 \in Int /\ n - 1 \in Int
      BY <1>1
    <2>2. /\ IsFiniteSet(0 .. n - 1)
          /\ Cardinality(0 .. n - 1) = IF 0 > n - 1 THEN 0 ELSE n - 1 - 0 + 1
      BY <2>1, FS_Interval
    <2> HIDE DEF n
    <2> QED BY <1>1, <2>2
  <1>6. f \in Surjection(T, 0 .. n - 1)
    <2> HIDE DEF f
    <2> QED BY <1>4, <1>5, FS_Injection DEF n
  <1>7. \A k \in 0 .. n - 1 : \E x \in T : f[x] = k
    BY <1>6 DEF Surjection
  <1> QED BY <1>2, <1>3, <1>7

(***************************************************************************)
(* The sorted list of T holds each member once, in the order; a member     *)
(* with k - 1 others before it is the k-th.                                *)
(***************************************************************************)
LEMMA SortedFacts ==
    ASSUME NEW c, IsForest(c), NEW T \in SUBSET Locals(c)
    PROVE  /\ Sorted(c, T) \in Seq(Locals(c)) /\ Len(Sorted(c, T)) = Cardinality(T)
           /\ Cardinality(T) \in Nat
           /\ \A k \in 1 .. Cardinality(T) : Sorted(c, T)[k] \in T
           /\ \A x \in T : \E k \in 1 .. Cardinality(T) : Sorted(c, T)[k] = x
           /\ \A j, k \in 1 .. Cardinality(T) : Sorted(c, T)[j] = Sorted(c, T)[k] => j = k
           /\ \A k \in 1 .. Cardinality(T), x \in T :
                 Cardinality(Below(c, T, x)) = k - 1 => Sorted(c, T)[k] = x
  <1> DEFINE n == Cardinality(T)
             s == Sorted(c, T)
             R(x) == Cardinality(Below(c, T, x))
  <1>1. n \in Nat
    BY ForestFacts
  <1>2. s = [k \in 1 .. n |-> CHOOSE x \in T : R(x) = k - 1]
    BY SortedIs
  <1>3. /\ \A x \in T : R(x) \in 0 .. n - 1
        /\ \A x, y \in T : R(x) = R(y) => x = y
        /\ \A k \in 0 .. n - 1 : \E x \in T : R(x) = k
    BY RankOnto
  <1> HIDE DEF R, n, s
  <1>4. ASSUME NEW k \in 1 .. n PROVE s[k] \in T /\ R(s[k]) = k - 1
    <2>1. s[k] = CHOOSE x \in T : R(x) = k - 1
      BY <1>2
    <2>2. k - 1 \in 0 .. n - 1
      BY <1>1
    <2>3. \E x \in T : R(x) = k - 1
      BY <2>2, <1>3
    <2> QED BY <2>1, <2>3
  <1>5. s \in Seq(Locals(c)) /\ Len(s) = n
    <2>1. \A k \in 1 .. n : s[k] \in Locals(c)
      BY <1>4
    <2>2. s \in [1 .. n -> Locals(c)]
      BY <1>2, <2>1
    <2> QED BY <2>2, <1>1
  <1>6. ASSUME NEW k \in 1 .. n, NEW x \in T, R(x) = k - 1 PROVE s[k] = x
    BY <1>3, <1>4, <1>6
  <1>7. ASSUME NEW x \in T PROVE \E k \in 1 .. n : s[k] = x
    <2>1. R(x) + 1 \in 1 .. n /\ R(x) = (R(x) + 1) - 1
      BY <1>1, <1>3
    <2> QED BY <2>1, <1>6
  <1>8. ASSUME NEW j \in 1 .. n, NEW k \in 1 .. n, s[j] = s[k] PROVE j = k
    <2>1. j - 1 = k - 1
      BY <1>4, <1>8
    <2> QED BY <2>1, <1>1
  <1> QED BY <1>1, <1>4, <1>5, <1>6, <1>7, <1>8 DEF n, s, R


-----------------------------------------------------------------------------
(***************************************************************************)
(* The walk over the levels.  What Under relates is a place in `bfs' and   *)
(* the place of the parent of the vertex there, 0 for a root.              *)
(***************************************************************************)
Listed(v) == \E k \in 1 .. Len(bfs) : bfs[k] = v

Under(k, j) ==
    \/ j = 0 /\ cluster.parent[bfs[k]] = 0
    \/ j \in 1 .. Len(bfs) /\ cluster.parent[bfs[k]] = bfs[j] + 1

LevelAt(k) ==
    IF k <= visited THEN depth_old[bfs[k]] ELSE IF k <= level THEN dep ELSE dep + 1

Places ==
    /\ bfs \in Seq(Locals(cluster))
    /\ visited \in Nat /\ level \in Nat /\ dep \in Nat
    /\ visited <= level /\ level <= Len(bfs)
    /\ depth_old \in [Locals(cluster) -> Nat]

ListedOnce == \A j, k \in 1 .. Len(bfs) : bfs[j] = bfs[k] => j = k

\* What is listed: the roots and the children of what has been visited.
ListedRight ==
    \A v \in Locals(cluster) :
        Listed(v) <=> \/ cluster.parent[v] = 0
                      \/ \E j \in 1 .. visited : cluster.parent[v] = bfs[j] + 1

\* Parents come earlier, and in the order of their children.
ParentsEarlier == \A k \in 1 .. Len(bfs) : \E j \in 0 .. visited : j < k /\ Under(k, j)
ParentsAscend ==
    \A i, k \in 1 .. Len(bfs) : \A j, m \in 0 .. Len(bfs) :
        i < k /\ Under(i, j) /\ Under(k, m) => j <= m

VirtualFront ==
    \A u \in Locals(cluster) : u < cluster.nv => u < Len(bfs) /\ bfs[u + 1] = u

\* A level is one more than that of the parent, and levels come in order.
LevelsRight ==
    /\ \A k \in 1 .. Len(bfs) : Under(k, 0) => LevelAt(k) = 0
    /\ \A k \in 1 .. Len(bfs), j \in 1 .. visited : Under(k, j) => LevelAt(k) = LevelAt(j) + 1
LevelsAscend ==
    /\ \A i, k \in 1 .. Len(bfs) : i <= k => LevelAt(i) <= LevelAt(k)
    /\ \A k \in 1 .. visited : LevelAt(k) <= dep

WalkInv ==
    /\ Places /\ ListedOnce /\ ListedRight /\ ParentsEarlier /\ ParentsAscend
    /\ VirtualFront /\ LevelsRight /\ LevelsAscend

\* What the readers and writers of the LOUDS need of the cluster they are given.
Delivered(c) ==
    /\ c.nv \in Nat /\ c.nr \in Nat /\ Total(c) \in Nat /\ Total(c) > 0
    /\ c.parent \in [Locals(c) -> Nat]
    /\ \A u \in Locals(c) : c.parent[u] <= u
    /\ \A u, v \in Locals(c) : u <= v => c.parent[u] <= c.parent[v]
    /\ c.depth_offsets[1] \in 0 .. c.nr
    /\ \A u \in Locals(c) : c.parent[u] = 0 <=> u < c.nv + c.depth_offsets[1]

LInv ==
    /\ stage \in {"built", "layout", "final"}
    /\ stage = "built" => IsForest(cluster) /\ NotStarted
    /\ stage = "layout" => IsForest(cluster) /\ built = cluster /\ WalkInv
    /\ stage = "final" => Delivered(cluster)
    /\ SameForestInLevels

LEMMA ChildrenFacts ==
    ASSUME NEW c, IsForest(c)
    PROVE  /\ ChildrenOf(c, 0) \in SUBSET Locals(c)
           /\ \A v \in Locals(c) : v \in ChildrenOf(c, 0) <=> c.parent[v] = 0
           /\ \A u \in Locals(c) : ChildrenOf(c, u + 1) \in SUBSET Locals(c)
           /\ \A u, v \in Locals(c) : v \in ChildrenOf(c, u + 1) <=> c.parent[v] = u + 1
  <1>1. \A v \in Locals(c) : c.parent[v] \in 0 .. Total(c)
    BY ForestFacts
  <1> QED BY <1>1 DEF ChildrenOf

\* The virtual vertices are roots, and the first of them in their order.
LEMMA VirtualRanks ==
    ASSUME NEW c, IsForest(c), NEW u \in Locals(c), u < c.nv
    PROVE  u \in ChildrenOf(c, 0) /\ Cardinality(Below(c, ChildrenOf(c, 0), u)) = u
  <1>1. /\ c.nv \in Nat /\ c.nr \in Nat /\ Total(c) = c.nv + c.nr
        /\ Locals(c) = 0 .. Total(c) - 1 /\ u \in Nat
        /\ \A v \in Locals(c) : v < c.nv => c.parent[v] = 0
    BY ForestFacts
  <1>2. \A v \in Locals(c) : v \in ChildrenOf(c, 0) <=> c.parent[v] = 0
    BY ChildrenFacts
  <1>3. \A v \in Locals(c) : ChildLess(c, v, u) <=> v < u
    <2>1. ASSUME NEW v \in Locals(c) PROVE ChildLess(c, v, u) <=> v < u
      <3>1. CASE v < c.nv
        BY <1>1, <3>1 DEF ChildLess, Virtual, StableKeyForLocal
      <3>2. CASE ~(v < c.nv)
        BY <1>1, <3>2 DEF ChildLess, Virtual
      <3> QED BY <3>1, <3>2
    <2> QED BY <2>1
  <1>4. \A v : v \in Below(c, ChildrenOf(c, 0), u) <=> v \in 0 .. u - 1
    <2>1. ASSUME NEW v \in Below(c, ChildrenOf(c, 0), u) PROVE v \in 0 .. u - 1
      <3>1. v \in ChildrenOf(c, 0) /\ ChildLess(c, v, u)
        BY DEF Below
      <3>2. v \in Locals(c)
        BY <3>1, ChildrenFacts
      <3> QED BY <1>1, <1>3, <3>1, <3>2
    <2>2. ASSUME NEW v \in 0 .. u - 1 PROVE v \in Below(c, ChildrenOf(c, 0), u)
      <3>1. v \in Locals(c) /\ v < u /\ v < c.nv
        BY <1>1
      <3> QED BY <1>1, <1>2, <1>3, <3>1 DEF Below
    <2> QED BY <2>1, <2>2
  <1>5. Below(c, ChildrenOf(c, 0), u) = 0 .. u - 1
    BY <1>4
  <1>6. Cardinality(0 .. u - 1) = u
    <2>1. 0 \in Int /\ u - 1 \in Int
      BY <1>1
    <2>2. Cardinality(0 .. u - 1) = IF 0 > u - 1 THEN 0 ELSE u - 1 - 0 + 1
      BY <2>1, FS_Interval
    <2> QED BY <1>1, <2>2
  <1> QED BY <1>1, <1>2, <1>5, <1>6

LEMMA StartWalks ==
    ASSUME LInv, StartLayout
    PROVE  LInv'
  <1> DEFINE c == cluster
             T == ChildrenOf(c, 0)
             n == Cardinality(T)
  <1>1. /\ IsForest(c) /\ NotStarted
        /\ stage' = "layout" /\ built' = c /\ cluster' = c /\ bfs' = Sorted(c, T)
        /\ level' = Len(bfs') /\ visited' = visited /\ dep' = dep
        /\ depth_old' = [u \in Locals(c) |-> 0]
    BY DEF LInv, StartLayout
  <1>2. visited' = 0 /\ dep' = 0
    BY <1>1 DEF NotStarted
  <1>3. T \in SUBSET Locals(c) /\ \A v \in Locals(c) : v \in T <=> c.parent[v] = 0
    BY <1>1, ChildrenFacts
  <1>4. /\ bfs' \in Seq(Locals(c)) /\ Len(bfs') = n /\ n \in Nat
        /\ \A k \in 1 .. n : bfs'[k] \in T
        /\ \A x \in T : \E k \in 1 .. n : bfs'[k] = x
        /\ \A j, k \in 1 .. n : bfs'[j] = bfs'[k] => j = k
        /\ \A k \in 1 .. n, x \in T : Cardinality(Below(c, T, x)) = k - 1 => bfs'[k] = x
    BY <1>1, <1>3, SortedFacts
  <1>5. \A u \in Locals(c) : u < c.nv => u \in Nat /\ u \in T /\ Cardinality(Below(c, T, u)) = u
    BY <1>1, VirtualRanks, ForestFacts
  <1> HIDE DEF T, n
  <1>6. Places' /\ ListedOnce'
    BY <1>1, <1>2, <1>4 DEF Places, ListedOnce
  <1>7. \A k \in 1 .. n : bfs'[k] \in Locals(c) /\ c.parent[bfs'[k]] = 0
    BY <1>3, <1>4
  <1>8. ListedRight'
    BY <1>1, <1>2, <1>3, <1>4 DEF ListedRight, Listed
  <1>9. \A k \in 1 .. n : Under(k, 0)' /\ \A j \in 0 .. n : Under(k, j)' => j = 0
    <2>1. ASSUME NEW k \in 1 .. n, NEW j \in 0 .. n, Under(k, j)' PROVE j = 0
      <3>1. CASE j # 0
        <4>1. j \in 1 .. n /\ c.parent[bfs'[k]] = bfs'[j] + 1
          BY <1>1, <2>1, <3>1 DEF Under
        <4>2. bfs'[j] \in Locals(c)
          BY <1>7, <4>1
        <4>3. bfs'[j] \in Nat
          BY <1>1, <4>2, ForestFacts
        <4> QED BY <1>7, <4>1, <4>3
      <3> QED BY <3>1
    <2> QED BY <1>1, <1>7, <2>1 DEF Under
  <1>10. ParentsEarlier' /\ ParentsAscend'
    <2>1. \A k \in 1 .. n : 0 \in 0 .. visited' /\ 0 < k /\ Under(k, 0)'
      BY <1>2, <1>9
    <2>2. ParentsEarlier'
      BY <1>4, <2>1 DEF ParentsEarlier
    <2>3. ParentsAscend'
      BY <1>4, <1>9 DEF ParentsAscend
    <2> QED BY <2>2, <2>3
  <1>11. VirtualFront'
    <2>1. ASSUME NEW u \in Locals(c), u < c.nv PROVE u < n /\ bfs'[u + 1] = u
      <3>1. PICK k \in 1 .. n : bfs'[k] = u
        BY <1>4, <1>5, <2>1
      <3>2. u \in Nat /\ Cardinality(Below(c, T, u)) = u /\ u \in T
        BY <1>5, <2>1
      <3>3. Cardinality(Below(c, T, u)) \in 0 .. n - 1
        BY <1>1, <1>3, <3>2, RankOnto DEF n
      <3>4. u + 1 \in 1 .. n /\ Cardinality(Below(c, T, u)) = (u + 1) - 1
        BY <1>4, <3>2, <3>3
      <3> QED BY <1>4, <3>2, <3>4
    <2> QED BY <1>1, <1>4, <2>1 DEF VirtualFront
  <1>12. \A k \in 1 .. n : LevelAt(k)' = 0
    BY <1>1, <1>2, <1>4 DEF LevelAt
  <1>13. LevelsRight' /\ LevelsAscend'
    BY <1>2, <1>4, <1>12 DEF LevelsRight, LevelsAscend
  <1>14. WalkInv'
    BY <1>6, <1>8, <1>10, <1>11, <1>13 DEF WalkInv
  <1>15. SameForestInLevels'
    BY <1>1 DEF SameForestInLevels
  <1> QED BY <1>1, <1>14, <1>15 DEF LInv

\* A place has one place for its parent, and that one has been visited.
LEMMA UnderOne ==
    ASSUME IsForest(cluster), WalkInv,
           NEW k \in 1 .. Len(bfs), NEW j \in 0 .. Len(bfs), Under(k, j)
    PROVE  /\ j <= visited /\ j < k
           /\ \A m \in 0 .. Len(bfs) : Under(k, m) => m = j
  <1>1. bfs \in Seq(Locals(cluster)) /\ visited \in Nat /\ Len(bfs) \in Nat /\ visited <= Len(bfs)
    BY DEF WalkInv, Places
  <1>2. \A i \in 1 .. Len(bfs) : bfs[i] \in Locals(cluster) /\ bfs[i] \in Nat
    BY <1>1, ForestFacts
  <1>3. ASSUME NEW i \in 0 .. Len(bfs), NEW m \in 0 .. Len(bfs), Under(k, i), Under(k, m)
        PROVE  i = m
    <2>1. CASE i = 0
      BY <1>2, <1>3, <2>1 DEF Under
    <2>2. CASE m = 0
      BY <1>2, <1>3, <2>2 DEF Under
    <2>3. CASE i # 0 /\ m # 0
      <3>1. bfs[i] + 1 = bfs[m] + 1 /\ i \in 1 .. Len(bfs) /\ m \in 1 .. Len(bfs)
        BY <1>3, <2>3 DEF Under
      <3>2. bfs[i] = bfs[m]
        BY <1>2, <3>1
      <3> QED BY <3>1, <3>2 DEF WalkInv, ListedOnce
    <2> QED BY <2>1, <2>2, <2>3
  <1>4. PICK i \in 0 .. visited : i < k /\ Under(k, i)
    BY DEF WalkInv, ParentsEarlier
  <1>5. i \in 0 .. Len(bfs)
    BY <1>1
  <1>6. i = j
    BY <1>3, <1>4, <1>5
  <1> QED BY <1>1, <1>3, <1>4, <1>6

LEMMA Appended ==
    ASSUME NEW S, NEW a \in Seq(S), NEW b \in Seq(S)
    PROVE  /\ a \o b \in Seq(S) /\ Len(a \o b) = Len(a) + Len(b)
           /\ \A k \in 1 .. Len(a) : (a \o b)[k] = a[k]
           /\ \A k \in Len(a) + 1 .. Len(a) + Len(b) :
                 k - Len(a) \in 1 .. Len(b) /\ (a \o b)[k] = b[k - Len(a)]
  OBVIOUS

LEMMA VisitWalks ==
    ASSUME LInv, Visit
    PROVE  LInv'
  <1>0. PICK V : V = visited + 1
    OBVIOUS
  <1> DEFINE c == cluster
             u == bfs[V]
             T == ChildrenOf(c, u + 1)
             L == Len(bfs)
             n == Cardinality(T)
             s == Sorted(c, T)
  <1>1. /\ IsForest(c) /\ built = c /\ WalkInv
        /\ stage = "layout" /\ visited < level /\ bfs' = bfs \o s
        /\ depth_old' = [depth_old EXCEPT ![u] = dep] /\ visited' = V
        /\ stage' = stage /\ cluster' = c /\ built' = built /\ level' = level /\ dep' = dep
    BY <1>0 DEF LInv, Visit
  <1>2. /\ bfs \in Seq(Locals(c)) /\ L \in Nat
        /\ visited \in Nat /\ level \in Nat /\ dep \in Nat /\ level <= L
        /\ depth_old \in [Locals(c) -> Nat]
        /\ V = visited + 1 /\ V \in 1 .. L /\ V <= level /\ u \in Locals(c)
    BY <1>0, <1>1 DEF WalkInv, Places
  <1>3. T \in SUBSET Locals(c) /\ \A v \in Locals(c) : v \in T <=> c.parent[v] = u + 1
    BY <1>1, <1>2, ChildrenFacts
  <1> HIDE DEF T
  <1>4. /\ s \in Seq(Locals(c)) /\ Len(s) = n /\ n \in Nat
        /\ \A k \in 1 .. n : s[k] \in T
        /\ \A x \in T : \E k \in 1 .. n : s[k] = x
        /\ \A j, k \in 1 .. n : s[j] = s[k] => j = k
    BY <1>1, <1>3, SortedFacts
  <1>5. /\ \A v \in Locals(c) : v \in Nat
        /\ \A v \in Locals(c) : c.parent[v] \in Nat
    BY <1>1, ForestFacts
  <1> HIDE DEF n, s
  <1>6. /\ bfs' \in Seq(Locals(c)) /\ Len(bfs') = L + n
        /\ \A k \in 1 .. L : bfs'[k] = bfs[k]
        /\ \A k \in L + 1 .. L + n : k - L \in 1 .. n /\ bfs'[k] = s[k - L]
    <2>1. bfs \in Seq(Locals(c)) /\ s \in Seq(Locals(c)) /\ Len(s) = n
      BY <1>2, <1>4
    <2>2. /\ bfs \o s \in Seq(Locals(c)) /\ Len(bfs \o s) = L + Len(s)
          /\ \A k \in 1 .. L : (bfs \o s)[k] = bfs[k]
          /\ \A k \in L + 1 .. L + Len(s) : k - L \in 1 .. Len(s) /\ (bfs \o s)[k] = s[k - L]
      BY <2>1, Appended, Zenon
    <2>3. bfs' = bfs \o s
      BY <1>1
    <2> HIDE DEF L
    <2> QED BY <2>1, <2>2, <2>3
  <1>7. \A k \in L + 1 .. L + n : bfs'[k] \in Locals(c) /\ c.parent[bfs'[k]] = u + 1
    BY <1>3, <1>4, <1>6
  <1>8. \A k \in 1 .. L : bfs[k] \in Locals(c)
    BY <1>2
  <1> HIDE DEF L
  \* What was not listed: no child of u, which had not been visited.
  <1>9. ASSUME NEW k \in L + 1 .. L + n, NEW i \in 1 .. L PROVE bfs'[k] # bfs[i]
    <2>1. CASE bfs'[k] = bfs[i]
      <3>1. Under(i, V)
        BY <1>2, <1>7, <2>1 DEF Under, L
      <3>2. V <= visited
        BY <1>1, <1>2, <3>1, UnderOne DEF L
      <3> QED BY <1>2, <3>2
    <2> QED BY <2>1
  <1>10. ListedOnce'
    <2>1. ASSUME NEW j \in 1 .. L + n, NEW k \in 1 .. L + n, bfs'[j] = bfs'[k]
          PROVE  j = k
      <3>1. CASE j \in 1 .. L /\ k \in 1 .. L
        BY <1>1, <1>6, <2>1, <3>1 DEF WalkInv, ListedOnce, L
      <3>2. CASE j \in L + 1 .. L + n /\ k \in L + 1 .. L + n
        <4>1. s[j - L] = s[k - L] /\ j - L \in 1 .. n /\ k - L \in 1 .. n
          BY <1>6, <2>1, <3>2
        <4>2. j - L = k - L
          BY <1>4, <4>1
        <4> QED BY <1>2, <4>2
      <3>3. CASE j \in 1 .. L /\ k \in L + 1 .. L + n
        BY <1>6, <1>9, <2>1, <3>3
      <3>4. CASE k \in 1 .. L /\ j \in L + 1 .. L + n
        BY <1>6, <1>9, <2>1, <3>4
      <3> QED BY <1>2, <1>4, <3>1, <3>2, <3>3, <3>4
    <2> QED BY <1>6, <2>1 DEF ListedOnce
  <1>11. Places'
    BY <1>1, <1>2, <1>4, <1>6 DEF Places
  <1>12. ListedRight'
    <2>1. ASSUME NEW v \in Locals(c)
          PROVE  Listed(v)' <=> (Listed(v) \/ v \in T)
      <3>1. ASSUME Listed(v)' PROVE Listed(v) \/ v \in T
        <4>1. PICK k \in 1 .. L + n : bfs'[k] = v
          BY <1>6, <3>1 DEF Listed
        <4>2. CASE k \in 1 .. L
          BY <1>6, <4>1, <4>2 DEF Listed, L
        <4>3. CASE k \in L + 1 .. L + n
          BY <1>4, <1>6, <4>1, <4>3
        <4> QED BY <1>2, <1>4, <4>2, <4>3
      <3>2. ASSUME Listed(v) PROVE Listed(v)'
        <4>1. PICK k \in 1 .. L : bfs[k] = v
          BY <3>2 DEF Listed, L
        <4>2. bfs'[k] = v
          BY <1>6, <4>1
        <4>3. k \in 1 .. L + n
          <5>1. L \in Nat /\ n \in Nat
            BY <1>2, <1>4
          <5> QED BY <5>1
        <4> QED BY <1>6, <4>2, <4>3 DEF Listed
      <3>3. ASSUME v \in T PROVE Listed(v)'
        <4>1. PICK k \in 1 .. n : s[k] = v
          BY <1>4, <3>3
        <4>2. L + k \in L + 1 .. L + n /\ L + k \in 1 .. L + n /\ (L + k) - L = k
          BY <1>2, <1>4
        <4>3. bfs'[L + k] = v
          BY <1>6, <4>1, <4>2
        <4> QED BY <1>6, <4>2, <4>3 DEF Listed
      <3> QED BY <3>1, <3>2, <3>3
    <2>2. ASSUME NEW v \in Locals(c)
          PROVE  (\E j \in 1 .. visited' : c.parent[v] = bfs'[j] + 1)
                   <=> ((\E j \in 1 .. visited : c.parent[v] = bfs[j] + 1) \/ v \in T)
      <3>1. \A j \in 1 .. V : bfs'[j] = bfs[j]
        BY <1>2, <1>6
      <3>2. \A j \in 1 .. V : j \in 1 .. visited \/ j = V
        BY <1>2
      <3>3. \A j \in 1 .. visited : j \in 1 .. V
        BY <1>2
      <3>4. V \in 1 .. V
        BY <1>2
      <3> QED BY <1>1, <1>3, <3>1, <3>2, <3>3, <3>4
    <2>3. \A v \in Locals(c) :
             Listed(v) <=> \/ c.parent[v] = 0
                           \/ \E j \in 1 .. visited : c.parent[v] = bfs[j] + 1
      BY <1>1 DEF WalkInv, ListedRight
    <2> QED BY <1>1, <2>1, <2>2, <2>3 DEF ListedRight
  <1>13. ASSUME NEW k \in 1 .. L, NEW j \in 0 .. L + n
         PROVE  Under(k, j)' <=> j \in 0 .. L /\ Under(k, j)
    <2>1. CASE j \in 0 .. L
      BY <1>1, <1>2, <1>4, <1>6, <2>1 DEF Under, L
    <2>2. CASE j \in L + 1 .. L + n
      <3>1. PICK i \in 0 .. visited : Under(k, i)
        BY <1>1 DEF WalkInv, ParentsEarlier, L
      <3>2. CASE i = 0
        <4>1. c.parent[bfs'[k]] = 0
          BY <1>6, <3>1, <3>2 DEF Under
        <4>2. bfs'[j] \in Nat
          BY <1>5, <1>7, <2>2
        <4>3. j # 0 /\ j \notin 0 .. L
          BY <1>2, <2>2
        <4>4. ~(0 = bfs'[j] + 1)
          BY <4>2
        <4> QED BY <1>1, <4>1, <4>3, <4>4 DEF Under
      <3>3. CASE i # 0
        <4>1. i \in 1 .. L /\ c.parent[bfs'[k]] = bfs[i] + 1
          <5>1. i \in 1 .. Len(bfs) /\ c.parent[bfs[k]] = bfs[i] + 1
            BY <3>1, <3>3 DEF Under
          <5>2. bfs'[k] = bfs[k]
            BY <1>6
          <5> QED BY <5>1, <5>2 DEF L
        <4>2. bfs'[j] # bfs[i]
          BY <1>9, <2>2, <4>1
        <4>3. bfs'[j] \in Nat /\ bfs[i] \in Nat
          BY <1>5, <1>7, <1>8, <2>2, <4>1
        <4>4. j # 0 /\ j \notin 0 .. L
          BY <1>2, <2>2
        <4>5. ~(bfs[i] + 1 = bfs'[j] + 1) /\ ~(bfs[i] + 1 = 0)
          BY <4>2, <4>3
        <4> QED BY <1>1, <4>1, <4>4, <4>5 DEF Under
      <3> QED BY <3>2, <3>3
    <2> QED BY <1>2, <1>4, <2>1, <2>2
  <1>14. ASSUME NEW k \in L + 1 .. L + n, NEW j \in 0 .. L + n
         PROVE  Under(k, j)' <=> j = V
    <2>1. c.parent[bfs'[k]] = u + 1 /\ bfs'[V] = u /\ V \in 1 .. L + n
      <3>1. c.parent[bfs'[k]] = u + 1
        BY <1>7
      <3>2. bfs'[V] = u
        BY <1>2, <1>6
      <3>3. L \in Nat /\ n \in Nat /\ V \in 1 .. L
        BY <1>2, <1>4
      <3> QED BY <3>1, <3>2, <3>3
    <2>2. Under(k, V)'
      BY <1>1, <1>6, <2>1 DEF Under
    <2>3. ASSUME Under(k, j)' PROVE j = V
      <3>1. u \in Nat
        BY <1>2, <1>5
      <3>2. j \in 1 .. L + n /\ bfs'[j] + 1 = u + 1
        BY <1>1, <1>6, <2>1, <2>3, <3>1 DEF Under
      <3>3. bfs'[j] \in Nat
        BY <1>5, <1>6, <3>2
      <3>4. bfs'[j] = bfs'[V]
        BY <2>1, <3>1, <3>2, <3>3
      <3> QED BY <1>6, <1>10, <2>1, <3>2, <3>4 DEF ListedOnce
    <2> QED BY <2>2, <2>3
  <1>15. \A k \in 1 .. L + n : k \in 1 .. L \/ k \in L + 1 .. L + n
    BY <1>2, <1>4
  <1>16. ParentsEarlier'
    <2>1. ASSUME NEW k \in 1 .. L + n PROVE \E j \in 0 .. V : j < k /\ Under(k, j)'
      <3>1. CASE k \in 1 .. L
        <4>1. PICK j \in 0 .. visited : j < k /\ Under(k, j)
          BY <1>1, <3>1 DEF WalkInv, ParentsEarlier, L
        <4>2. j \in 0 .. V /\ j \in 0 .. L /\ j \in 0 .. L + n
          BY <1>2, <1>4
        <4> QED BY <1>13, <3>1, <4>1, <4>2
      <3>2. CASE k \in L + 1 .. L + n
        <4>1. V \in 0 .. V /\ V < k /\ V \in 0 .. L + n
          BY <1>2, <1>4, <3>2
        <4> QED BY <1>14, <3>2, <4>1
      <3> QED BY <1>15, <3>1, <3>2
    <2> QED BY <1>1, <1>6, <2>1 DEF ParentsEarlier
  <1>17. ParentsAscend'
    <2>1. ASSUME NEW i \in 1 .. L + n, NEW k \in 1 .. L + n,
                 NEW j \in 0 .. L + n, NEW m \in 0 .. L + n,
                 i < k, Under(i, j)', Under(k, m)'
          PROVE  j <= m
      <3>1. CASE k \in 1 .. L
        <4>1. i \in 1 .. L
          BY <1>2, <2>1, <3>1
        <4>2. j \in 0 .. L /\ Under(i, j) /\ m \in 0 .. L /\ Under(k, m)
          BY <1>13, <2>1, <3>1, <4>1
        <4> QED BY <1>1, <2>1, <3>1, <4>1, <4>2 DEF WalkInv, ParentsAscend, L
      <3>2. CASE k \in L + 1 .. L + n
        <4>1. m = V
          BY <1>14, <2>1, <3>2
        <4>2. CASE i \in 1 .. L
          <5>1. j \in 0 .. L /\ Under(i, j)
            BY <1>13, <2>1, <4>2
          <5>2. j <= visited
            BY <1>1, <4>2, <5>1, UnderOne DEF L
          <5> QED BY <1>2, <4>1, <5>1, <5>2
        <4>3. CASE i \in L + 1 .. L + n
          BY <1>2, <1>14, <2>1, <4>1, <4>3
        <4> QED BY <1>15, <4>2, <4>3
      <3> QED BY <1>15, <3>1, <3>2
    <2> QED BY <1>6, <2>1 DEF ParentsAscend
  <1>18. VirtualFront'
    <2>1. ASSUME NEW v \in Locals(c), v < c.nv PROVE v < L + n /\ bfs'[v + 1] = v
      <3>1. v < L /\ bfs[v + 1] = v /\ v \in Nat
        BY <1>1, <1>5, <2>1 DEF WalkInv, VirtualFront, L
      <3>2. v + 1 \in 1 .. L
        BY <1>2, <3>1
      <3>3. bfs'[v + 1] = bfs[v + 1]
        BY <1>4, <1>6, <3>2
      <3>4. v < L + n
        <4>1. L \in Nat /\ n \in Nat
          BY <1>2, <1>4
        <4> QED BY <3>1, <4>1
      <3> QED BY <3>1, <3>3, <3>4
    <2> QED BY <1>1, <1>6, <2>1 DEF VirtualFront
  <1>19. /\ \A k \in 1 .. L : LevelAt(k)' = LevelAt(k)
         /\ \A k \in L + 1 .. L + n : LevelAt(k)' = dep + 1
         /\ LevelAt(V) = dep
    <2>1. ASSUME NEW k \in 1 .. L PROVE LevelAt(k)' = LevelAt(k)
      <3>1. bfs'[k] = bfs[k] /\ bfs[k] \in Locals(c)
        BY <1>6, <1>8
      <3>2. CASE k <= visited
        <4>1. bfs[k] # u
          <5>1. k # V
            BY <1>2, <3>2
          <5> QED BY <1>1, <1>2, <5>1 DEF WalkInv, ListedOnce, L
        <4>2. depth_old'[bfs[k]] = depth_old[bfs[k]]
          BY <1>1, <1>2, <3>1, <4>1
        <4> QED BY <1>1, <1>2, <3>1, <3>2, <4>2 DEF LevelAt
      <3>3. CASE k = V
        <4>1. depth_old'[u] = dep
          BY <1>1, <1>2
        <4> QED BY <1>1, <1>2, <3>1, <3>3, <4>1 DEF LevelAt
      <3>4. CASE k > V
        BY <1>1, <1>2, <3>1, <3>4 DEF LevelAt
      <3> QED BY <1>2, <3>2, <3>3, <3>4
    <2>2. ASSUME NEW k \in L + 1 .. L + n PROVE LevelAt(k)' = dep + 1
      BY <1>1, <1>2 DEF LevelAt
    <2>3. LevelAt(V) = dep
      BY <1>2 DEF LevelAt
    <2> QED BY <2>1, <2>2, <2>3
  <1>20. /\ \A k \in 1 .. L : LevelAt(k) \in Nat /\ LevelAt(k) <= dep + 1
         /\ \A k \in 1 .. V : LevelAt(k) <= dep
    <2>1. \A k \in 1 .. L : LevelAt(k) \in Nat
      <3>1. \A k \in 1 .. L : depth_old[bfs[k]] \in Nat
        BY <1>2, <1>8
      <3> QED BY <1>2, <3>1 DEF LevelAt
    <2>2. \A k \in 1 .. visited : LevelAt(k) <= dep
      BY <1>1 DEF WalkInv, LevelsAscend
    <2>3. \A k \in 1 .. L : LevelAt(k) <= dep + 1
      <3>1. \A k \in 1 .. L : k <= visited => LevelAt(k) <= dep /\ LevelAt(k) \in Nat
        BY <1>2, <2>1, <2>2
      <3>2. \A k \in 1 .. L : ~(k <= visited) => LevelAt(k) <= dep + 1
        BY <1>2 DEF LevelAt
      <3> QED BY <1>2, <3>1, <3>2
    <2>4. \A k \in 1 .. V : LevelAt(k) <= dep
      BY <1>2, <1>19, <2>2
    <2> QED BY <2>1, <2>3, <2>4
  <1>21. LevelsRight'
    <2>1. ASSUME NEW k \in 1 .. L + n, Under(k, 0)' PROVE LevelAt(k)' = 0
      <3>1. CASE k \in 1 .. L
        <4>1. Under(k, 0)
          BY <1>2, <1>4, <1>13, <2>1, <3>1
        <4> QED BY <1>1, <1>19, <3>1, <4>1 DEF WalkInv, LevelsRight, L
      <3>2. CASE k \in L + 1 .. L + n
        BY <1>2, <1>4, <1>14, <2>1, <3>2
      <3> QED BY <1>15, <3>1, <3>2
    <2>2. ASSUME NEW k \in 1 .. L + n, NEW j \in 1 .. V, Under(k, j)'
          PROVE  LevelAt(k)' = LevelAt(j)' + 1
      <3>1. j \in 1 .. L /\ j \in 0 .. L + n
        BY <1>2, <1>4
      <3>2. CASE k \in 1 .. L
        <4>1. Under(k, j)
          BY <1>13, <2>2, <3>1, <3>2
        <4>2. j \in 1 .. visited
          <5>1. j <= visited
            BY <1>1, <3>1, <3>2, <4>1, UnderOne DEF L
          <5> QED BY <1>2, <5>1
        <4>3. LevelAt(k) = LevelAt(j) + 1
          BY <1>1, <3>2, <4>1, <4>2 DEF WalkInv, LevelsRight, L
        <4> QED BY <1>19, <3>1, <3>2, <4>3
      <3>3. CASE k \in L + 1 .. L + n
        <4>1. j = V
          BY <1>14, <2>2, <3>1, <3>3
        <4>2. LevelAt(V)' = dep
          BY <1>2, <1>19
        <4> QED BY <1>19, <3>3, <4>1, <4>2
      <3> QED BY <1>15, <3>2, <3>3
    <2> QED BY <1>1, <1>6, <2>1, <2>2 DEF LevelsRight
  <1>22. LevelsAscend'
    <2>1. ASSUME NEW i \in 1 .. L + n, NEW k \in 1 .. L + n, i <= k
          PROVE  LevelAt(i)' <= LevelAt(k)'
      <3>1. CASE k \in 1 .. L
        <4>1. i \in 1 .. L
          BY <1>2, <2>1, <3>1
        <4>2. LevelAt(i) <= LevelAt(k)
          BY <1>1, <2>1, <3>1, <4>1 DEF WalkInv, LevelsAscend, L
        <4> QED BY <1>19, <3>1, <4>1, <4>2
      <3>2. CASE k \in L + 1 .. L + n
        <4>1. CASE i \in 1 .. L
          BY <1>19, <1>20, <3>2, <4>1
        <4>2. CASE i \in L + 1 .. L + n
          BY <1>2, <1>19, <3>2, <4>2
        <4> QED BY <1>15, <4>1, <4>2
      <3> QED BY <1>15, <3>1, <3>2
    <2>2. \A k \in 1 .. V : LevelAt(k)' <= dep
      BY <1>2, <1>19, <1>20
    <2> QED BY <1>1, <1>6, <2>1, <2>2 DEF LevelsAscend
  <1>23. WalkInv'
    BY <1>10, <1>11, <1>12, <1>16, <1>17, <1>18, <1>21, <1>22 DEF WalkInv
  <1>24. SameForestInLevels'
    BY <1>1 DEF SameForestInLevels
  <1> QED BY <1>1, <1>23, <1>24 DEF LInv

LEMMA NextLevelWalks ==
    ASSUME LInv, NextLevel
    PROVE  LInv'
  <1>1. /\ IsForest(cluster) /\ built = cluster /\ WalkInv
        /\ stage = "layout" /\ visited = level /\ level < Len(bfs)
        /\ level' = Len(bfs) /\ dep' = dep + 1
        /\ UNCHANGED <<stage, cluster, built, bfs, visited, depth_old>>
    BY DEF LInv, NextLevel
  <1>2. /\ bfs \in Seq(Locals(cluster)) /\ Len(bfs) \in Nat
        /\ visited \in Nat /\ level \in Nat /\ dep \in Nat
        /\ depth_old \in [Locals(cluster) -> Nat]
    BY <1>1 DEF WalkInv, Places
  <1>3. Places' /\ ListedOnce' /\ ListedRight' /\ ParentsEarlier' /\ ParentsAscend' /\ VirtualFront'
    <2>1. Places'
      BY <1>1, <1>2 DEF Places
    <2>2. ListedOnce' /\ ListedRight' /\ VirtualFront'
      BY <1>1 DEF WalkInv, ListedOnce, ListedRight, Listed, VirtualFront
    <2>3. ParentsEarlier' /\ ParentsAscend'
      BY <1>1 DEF WalkInv, ParentsEarlier, ParentsAscend, Under
    <2> QED BY <2>1, <2>2, <2>3
  <1>4. \A k \in 1 .. Len(bfs) : LevelAt(k)' = LevelAt(k)
    BY <1>1, <1>2 DEF LevelAt
  <1>5. \A k \in 1 .. visited : k \in 1 .. Len(bfs) /\ LevelAt(k) \in Nat /\ LevelAt(k) <= dep
    <2>1. \A k \in 1 .. visited : k \in 1 .. Len(bfs)
      BY <1>1, <1>2
    <2>2. \A k \in 1 .. visited : LevelAt(k) \in Nat
      BY <1>2, <2>1 DEF LevelAt
    <2> QED BY <1>1, <2>1, <2>2 DEF WalkInv, LevelsAscend
  <1>6. LevelsRight'
    BY <1>1, <1>4, <1>5 DEF WalkInv, LevelsRight, Under
  <1>7. LevelsAscend'
    <2>1. \A i, k \in 1 .. Len(bfs) : i <= k => LevelAt(i) <= LevelAt(k)
      BY <1>1 DEF WalkInv, LevelsAscend
    <2>2. \A i, k \in 1 .. Len(bfs)' : i <= k => LevelAt(i)' <= LevelAt(k)'
      BY <1>1, <1>4, <2>1
    <2>3. \A k \in 1 .. visited' : LevelAt(k)' = LevelAt(k)
      BY <1>1, <1>4, <1>5
    <2>4. \A k \in 1 .. visited' : LevelAt(k)' <= dep'
      BY <1>1, <1>2, <1>5, <2>3
    <2> QED BY <2>2, <2>4 DEF LevelsAscend
  <1>8. WalkInv'
    BY <1>3, <1>6, <1>7 DEF WalkInv
  <1>9. SameForestInLevels'
    BY <1>1 DEF SameForestInLevels
  <1> QED BY <1>1, <1>8, <1>9 DEF LInv

-----------------------------------------------------------------------------
(***************************************************************************)
(* The depth of a vertex whose parents are all smaller than their          *)
(* children, and counting up to a depth.                                   *)
(***************************************************************************)
LEMMA Minimum ==
    ASSUME NEW T \in SUBSET Nat, T # {}
    PROVE  \E x \in T : \A y \in T : x <= y
  <1> DEFINE R == {ss \in Nat \X Nat : ss[1] < ss[2]}
  <1>1. IsWellFoundedOn(R, Nat)
    BY NatLessThanWellFounded DEF OpToRel
  <1>2. PICK x \in T : \A y \in T : <<y, x>> \notin R
    BY <1>1, WFMin
  <1>3. ASSUME NEW y \in T PROVE ~(y < x)
    <2>1. y < x => <<y, x>> \in R
      OBVIOUS
    <2> QED BY <1>2, <2>1
  <1>4. \A y \in T : y \in Nat
    OBVIOUS
  <1> QED BY <1>3, <1>4

Smaller(c) ==
    /\ Total(c) \in Nat /\ Locals(c) = 0 .. Total(c) - 1
    /\ \A u \in Locals(c) : c.parent[u] \in Nat /\ c.parent[u] <= u

LEMMA DepthOfRoot ==
    ASSUME NEW c, Smaller(c), NEW u \in Locals(c), c.parent[u] = 0
    PROVE  Depth(c, u) = 0
  <1>1. u \in {u} /\ Upward(c, {u})
    BY DEF Upward
  <1>2. {u} \in SUBSET Locals(c)
    OBVIOUS
  <1>3. Above(c, u) = {}
    BY <1>1, <1>2 DEF Above
  <1> QED BY <1>3, FS_EmptySet DEF Depth

LEMMA DepthOfChild ==
    ASSUME NEW c, Smaller(c), NEW u \in Locals(c), NEW w \in Locals(c), c.parent[u] = w + 1
    PROVE  Depth(c, u) = Depth(c, w) + 1 /\ Depth(c, w) \in Nat
  <1>1. /\ \A v \in Locals(c) : v \in Nat /\ v < Total(c)
        /\ Total(c) \in Nat /\ Locals(c) = 0 .. Total(c) - 1
        /\ \A v \in Locals(c) : c.parent[v] \in Nat /\ c.parent[v] <= v
    BY DEF Smaller
  <1>2. w < u /\ c.parent[u] - 1 = w /\ c.parent[u] # 0
    BY <1>1
  <1>3. w \in Above(c, u)
    <2>1. ASSUME NEW T \in SUBSET Locals(c), u \in T, Upward(c, T) PROVE w \in T
      BY <1>2, <2>1 DEF Upward
    <2> QED BY <1>1, <1>2, <2>1 DEF Above
  <1>4. ASSUME NEW v \in Above(c, w) PROVE v \in Above(c, u) /\ v # w
    <2>1. v \in Locals(c) /\ v # w
      BY DEF Above
    <2>2. ASSUME NEW T \in SUBSET Locals(c), u \in T, Upward(c, T) PROVE v \in T
      <3>1. w \in T
        BY <1>2, <2>2 DEF Upward
      <3> QED BY <2>2, <3>1 DEF Above
    <2>3. v # u
      <3>1. 0 .. w \in SUBSET Locals(c) /\ w \in 0 .. w
        BY <1>1
      <3>2. Upward(c, 0 .. w)
        <4>1. ASSUME NEW x \in 0 .. w, c.parent[x] # 0 PROVE c.parent[x] - 1 \in 0 .. w
          <5>1. x \in Locals(c)
            BY <3>1
          <5>2. c.parent[x] \in Nat /\ c.parent[x] <= x /\ x \in Nat /\ x <= w
            BY <1>1, <5>1
          <5>3. w \in Nat
            BY <1>1
          <5> HIDE DEF Upward
          <5> QED BY <4>1, <5>2, <5>3
        <4> QED BY <4>1 DEF Upward
      <3>3. v \in 0 .. w
        BY <3>1, <3>2 DEF Above
      <3> QED BY <1>1, <1>2, <3>3
    <2> QED BY <2>1, <2>2, <2>3 DEF Above
  <1>5. ASSUME NEW v \in Above(c, u), v # w PROVE v \in Above(c, w)
    <2>1. v \in Locals(c) /\ v # u
      BY DEF Above
    <2>2. ASSUME NEW T \in SUBSET Locals(c), w \in T, Upward(c, T) PROVE v \in T
      <3>1. T \cup {u} \in SUBSET Locals(c) /\ u \in T \cup {u}
        OBVIOUS
      <3>2. Upward(c, T \cup {u})
        BY <1>2, <2>2 DEF Upward
      <3>3. v \in T \cup {u}
        BY <3>1, <3>2 DEF Above
      <3> QED BY <2>1, <3>3
    <2> QED BY <1>5, <2>1, <2>2 DEF Above
  <1>6. Above(c, u) = Above(c, w) \cup {w} /\ w \notin Above(c, w)
    <2>1. w \notin Above(c, w)
      BY DEF Above
    <2> QED BY <1>3, <1>4, <1>5, <2>1
  <1>7. IsFiniteSet(Above(c, w)) /\ Cardinality(Above(c, w)) \in Nat
    <2>1. Above(c, w) \in SUBSET Locals(c)
      BY DEF Above
    <2>2. IsFiniteSet(0 .. Total(c) - 1)
      <3>1. 0 \in Int /\ Total(c) - 1 \in Int
        BY <1>1
      <3> QED BY <3>1, FS_Interval
    <2>3. IsFiniteSet(Locals(c))
      BY <1>1, <2>2
    <2> QED BY <2>1, <2>3, FS_Subset, FS_CardinalityType
  <1>8. Cardinality(Above(c, w) \cup {w}) = Cardinality(Above(c, w)) + 1
    BY <1>6, <1>7, FS_AddElement
  <1> QED BY <1>6, <1>7, <1>8 DEF Depth

\* A set of real vertices with everything in front of its members is a prefix.
LEMMA PrefixCount ==
    ASSUME NEW a \in Nat, NEW n \in Nat, NEW S \in SUBSET (a .. a + n - 1),
           \A x \in S, y \in a .. a + n - 1 : y <= x => y \in S,
           NEW k \in 0 .. n - 1
    PROVE  a + k \in S <=> k < Cardinality(S)
  <1>1. IsFiniteSet(S) /\ Cardinality(S) \in Nat
    <2>1. a \in Int /\ a + n - 1 \in Int
      OBVIOUS
    <2>2. IsFiniteSet(a .. a + n - 1)
      BY <2>1, FS_Interval
    <2> QED BY <2>2, FS_Subset, FS_CardinalityType
  <1>2. ASSUME a + k \in S PROVE k < Cardinality(S)
    <2>1. a .. a + k \in SUBSET S
      <3>1. ASSUME NEW y \in a .. a + k PROVE y \in S
        <4>1. y \in a .. a + n - 1 /\ y <= a + k
          OBVIOUS
        <4> QED BY <1>2, <4>1
      <3> QED BY <3>1
    <2>2. Cardinality(a .. a + k) = k + 1
      <3>1. a \in Int /\ a + k \in Int
        OBVIOUS
      <3>2. Cardinality(a .. a + k) = IF a > a + k THEN 0 ELSE (a + k) - a + 1
        BY <3>1, FS_Interval
      <3> QED BY <3>2
    <2>3. Cardinality(a .. a + k) <= Cardinality(S)
      BY <1>1, <2>1, FS_Subset
    <2> QED BY <1>1, <2>2, <2>3
  <1>3. ASSUME a + k \notin S PROVE ~(k < Cardinality(S))
    <2>1. S \in SUBSET (a .. a + k - 1)
      <3>1. ASSUME NEW y \in S PROVE y \in a .. a + k - 1
        <4>1. y \in a .. a + n - 1 /\ a + k \in a .. a + n - 1
          OBVIOUS
        <4>2. ~(a + k <= y)
          BY <1>3, <4>1
        <4> QED BY <4>1, <4>2
      <3> QED BY <3>1
    <2>2. IsFiniteSet(a .. a + k - 1) /\ Cardinality(a .. a + k - 1) = k
      <3>1. a \in Int /\ a + k - 1 \in Int
        OBVIOUS
      <3>2. /\ IsFiniteSet(a .. a + k - 1)
            /\ Cardinality(a .. a + k - 1) =
                  IF a > a + k - 1 THEN 0 ELSE (a + k - 1) - a + 1
        BY <3>1, FS_Interval
      <3> QED BY <3>2
    <2>3. Cardinality(S) <= Cardinality(a .. a + k - 1)
      BY <2>1, <2>2, FS_Subset
    <2> QED BY <1>1, <2>2, <2>3
  <1> QED BY <1>2, <1>3

-----------------------------------------------------------------------------
(***************************************************************************)
(* The end of the walk.                                                    *)
(***************************************************************************)
Walked == IsForest(cluster) /\ WalkInv /\ visited = level /\ level = Len(bfs)

LEMMA AllListed ==
    ASSUME Walked
    PROVE  /\ Len(bfs) = Total(cluster)
           /\ \A v \in Locals(cluster) : Listed(v)
           /\ BfsOld = bfs
  <1> DEFINE c == cluster
             T == {v \in Locals(c) : ~Listed(v)}
             L == Len(bfs)
  <1>1. bfs \in Seq(Locals(c)) /\ L \in Nat /\ visited = L
    BY DEF Walked, WalkInv, Places
  <1>2. T = {}
    <2>1. CASE T # {}
      <3>1. T \in SUBSET Locals(c)
        OBVIOUS
      <3>2. PICK v \in T : c.parent[v] = 0 \/ c.parent[v] - 1 \notin T
        BY <2>1, <3>1 DEF Walked, IsForest, Rooted
      <3>3. v \in Locals(c) /\ ~Listed(v) /\ c.parent[v] # 0
        BY DEF Walked, WalkInv, ListedRight
      <3>4. c.parent[v] \in 0 .. Total(c) /\ Locals(c) = 0 .. Total(c) - 1 /\ Total(c) \in Nat
        BY <3>3, ForestFacts DEF Walked
      <3>5. c.parent[v] - 1 \in Locals(c)
        BY <3>3, <3>4
      <3>6. Listed(c.parent[v] - 1)
        BY <3>2, <3>3, <3>5
      <3>7. PICK j \in 1 .. L : bfs[j] = c.parent[v] - 1
        BY <3>6 DEF Listed
      <3>8. j \in 1 .. visited /\ c.parent[v] = bfs[j] + 1
        BY <1>1, <3>4, <3>7
      <3>9. Listed(v)
        BY <3>3, <3>8 DEF Walked, WalkInv, ListedRight
      <3> QED BY <3>3, <3>9
    <2> QED BY <2>1
  <1>3. \A v \in Locals(c) : Listed(v)
    BY <1>2
  <1>4. L = Total(c)
    <2>1. bfs \in [1 .. L -> Locals(c)]
      BY <1>1
    <2>2. \A v \in Locals(c) : \E k \in 1 .. L : bfs[k] = v
      BY <1>3 DEF Listed
    <2>3. \A j, k \in 1 .. L : bfs[j] = bfs[k] => j = k
      BY DEF Walked, WalkInv, ListedOnce
    <2> HIDE DEF L
    <2>4. bfs \in Bijection(1 .. L, Locals(c))
      BY <2>1, <2>2, <2>3 DEF Bijection, Injection, Surjection, IsInjective
    <2>5. ExistsBijection(1 .. L, Locals(c))
      BY <2>4 DEF ExistsBijection
    <2>6. IsFiniteSet(1 .. L) /\ Cardinality(1 .. L) = L
      <3>1. 1 \in Int /\ L \in Int
        BY <1>1
      <3>2. IsFiniteSet(1 .. L) /\ Cardinality(1 .. L) = IF 1 > L THEN 0 ELSE L - 1 + 1
        BY <3>1, FS_Interval
      <3> QED BY <1>1, <3>2
    <2>7. Cardinality(Locals(c)) = Cardinality(1 .. L)
      BY <2>5, <2>6, FS_Bijection
    <2>8. Cardinality(Locals(c)) = Total(c)
      BY ForestFacts DEF Walked
    <2> QED BY <2>6, <2>7, <2>8
  <1>5. BfsOld = bfs
    <2> DEFINE M == Locals(c) \ {bfs[k] : k \in 1 .. L}
    <2>1. M = {}
      BY <1>3 DEF Listed
    <2>2. Cardinality({}) = 0
      BY FS_EmptySet
    <2>3. {} \in SUBSET Locals(c)
      OBVIOUS
    <2>4. Sorted(c, {}) \in Seq(Locals(c)) /\ Len(Sorted(c, {})) = 0
      BY <2>2, <2>3, SortedFacts DEF Walked
    <2>5. bfs \o Sorted(c, {}) = bfs
      BY <1>1, <2>4
    <2> QED BY <2>1, <2>5 DEF BfsOld
  <1> QED BY <1>3, <1>4, <1>5

\* Renumbered's fields, and the two numberings of a vertex.
LEMMA NewFields ==
    ASSUME Walked, NEW f, f = Renumbered(bfs)
    PROVE  /\ f.nv = cluster.nv /\ f.nr = cluster.nr
           /\ Total(f) = Total(cluster) /\ Locals(f) = Locals(cluster)
           /\ \A u \in Locals(cluster) :
                 f.parent[u] = ParentNew(bfs, cluster.parent[bfs[u + 1]])
           /\ \A k \in 0 .. cluster.nr - 1 :
                 f.indices[k] =
                    IF bfs[k + cluster.nv + 1] \in RealsOf(cluster)
                    THEN cluster.indices[bfs[k + cluster.nv + 1] - cluster.nv] ELSE 0
           /\ DOMAIN f.depth_offsets = 0 .. MaxDepthReal(bfs) + 1
           /\ \A e \in DOMAIN f.depth_offsets :
                 f.depth_offsets[e] =
                    Cardinality({u \in RealsOf(cluster) : depth_old[bfs[u + 1]] < e})
  BY DEF Renumbered, OldLocal, Total, Locals

LEMMA OldFacts ==
    ASSUME Walked
    PROVE  /\ cluster.nv \in Nat /\ cluster.nr \in Nat
           /\ Total(cluster) \in Nat /\ Total(cluster) = cluster.nv + cluster.nr
           /\ Locals(cluster) = 0 .. Total(cluster) - 1
           /\ \A u \in Locals(cluster) : u \in Nat /\ u + 1 \in 1 .. Len(bfs)
           /\ \A u \in Locals(cluster) : bfs[u + 1] \in Locals(cluster)
           /\ \A u \in Locals(cluster) : u < cluster.nv => bfs[u + 1] = u
           /\ \A u \in Locals(cluster) : bfs[u + 1] < cluster.nv => u < cluster.nv
           /\ \A v \in Locals(cluster) : \E u \in Locals(cluster) : bfs[u + 1] = v
  <1> DEFINE c == cluster
             L == Len(bfs)
  <1>1. /\ c.nv \in Nat /\ c.nr \in Nat
        /\ Total(c) \in Nat /\ Total(c) = c.nv + c.nr
        /\ Locals(c) = 0 .. Total(c) - 1
    BY ForestFacts DEF Walked
  <1>2. bfs \in Seq(Locals(c)) /\ L = Total(c)
    BY AllListed DEF Walked, WalkInv, Places
  <1>3. \A u \in Locals(c) : u \in Nat /\ u + 1 \in 1 .. L
    BY <1>1, <1>2
  <1>4. \A u \in Locals(c) : bfs[u + 1] \in Locals(c)
    BY <1>2, <1>3
  <1>5. \A u \in Locals(c) : u < c.nv => bfs[u + 1] = u
    BY DEF Walked, WalkInv, VirtualFront
  <1>6. ASSUME NEW u \in Locals(c), bfs[u + 1] < c.nv PROVE u < c.nv
    <2>1. bfs[u + 1] \in Locals(c)
      BY <1>4
    <2>2. bfs[bfs[u + 1] + 1] = bfs[u + 1]
      BY <1>5, <1>6, <2>1
    <2>3. bfs[u + 1] + 1 \in 1 .. L /\ u + 1 \in 1 .. L
      BY <1>3, <2>1
    <2>4. bfs[u + 1] + 1 = u + 1
      BY <2>2, <2>3 DEF Walked, WalkInv, ListedOnce
    <2>5. bfs[u + 1] = u
      BY <1>3, <2>1, <2>4
    <2> QED BY <1>6, <2>5
  <1>7. ASSUME NEW v \in Locals(c) PROVE \E u \in Locals(c) : bfs[u + 1] = v
    <2>1. PICK k \in 1 .. L : bfs[k] = v
      BY AllListed DEF Listed
    <2>2. k - 1 \in Locals(c) /\ (k - 1) + 1 = k
      BY <1>1, <1>2
    <2>3. bfs[(k - 1) + 1] = v
      BY <2>1, <2>2
    <2> QED BY <2>2, <2>3
  <1> QED BY <1>1, <1>3, <1>4, <1>5, <1>6, <1>7

\* The new parent is the place of the old one.
LEMMA NewParent ==
    ASSUME Walked, NEW f, f = Renumbered(bfs), NEW u \in Locals(cluster)
    PROVE  f.parent[u] \in 0 .. u /\ Under(u + 1, f.parent[u])
  <1> DEFINE c == cluster
             p == c.parent[bfs[u + 1]]
  <1>1. /\ u + 1 \in 1 .. Len(bfs) /\ bfs[u + 1] \in Locals(c) /\ u \in Nat
        /\ Total(c) \in Nat /\ Locals(c) = 0 .. Total(c) - 1
    BY OldFacts
  <1>2. f.parent[u] = ParentNew(bfs, p)
    BY NewFields
  <1>3. p \in 0 .. Total(c)
    BY <1>1, ForestFacts DEF Walked
  <1>4. bfs \in Seq(Locals(c)) /\ Len(bfs) \in Nat
    BY DEF Walked, WalkInv, Places
  <1> HIDE DEF p
  <1>5. CASE p = 0
    <2>1. f.parent[u] = 0
      BY <1>2, <1>3, <1>5 DEF ParentNew
    <2> QED BY <1>1, <1>5, <2>1 DEF Under, p
  <1>6. CASE p # 0
    <2>1. p \in 1 .. Total(c) /\ p - 1 \in Locals(c)
      BY <1>1, <1>3, <1>6
    <2>2. \E k \in 1 .. Len(bfs) : bfs[k] = p - 1
      BY <2>1, AllListed DEF Listed
    <2> DEFINE j == CHOOSE k \in 1 .. Len(bfs) : bfs[k] = p - 1
    <2>3. j \in 1 .. Len(bfs) /\ bfs[j] = p - 1
      BY <2>2
    <2>4. f.parent[u] = (j - 1) + 1
      BY <1>2, <2>1 DEF ParentNew, Old2New
    <2> HIDE DEF j
    <2>5. f.parent[u] = j
      BY <1>4, <2>3, <2>4
    <2>6. p = bfs[j] + 1
      BY <1>3, <2>3
    <2>7. Under(u + 1, j)
      BY <2>3, <2>6 DEF Under, p
    <2>8. j < u + 1
      <3>1. j \in 0 .. Len(bfs)
        BY <1>4, <2>3
      <3> QED BY <1>1, <2>7, <3>1, UnderOne DEF Walked
    <2>9. j \in 0 .. u
      BY <1>1, <1>4, <2>3, <2>8
    <2> QED BY <2>5, <2>7, <2>9
  <1> QED BY <1>5, <1>6

LEMMA SameEdges ==
    ASSUME Walked, NEW f, f = Renumbered(bfs)
    PROVE  Edges(f) = Edges(cluster)
  <1> DEFINE c == cluster
  <1>1. /\ c.nv \in Nat /\ c.nr \in Nat /\ Total(c) = c.nv + c.nr /\ Total(c) \in Nat
        /\ Locals(c) = 0 .. Total(c) - 1 /\ Locals(f) = Locals(c) /\ f.nv = c.nv
    BY OldFacts, NewFields
  <1>2. /\ \A u \in Locals(c) : u \in Nat
        /\ \A u \in Locals(c) : bfs[u + 1] \in Locals(c)
        /\ \A u \in Locals(c) : u < c.nv => bfs[u + 1] = u
        /\ \A u \in Locals(c) : bfs[u + 1] < c.nv => u < c.nv
    BY OldFacts
  <1>3. ASSUME NEW u \in Locals(c) PROVE Name(f, u) = Name(c, bfs[u + 1])
    <2>1. CASE u < c.nv
      BY <1>1, <1>2, <2>1 DEF Name, Virtual
    <2>2. CASE ~(u < c.nv)
      <3>1. u - c.nv \in 0 .. c.nr - 1 /\ (u - c.nv) + c.nv + 1 = u + 1
        BY <1>1, <1>2, <2>2
      <3>2. bfs[u + 1] \in RealsOf(c)
        BY <1>2, <2>2 DEF RealsOf, Virtual
      <3>3. f.indices[u - c.nv] =
                IF bfs[(u - c.nv) + c.nv + 1] \in RealsOf(c)
                THEN c.indices[bfs[(u - c.nv) + c.nv + 1] - c.nv] ELSE 0
        BY <3>1, NewFields
      <3>4. f.indices[u - c.nv] = c.indices[bfs[u + 1] - c.nv]
        BY <3>1, <3>2, <3>3
      <3> QED BY <1>1, <1>2, <2>2, <3>4 DEF Name, Virtual
    <2> QED BY <2>1, <2>2
  <1>4. ASSUME NEW u \in Locals(c) PROVE Edge(f, u) = Edge(c, bfs[u + 1])
    <2>1. f.parent[u] \in 0 .. u /\ Under(u + 1, f.parent[u])
      BY NewParent
    <2>2. Name(f, u) = Name(c, bfs[u + 1])
      BY <1>3
    <2>3. CASE f.parent[u] = 0
      <3>1. c.parent[bfs[u + 1]] = 0
        BY <2>1, <2>3 DEF Under
      <3> QED BY <2>2, <2>3, <3>1 DEF Edge
    <2>4. CASE f.parent[u] # 0
      <3>1. /\ c.parent[bfs[u + 1]] = bfs[f.parent[u]] + 1
            /\ f.parent[u] - 1 \in Locals(c) /\ (f.parent[u] - 1) + 1 = f.parent[u]
        <4>1. u \in Nat /\ u < Total(c)
          BY <1>1
        <4>2. f.parent[u] - 1 \in Locals(c) /\ (f.parent[u] - 1) + 1 = f.parent[u]
          BY <1>1, <2>1, <2>4, <4>1
        <4> QED BY <2>1, <2>4, <4>2 DEF Under
      <3>2. bfs[f.parent[u]] \in Nat
        BY <1>2, <3>1
      <3>3. c.parent[bfs[u + 1]] # 0 /\ c.parent[bfs[u + 1]] - 1 = bfs[f.parent[u]]
        BY <3>1, <3>2
      <3>4. Name(f, f.parent[u] - 1) = Name(c, bfs[(f.parent[u] - 1) + 1])
        BY <1>3, <3>1
      <3> QED BY <2>2, <2>4, <3>1, <3>3, <3>4 DEF Edge
    <2> QED BY <2>3, <2>4
  <1>5. \A x : x \in Edges(f) <=> x \in Edges(c)
    <2>1. ASSUME NEW u \in Locals(c) PROVE Edge(f, u) \in Edges(c)
      BY <1>2, <1>4 DEF Edges
    <2>2. ASSUME NEW v \in Locals(c) PROVE Edge(c, v) \in Edges(f)
      <3>1. PICK u \in Locals(c) : bfs[u + 1] = v
        BY OldFacts
      <3>2. Edge(f, u) = Edge(c, v)
        BY <1>4, <3>1
      <3> QED BY <1>1, <3>2 DEF Edges
    <2> QED BY <1>1, <2>1, <2>2 DEF Edges
  <1> QED BY <1>5

LEMMA NewDepth ==
    ASSUME Walked, NEW f, f = Renumbered(bfs), NEW u \in Locals(cluster)
    PROVE  Depth(f, u) = LevelAt(u + 1) /\ LevelAt(u + 1) = depth_old[bfs[u + 1]]
  <1> DEFINE c == cluster
             Wrong == {v \in Locals(c) : Depth(f, v) # LevelAt(v + 1)}
  <1>1. /\ \A v \in Locals(c) : v \in Nat /\ v + 1 \in 1 .. Len(bfs)
        /\ Total(c) \in Nat /\ Locals(c) = 0 .. Total(c) - 1
        /\ Locals(f) = Locals(c) /\ Total(f) = Total(c)
    BY OldFacts, NewFields
  <1>2. \A v \in Locals(c) : f.parent[v] \in 0 .. v /\ Under(v + 1, f.parent[v])
    BY NewParent
  <1>3. Smaller(f)
    BY <1>1, <1>2 DEF Smaller
  <1>4. visited = Len(bfs) /\ Len(bfs) \in Nat
    BY DEF Walked, WalkInv, Places
  <1>5. CASE Wrong # {}
    <2>1. Wrong \in SUBSET Nat
      BY <1>1
    <2>2. PICK v \in Wrong : \A w \in Wrong : v <= w
      BY <1>5, <2>1, Minimum
    <2>3. v \in Locals(c) /\ v \in Nat
      BY <1>1
    <2>4. CASE f.parent[v] = 0
      <3>1. Depth(f, v) = 0
        BY <1>1, <1>3, <2>3, <2>4, DepthOfRoot
      <3>2. LevelAt(v + 1) = 0
        BY <1>1, <1>2, <2>3, <2>4 DEF Walked, WalkInv, LevelsRight
      <3> QED BY <3>1, <3>2
    <2>5. CASE f.parent[v] # 0
      <3>1. PICK w : w = f.parent[v] - 1
        OBVIOUS
      <3>2. f.parent[v] = w + 1 /\ w \in Locals(c) /\ w < v /\ w + 1 \in 1 .. visited
        <4>1. f.parent[v] \in 0 .. v
          BY <1>2, <2>3
        <4>2. v \in Nat /\ v + 1 \in 1 .. Len(bfs)
          BY <1>1, <2>3
        <4>3. f.parent[v] = w + 1 /\ w \in 0 .. v - 1
          BY <2>5, <3>1, <4>1, <4>2
        <4>4. w \in Locals(c)
          <5>1. v < Total(c)
            BY <1>1, <2>3
          <5> QED BY <1>1, <4>2, <4>3, <5>1
        <4> QED BY <1>4, <4>2, <4>3, <4>4
      <3>3. Depth(f, v) = Depth(f, w) + 1
        BY <1>1, <1>3, <2>3, <3>2, DepthOfChild
      <3>4. LevelAt(v + 1) = LevelAt(w + 1) + 1
        BY <1>1, <1>2, <2>3, <3>2 DEF Walked, WalkInv, LevelsRight
      <3>5. w \notin Wrong
        BY <1>1, <2>2, <2>3, <3>2
      <3> QED BY <3>2, <3>3, <3>4, <3>5
    <2> QED BY <2>4, <2>5
  <1>6. CASE Wrong = {}
    <2>1. Depth(f, u) = LevelAt(u + 1)
      BY <1>6
    <2>2. u + 1 <= visited
      BY <1>1, <1>4
    <2> QED BY <2>1, <2>2 DEF LevelAt
  <1> QED BY <1>5, <1>6

\* The level of the vertex that gets number u.
LevelOf(u) == depth_old[bfs[u + 1]]
RealNumbers == cluster.nv .. cluster.nv + cluster.nr - 1

LEMMA NewOrder ==
    ASSUME Walked, NEW f, f = Renumbered(bfs)
    PROVE  /\ cluster.nv \in Nat /\ cluster.nr \in Nat /\ Total(cluster) = cluster.nv + cluster.nr
           /\ Locals(cluster) = 0 .. Total(cluster) - 1 /\ Locals(f) = Locals(cluster)
           /\ f.nv = cluster.nv /\ f.nr = cluster.nr
           /\ \A u \in Locals(cluster) :
                 u \in Nat /\ u + 1 \in 1 .. Len(bfs) /\ bfs[u + 1] \in Locals(cluster)
           /\ \A u \in Locals(cluster) : f.parent[u] \in 0 .. u /\ Under(u + 1, f.parent[u])
           /\ \A u \in Locals(cluster) :
                 LevelOf(u) \in Nat /\ Depth(f, u) = LevelOf(u) /\ LevelAt(u + 1) = LevelOf(u)
           /\ \A u, v \in Locals(cluster) : u <= v => LevelOf(u) <= LevelOf(v)
           /\ \A u, v \in Locals(cluster) : u <= v => f.parent[u] <= f.parent[v]
           /\ MaxDepthReal(bfs) \in Nat
           /\ \A u \in RealNumbers : LevelOf(u) <= MaxDepthReal(bfs)
           /\ RealsOf(cluster) = RealNumbers
  <1> DEFINE c == cluster
             D(u) == LevelOf(u)
             Reals == RealNumbers
  <1>1. /\ c.nv \in Nat /\ c.nr \in Nat /\ Total(c) = c.nv + c.nr
        /\ Locals(c) = 0 .. Total(c) - 1 /\ Locals(f) = Locals(c)
        /\ f.nv = c.nv /\ f.nr = c.nr
        /\ \A u \in Locals(c) : u \in Nat /\ u + 1 \in 1 .. Len(bfs) /\ bfs[u + 1] \in Locals(c)
    BY OldFacts, NewFields
  <1>2. \A u \in Locals(c) : f.parent[u] \in 0 .. u /\ Under(u + 1, f.parent[u])
    BY NewParent
  <1>3. RealsOf(c) = Reals /\ Reals = c.nv .. c.nv + c.nr - 1
    BY <1>1 DEF RealsOf, Virtual, RealNumbers
  <1>4. \A u \in Locals(c) : D(u) \in Nat /\ Depth(f, u) = D(u) /\ LevelAt(u + 1) = D(u)
    <2>1. depth_old \in [Locals(c) -> Nat]
      BY DEF Walked, WalkInv, Places
    <2> QED BY <1>1, <2>1, NewDepth DEF LevelOf
  <1> HIDE DEF D
  <1>5. \A u, v \in Locals(c) : u <= v => D(u) <= D(v)
    <2>1. ASSUME NEW u \in Locals(c), NEW v \in Locals(c), u <= v PROVE D(u) <= D(v)
      <3>1. u + 1 \in 1 .. Len(bfs) /\ v + 1 \in 1 .. Len(bfs) /\ u + 1 <= v + 1
        BY <1>1, <2>1
      <3>2. LevelAt(u + 1) <= LevelAt(v + 1)
        BY <3>1 DEF Walked, WalkInv, LevelsAscend
      <3> QED BY <1>4, <3>2
    <2> QED BY <2>1
  <1>6. ASSUME NEW u \in Locals(c), NEW v \in Locals(c), u <= v
        PROVE  f.parent[u] <= f.parent[v]
    <2>1. /\ u + 1 \in 1 .. Len(bfs) /\ v + 1 \in 1 .. Len(bfs) /\ u \in Nat /\ v \in Nat
          /\ f.parent[u] \in 0 .. u /\ f.parent[v] \in 0 .. v
          /\ Under(u + 1, f.parent[u]) /\ Under(v + 1, f.parent[v])
      BY <1>1, <1>2
    <2>2. CASE u = v
      BY <2>1, <2>2
    <2>3. CASE u < v
      <3>1. u + 1 < v + 1
        BY <2>1, <2>3
      <3>2. f.parent[u] \in 0 .. Len(bfs) /\ f.parent[v] \in 0 .. Len(bfs)
        BY <2>1
      <3> QED BY <2>1, <3>1, <3>2 DEF Walked, WalkInv, ParentsAscend
    <2> QED BY <1>6, <2>1, <2>2, <2>3
  <1>7. MaxDepthReal(bfs) \in Nat /\ \A u \in Reals : D(u) <= MaxDepthReal(bfs)
    <2>1. DepthsOf(bfs) = {0} \cup {D(u) : u \in Reals}
      BY <1>3 DEF DepthsOf, OldLocal, LevelOf, D
    <2>2. \A u \in Reals : u \in Locals(c) /\ D(u) \in Nat
      BY <1>1, <1>3, <1>4
    <2>3. \E d \in DepthsOf(bfs) : \A e \in DepthsOf(bfs) : e <= d
      <3>1. CASE c.nr = 0
        <4>1. Reals = {}
          BY <1>1, <1>3, <3>1
        <4>2. DepthsOf(bfs) = {0}
          BY <2>1, <4>1
        <4> QED BY <4>2
      <3>2. CASE c.nr > 0
        <4>1. PICK w : w = c.nv + c.nr - 1
          OBVIOUS
        <4>2. w \in Reals /\ w \in Locals(c) /\ \A u \in Reals : u \in Locals(c) /\ u <= w
          BY <1>1, <1>3, <3>2, <4>1
        <4>3. \A u \in Reals : D(u) <= D(w)
          BY <1>5, <4>2
        <4>4. D(w) \in DepthsOf(bfs) /\ 0 <= D(w)
          BY <1>4, <2>1, <4>2
        <4> QED BY <2>1, <4>3, <4>4
      <3> QED BY <1>1, <3>1, <3>2
    <2>4. /\ MaxDepthReal(bfs) \in DepthsOf(bfs)
          /\ \A e \in DepthsOf(bfs) : e <= MaxDepthReal(bfs)
      BY <2>3 DEF MaxDepthReal
    <2> QED BY <2>1, <2>2, <2>4
  <1> QED BY <1>1, <1>2, <1>3, <1>4, <1>5, <1>6, <1>7 DEF D

\* How many real vertices have a level below e.
LEMMA NewOffsets ==
    ASSUME Walked, NEW f, f = Renumbered(bfs), NEW e \in DOMAIN f.depth_offsets
    PROVE  /\ f.depth_offsets[e] \in 0 .. cluster.nr
           /\ \A k \in 0 .. cluster.nr - 1 :
                 LevelOf(cluster.nv + k) < e <=> k < f.depth_offsets[e]
  <1> DEFINE c == cluster
             D(u) == LevelOf(u)
             Reals == RealNumbers
             S == {u \in Reals : D(u) < e}
  <1>1. /\ c.nv \in Nat /\ c.nr \in Nat /\ Total(c) = c.nv + c.nr
        /\ Locals(c) = 0 .. Total(c) - 1 /\ Reals = RealsOf(c)
        /\ Reals = c.nv .. c.nv + c.nr - 1
    BY NewOrder DEF RealNumbers
  <1>2. e \in Int
    <2>1. DOMAIN f.depth_offsets = 0 .. MaxDepthReal(bfs) + 1 /\ MaxDepthReal(bfs) \in Nat
      BY NewFields, NewOrder
    <2> QED BY <2>1
  <1>3. f.depth_offsets[e] = Cardinality(S)
    <2>1. S = {u \in RealsOf(c) : depth_old[bfs[u + 1]] < e}
      BY <1>1 DEF LevelOf
    <2>2. f.depth_offsets[e] = Cardinality({u \in RealsOf(c) : depth_old[bfs[u + 1]] < e})
      BY NewFields
    <2> QED BY <2>1, <2>2
  <1>4. S \in SUBSET (c.nv .. c.nv + c.nr - 1)
    BY <1>1
  <1>5. ASSUME NEW x \in S, NEW y \in c.nv .. c.nv + c.nr - 1, y <= x PROVE y \in S
    <2>1. x \in Locals(c) /\ y \in Locals(c) /\ D(x) < e /\ y \in Reals
      BY <1>1
    <2>2. D(y) <= D(x) /\ D(y) \in Nat /\ D(x) \in Nat
      BY <1>5, <2>1, NewOrder
    <2> QED BY <1>2, <2>1, <2>2
  <1>6. ASSUME NEW k \in 0 .. c.nr - 1 PROVE c.nv + k \in S <=> D(c.nv + k) < e
    BY <1>1
  <1> HIDE DEF S, D
  <1>7. ASSUME NEW k \in 0 .. c.nr - 1 PROVE c.nv + k \in S <=> k < Cardinality(S)
    BY <1>1, <1>4, <1>5, PrefixCount
  <1>8. Cardinality(S) \in 0 .. c.nr
    <2>1. c.nv \in Int /\ c.nv + c.nr - 1 \in Int
      BY <1>1
    <2>2. /\ IsFiniteSet(c.nv .. c.nv + c.nr - 1)
          /\ Cardinality(c.nv .. c.nv + c.nr - 1) =
                IF c.nv > c.nv + c.nr - 1 THEN 0 ELSE (c.nv + c.nr - 1) - c.nv + 1
      BY <2>1, FS_Interval
    <2>3. Cardinality(c.nv .. c.nv + c.nr - 1) = c.nr
      BY <1>1, <2>2
    <2>4. IsFiniteSet(S) /\ Cardinality(S) <= Cardinality(c.nv .. c.nv + c.nr - 1)
      BY <1>4, <2>2, FS_Subset
    <2>5. Cardinality(S) \in Nat
      BY <2>4, FS_CardinalityType
    <2> QED BY <1>1, <2>3, <2>4, <2>5
  <1> QED BY <1>3, <1>6, <1>7, <1>8 DEF D

LEMMA NewLevels ==
    ASSUME Walked, NEW f, f = Renumbered(bfs)
    PROVE  InLevels(f)
  <1> DEFINE c == cluster
  <1>1. ASSUME NEW u \in Locals(c)
        PROVE  f.parent[u] <= u /\ (u > 0 => f.parent[u - 1] <= f.parent[u])
    <2>1. /\ u \in Nat /\ f.parent[u] \in 0 .. u /\ Locals(c) = 0 .. Total(c) - 1
          /\ Total(c) = c.nv + c.nr /\ c.nv \in Nat /\ c.nr \in Nat
      BY NewOrder
    <2>2. ASSUME u > 0 PROVE f.parent[u - 1] <= f.parent[u]
      <3>1. u - 1 \in Locals(c) /\ u - 1 <= u
        BY <2>1, <2>2
      <3> QED BY <3>1, NewOrder
    <2> QED BY <2>1, <2>2
  <1>2. ASSUME NEW k \in 0 .. c.nr - 1
        PROVE  /\ Depth(f, c.nv + k) + 1 \in DOMAIN f.depth_offsets
               /\ \A e \in DOMAIN f.depth_offsets :
                     Depth(f, c.nv + k) < e <=> k < f.depth_offsets[e]
    <2>1. c.nv + k \in RealNumbers /\ c.nv + k \in Locals(c)
      <3>1. /\ Locals(c) = 0 .. Total(c) - 1 /\ Total(c) = c.nv + c.nr
            /\ c.nv \in Nat /\ c.nr \in Nat
        BY NewOrder
      <3> QED BY <3>1 DEF RealNumbers
    <2>2. Depth(f, c.nv + k) = LevelOf(c.nv + k) /\ LevelOf(c.nv + k) \in Nat
      BY <2>1, NewOrder
    <2>3. DOMAIN f.depth_offsets = 0 .. MaxDepthReal(bfs) + 1
      BY NewFields
    <2>4. LevelOf(c.nv + k) <= MaxDepthReal(bfs) /\ MaxDepthReal(bfs) \in Nat
      BY <2>1, NewOrder
    <2>5. LevelOf(c.nv + k) + 1 \in 0 .. MaxDepthReal(bfs) + 1
      BY <2>2, <2>4
    <2> QED BY <2>2, <2>3, <2>5, NewOffsets
  <1>3. Locals(f) = Locals(c) /\ f.nv = c.nv /\ f.nr = c.nr
    BY NewOrder
  <1> QED BY <1>1, <1>2, <1>3 DEF InLevels

\* The roots are the virtual vertices and the first depth_offsets[1] real ones.
LEMMA NewDelivered ==
    ASSUME Walked, NEW f, f = Renumbered(bfs)
    PROVE  Delivered(f)
  <1> DEFINE c == cluster
             r == f.depth_offsets[1]
  <1>1. /\ c.nv \in Nat /\ c.nr \in Nat /\ Total(c) = c.nv + c.nr
        /\ Locals(c) = 0 .. Total(c) - 1 /\ Locals(f) = Locals(c)
        /\ f.nv = c.nv /\ f.nr = c.nr
        /\ \A u \in Locals(c) : u \in Nat /\ f.parent[u] \in 0 .. u
        /\ \A u, v \in Locals(c) : u <= v => f.parent[u] <= f.parent[v]
    BY NewOrder
  <1>2. Total(f) = Total(c) /\ Total(c) > 0
    BY NewFields, ForestFacts DEF Walked
  <1>3. r \in 0 .. c.nr /\ \A k \in 0 .. c.nr - 1 : LevelOf(c.nv + k) < 1 <=> k < r
    <2>1. 1 \in DOMAIN f.depth_offsets
      <3>1. DOMAIN f.depth_offsets = 0 .. MaxDepthReal(bfs) + 1 /\ MaxDepthReal(bfs) \in Nat
        BY NewFields, NewOrder
      <3> QED BY <3>1
    <2> QED BY <2>1, NewOffsets
  <1> HIDE DEF r
  <1>4. ASSUME NEW u \in Locals(c) PROVE f.parent[u] = 0 <=> LevelOf(u) < 1
    <2>1. /\ u + 1 \in 1 .. Len(bfs) /\ Under(u + 1, f.parent[u]) /\ f.parent[u] \in 0 .. u
          /\ LevelAt(u + 1) = LevelOf(u) /\ LevelOf(u) \in Nat /\ u \in Nat
      BY NewOrder
    <2>2. ASSUME f.parent[u] = 0 PROVE LevelOf(u) = 0
      BY <2>1, <2>2 DEF Walked, WalkInv, LevelsRight
    <2>3. ASSUME f.parent[u] # 0 PROVE LevelOf(u) >= 1
      <3>1. PICK w : w = f.parent[u] - 1
        OBVIOUS
      <3>2. f.parent[u] = w + 1 /\ w \in 0 .. u - 1 /\ w \in Locals(c)
        <4>1. f.parent[u] = w + 1 /\ w \in 0 .. u - 1
          BY <2>1, <2>3, <3>1
        <4>2. u < Total(c) /\ Total(c) \in Nat /\ Locals(c) = 0 .. Total(c) - 1
          BY <1>1
        <4> QED BY <2>1, <4>1, <4>2
      <3>3. w + 1 \in 1 .. visited
        <4>1. visited = Len(bfs) /\ Len(bfs) \in Nat
          BY DEF Walked, WalkInv, Places
        <4> QED BY <2>1, <3>2, <4>1
      <3>4. LevelAt(u + 1) = LevelAt(w + 1) + 1
        BY <2>1, <3>2, <3>3 DEF Walked, WalkInv, LevelsRight
      <3>5. LevelAt(w + 1) \in Nat
        BY <3>2, NewOrder
      <3> QED BY <2>1, <3>4, <3>5
    <2> QED BY <2>1, <2>2, <2>3
  <1>5. ASSUME NEW u \in Locals(c) PROVE f.parent[u] = 0 <=> u < c.nv + r
    <2>1. CASE u < c.nv
      <3>1. bfs[u + 1] = u /\ c.parent[u] = 0
        BY <2>1, OldFacts, ForestFacts DEF Walked
      <3>2. f.parent[u] = 0
        BY <3>1, NewFields DEF ParentNew
      <3> QED BY <1>1, <1>3, <2>1, <3>2
    <2>2. CASE ~(u < c.nv)
      <3>1. PICK k : k = u - c.nv
        OBVIOUS
      <3>2. k \in 0 .. c.nr - 1 /\ u = c.nv + k
        BY <1>1, <2>2, <3>1
      <3>3. LevelOf(u) < 1 <=> k < r
        BY <1>3, <3>2
      <3> QED BY <1>1, <1>3, <1>4, <3>2, <3>3
    <2> QED BY <2>1, <2>2
  <1>6. DOMAIN f.parent = Locals(c)
    BY DEF Renumbered
  <1>7. f.parent \in [Locals(c) -> Nat]
    <2>1. f.parent = [u \in Locals(c) |-> f.parent[u]]
      BY <1>6 DEF Renumbered
    <2> QED BY <1>1, <2>1
  <1> QED BY <1>1, <1>2, <1>3, <1>5, <1>7 DEF Delivered, r

LEMMA RenumberEnds ==
    ASSUME LInv, Renumber
    PROVE  LInv'
  <1>1. /\ Walked /\ built = cluster /\ built' = cluster
        /\ stage' = "final" /\ cluster' = Renumbered(BfsOld)
    BY DEF LInv, Renumber, Walked
  <1>2. cluster' = Renumbered(bfs)
    BY <1>1, AllListed
  <1>3. cluster'.nv = built'.nv /\ cluster'.nr = built'.nr
    BY <1>1, <1>2, NewFields
  <1>4. Edges(cluster') = Edges(built')
    BY <1>1, <1>2, SameEdges
  <1>5. InLevels(cluster')
    BY <1>1, <1>2, NewLevels
  <1>6. SameForestInLevels'
    BY <1>1, <1>3, <1>4, <1>5 DEF SameForestInLevels
  <1>7. Delivered(cluster')
    BY <1>1, <1>2, NewDelivered
  <1> QED BY <1>1, <1>6, <1>7 DEF LInv

LEMMA LayoutStays ==
    ASSUME LInv, UNCHANGED layout
    PROVE  LInv'
  BY DEF layout, LInv, NotStarted, SameForestInLevels, WalkInv, Places, ListedOnce, ListedRight,
         Listed, ParentsEarlier, ParentsAscend, Under, VirtualFront, LevelsRight,
         LevelsAscend, LevelAt, Delivered

LEMMA LayoutSteps ==
    ASSUME LInv, LayoutNext
    PROVE  LInv' /\ stage \in {"built", "layout"}
  <1>1. LInv'
    BY StartWalks, VisitWalks, NextLevelWalks, RenumberEnds DEF LayoutNext
  <1>2. stage \in {"built", "layout"}
    BY DEF LayoutNext, StartLayout, Visit, NextLevel, Renumber
  <1> QED BY <1>1, <1>2

LEMMA InductiveLayout == LayoutSpec => []LInv
  <1>1. LayoutInit => LInv
    BY DEF LayoutInit, LInv, SameForestInLevels
  <1>2. LInv /\ [LayoutNext]_layout => LInv'
    BY LayoutSteps, LayoutStays
  <1> QED BY <1>1, <1>2, PTL DEF LayoutSpec

(***************************************************************************)
(* Whatever forest a builder hands over, with whatever lists of vectors,   *)
(* FinalizeLinkageClusterBfsVirtualFrontInPlace renumbers it without       *)
(* changing an edge, in the order the parent LOUDS and the coefficient     *)
(* streams rely on, and its depth_offsets bound the vertices of each       *)
(* depth.                                                                  *)
(***************************************************************************)
THEOREM LayoutKeepsTheForest == LayoutSpec => []SameForestInLevels
  <1>1. LInv => SameForestInLevels
    BY DEF LInv
  <1> QED BY <1>1, InductiveLayout, PTL

-----------------------------------------------------------------------------
(***************************************************************************)
(* The bit of a vertex is at its number plus its parent's, and the ones    *)
(* come in the order of the vertices.                                      *)
(***************************************************************************)
Place(u) == u + cluster.parent[u]
HasPlace(p) == \E u \in Locals(cluster) : p = Place(u)
BitPositions == 0 .. NWords * W - 1

WordsOK == words \in [0 .. NWords - 1 -> SUBSET (0 .. W - 1)]
Written == \A p \in BitPositions : One(p) <=> HasPlace(p)

\* The children written so far are the vertices below `done'.
Writing ==
    LET done == put.pos - put.u
    IN /\ put \in [u : 0 .. Total(cluster) + 1, pos : Nat, remain : Nat]
       /\ done \in 0 .. Total(cluster)
       /\ put.remain \in 0 .. Total(cluster) - done
       /\ \A v \in Locals(cluster) :
             /\ v < done => cluster.parent[v] <= put.u
             /\ v >= done => (cluster.parent[v] = put.u <=> v < done + put.remain)
             /\ v >= done => cluster.parent[v] >= put.u
       /\ \A p \in BitPositions : One(p) <=> p < put.pos /\ HasPlace(p)

\* So are those the full decode has given a parent.
Decoding ==
    LET done == full.next_child - 1
    IN /\ full.node_id \in 0 .. Total(cluster) + 1
       /\ full.next_child \in 1 .. Total(cluster) + 1
       /\ full.prev_zero = full.node_id + done - 1
       /\ \A v \in Locals(cluster) : v < done <=> cluster.parent[v] < full.node_id
       /\ full.out \in [Locals(cluster) -> Int]
       /\ \A v \in Locals(cluster) : v < done => full.out[v] = cluster.parent[v]

\* A decoder that has emitted so many children has the ones of the next ones
\* up to the end of its word, and has left the words of the others behind.
Reads(d) ==
    /\ d \in [ones : SUBSET (0 .. W - 1), base : Nat, next : 0 .. NWords, emitted : Nat]
    /\ \A x \in d.ones : d.base + x < d.next * W
    /\ \A x \in d.ones : \E v \in Locals(cluster) : v >= d.emitted /\ d.base + x = Place(v)
    /\ \A v \in Locals(cluster) :
          v >= d.emitted /\ Place(v) < d.next * W => \E x \in d.ones : d.base + x = Place(v)
    /\ \A v \in Locals(cluster) : v < d.emitted => Place(v) < d.next * W

Reading ==
    /\ Reads(dec)
    /\ call \in [skip : Nat, asked : 0 .. Total(cluster), answer : Int]
    /\ dec.emitted + call.skip = call.asked
    /\ call.answer = NoParent \/ call.answer = cluster.parent[call.asked - 1]

LoudsInv ==
    /\ step \in {"idle", "writing", "written", "decoding", "decoded", "reading"}
    /\ step # "idle" => stage = "final" /\ Delivered(cluster) /\ WordsOK
    /\ step = "writing" => Writing
    /\ step \in {"written", "decoding", "decoded", "reading"} => Written
    /\ step \in {"decoding", "decoded"} => Decoding
    /\ step = "decoded" => full.node_id = Total(cluster) + 1
    /\ step = "reading" => Reading

-----------------------------------------------------------------------------
(***************************************************************************)
(* Bits and words.                                                         *)
(***************************************************************************)
LEMMA Addresses ==
    ASSUME NEW p \in Nat
    PROVE  Word(p) \in Nat /\ Bit(p) \in 0 .. W - 1 /\ p = Word(p) * W + Bit(p)
  <1>1. W \in Nat /\ W > 0
    BY WidthAssumption
  <1>2. p \div W \in Nat /\ p % W \in 0 .. W - 1
    BY <1>1
  <1>3. p = (p \div W) * W + (p % W)
    BY <1>1
  <1> QED BY <1>2, <1>3 DEF Word, Bit

LEMMA AddressOf ==
    ASSUME NEW w \in Nat, NEW x \in 0 .. W - 1
    PROVE  w * W + x \in Nat /\ Word(w * W + x) = w /\ Bit(w * W + x) = x
  <1>1. W \in Nat /\ W > 0
    BY WidthAssumption
  <1>2. w * W \in Nat
    BY <1>1
  <1>3. (w * W + x) \div W = w /\ (w * W + x) % W = x
    BY <1>1
  <1> QED BY <1>2, <1>3 DEF Word, Bit

\* Products with the width, for steps that cannot use them.
LEMMA Multiples ==
    ASSUME NEW v \in Nat, NEW w \in Nat
    PROVE  /\ v * W \in Nat /\ (v + 1) * W = v * W + W
           /\ v <= w => v * W <= w * W
           /\ v < w => v * W + W <= w * W
  <1>1. W \in Nat /\ W > 0
    BY WidthAssumption
  <1>2. v * W \in Nat /\ w * W \in Nat /\ (v + 1) * W = v * W + W
    BY <1>1
  <1>3. ASSUME NEW a \in Nat, NEW b \in Nat, a <= b PROVE a * W <= b * W
    <2>1. PICK d : d = b - a
      OBVIOUS
    <2>2. d \in Nat /\ b = a + d
      BY <1>3, <2>1
    <2>3. b * W = a * W + d * W /\ d * W \in Nat /\ a * W \in Nat
      BY <1>1, <2>2
    <2> QED BY <2>3
  <1>4. ASSUME v < w PROVE v * W + W <= w * W
    <2>1. v + 1 <= w /\ v + 1 \in Nat
      BY <1>4
    <2>2. (v + 1) * W <= w * W
      BY <1>3, <2>1
    <2> QED BY <1>2, <2>2
  <1> QED BY <1>2, <1>3, <1>4

LEMMA WordOrder ==
    ASSUME NEW p \in Nat, NEW w \in Nat
    PROVE  /\ p < w * W <=> Word(p) < w
           /\ w * W <= p <=> w <= Word(p)
           /\ Word(p) * W <= p /\ p < Word(p) * W + W
  <1>1. W \in Nat /\ W > 0
    BY WidthAssumption
  <1>2. Word(p) \in Nat /\ Bit(p) \in 0 .. W - 1 /\ p = Word(p) * W + Bit(p)
    BY Addresses
  <1>3. PICK v, x : v = Word(p) /\ x = Bit(p)
    OBVIOUS
  <1>4. v \in Nat /\ x \in 0 .. W - 1 /\ p = v * W + x
    BY <1>2, <1>3
  <1>5. /\ v * W \in Nat /\ w * W \in Nat
        /\ v < w => v * W + W <= w * W
        /\ w <= v => w * W <= v * W
    BY <1>4, Multiples
  <1>6. /\ p < w * W <=> v < w
        /\ w * W <= p <=> w <= v
        /\ v * W <= p /\ p < v * W + W
    <2>1. CASE v < w
      BY <1>1, <1>4, <1>5, <2>1
    <2>2. CASE w <= v
      BY <1>1, <1>4, <1>5, <2>2
    <2> QED BY <1>4, <2>1, <2>2
  <1> QED BY <1>3, <1>6

\* The words cover the bits.
LEMMA EveryBit ==
    ASSUME Delivered(cluster)
    PROVE  /\ Bits \in Nat /\ NWords \in Nat /\ NWords * W \in Nat /\ Bits <= NWords * W
           /\ \A p \in BitPositions : p \in Nat /\ Word(p) \in 0 .. NWords - 1
           /\ \A p \in 0 .. Bits - 1 : p \in BitPositions
  <1>1. W \in Nat /\ W > 0
    BY WidthAssumption
  <1>2. Bits \in Nat
    BY DEF Delivered, Bits
  <1>3. NWords \in Nat /\ Bits <= NWords * W
    <2>1. PICK t : t = Bits + W - 1
      OBVIOUS
    <2>2. t \in Nat
      BY <1>1, <1>2, <2>1
    <2>3. t \div W \in Nat /\ t % W \in 0 .. W - 1
      BY <1>1, <2>2
    <2>4. t = (t \div W) * W + (t % W)
      BY <1>1, <2>2
    <2>5. NWords = t \div W
      BY <2>1 DEF NWords
    <2>6. PICK m, r : m = t \div W /\ r = t % W
      OBVIOUS
    <2>7. m * W \in Nat /\ t = m * W + r /\ r \in 0 .. W - 1
      <3>1. m \in Nat /\ r \in 0 .. W - 1 /\ t = m * W + r
        BY <2>3, <2>4, <2>6
      <3> QED BY <3>1, Multiples
    <2>8. Bits <= m * W
      BY <1>1, <1>2, <2>1, <2>7
    <2> QED BY <2>3, <2>5, <2>6, <2>8
  <1>4. NWords * W \in Nat
    BY <1>3, Multiples
  <1>5. ASSUME NEW p \in BitPositions PROVE p \in Nat /\ Word(p) \in 0 .. NWords - 1
    <2>1. p \in Nat /\ p < NWords * W
      BY <1>4, <1>5 DEF BitPositions
    <2>2. Word(p) < NWords /\ Word(p) \in Nat
      BY <1>3, <2>1, WordOrder, Addresses
    <2> QED BY <1>3, <2>1, <2>2
  <1>6. ASSUME NEW p \in 0 .. Bits - 1 PROVE p \in BitPositions
    BY <1>2, <1>3, <1>4, <1>6 DEF BitPositions
  <1> QED BY <1>2, <1>3, <1>4, <1>5, <1>6

\* Where the vertices are: in their order, and inside the bits.
LEMMA PlaceFacts ==
    ASSUME Delivered(cluster)
    PROVE  /\ Total(cluster) \in Nat /\ Locals(cluster) = 0 .. Total(cluster) - 1
           /\ \A u \in Locals(cluster) :
                 /\ u \in Nat /\ cluster.parent[u] \in Nat /\ cluster.parent[u] <= u
                 /\ Place(u) \in Nat /\ Place(u) = u + cluster.parent[u]
                 /\ Place(u) \in BitPositions
           /\ \A u, v \in Locals(cluster) : u < v => Place(u) < Place(v)
           /\ \A u, v \in Locals(cluster) : Place(u) < Place(v) => u < v
           /\ \A u, v \in Locals(cluster) : Place(u) = Place(v) => u = v
  <1>1. Total(cluster) \in Nat /\ Locals(cluster) = 0 .. Total(cluster) - 1
    BY DEF Delivered, Locals
  <1>2. ASSUME NEW u \in Locals(cluster)
        PROVE  /\ u \in Nat /\ cluster.parent[u] \in Nat /\ cluster.parent[u] <= u
               /\ Place(u) \in Nat /\ Place(u) = u + cluster.parent[u]
               /\ Place(u) \in BitPositions
    <2>1. u \in Nat /\ cluster.parent[u] \in Nat /\ cluster.parent[u] <= u /\ u < Total(cluster)
      BY <1>1 DEF Delivered
    <2>2. Place(u) = u + cluster.parent[u]
      BY DEF Place
    <2>3. Place(u) \in 0 .. Bits - 1
      BY <1>1, <2>1, <2>2 DEF Bits
    <2> QED BY <2>1, <2>2, <2>3, EveryBit
  <1>3. ASSUME NEW u \in Locals(cluster), NEW v \in Locals(cluster), u < v
        PROVE  Place(u) < Place(v)
    <2>1. cluster.parent[u] <= cluster.parent[v]
      <3>1. u <= v
        BY <1>2, <1>3
      <3> QED BY <3>1 DEF Delivered
    <2>2. /\ u \in Nat /\ v \in Nat /\ cluster.parent[u] \in Nat /\ cluster.parent[v] \in Nat
          /\ Place(u) = u + cluster.parent[u] /\ Place(v) = v + cluster.parent[v]
      BY <1>2
    <2> QED BY <1>3, <2>1, <2>2
  <1>4. ASSUME NEW u \in Locals(cluster), NEW v \in Locals(cluster)
        PROVE  /\ Place(u) < Place(v) => u < v
               /\ Place(u) = Place(v) => u = v
    <2>1. u \in Nat /\ v \in Nat /\ Place(u) \in Nat /\ Place(v) \in Nat
      BY <1>2
    <2>2. CASE u < v
      BY <1>3, <2>1, <2>2
    <2>3. CASE v < u
      <3>1. Place(v) < Place(u)
        BY <1>3, <2>3
      <3> QED BY <2>1, <2>3, <3>1
    <2>4. CASE u = v
      BY <2>1, <2>4
    <2> QED BY <2>1, <2>2, <2>3, <2>4
  <1> QED BY <1>1, <1>2, <1>3, <1>4

-----------------------------------------------------------------------------
(***************************************************************************)
(* Writing.  What a step of the LOUDS leaves alone:                        *)
(***************************************************************************)
LEMMA SameCluster ==
    ASSUME cluster' = cluster
    PROVE  /\ Delivered(cluster)' <=> Delivered(cluster)
           /\ Bits' = Bits /\ NWords' = NWords /\ BitPositions' = BitPositions
           /\ \A u : Place(u)' = Place(u)
           /\ \A p : HasPlace(p)' <=> HasPlace(p)
           /\ \A p : Degree(p)' = Degree(p)
  <1>1. Delivered(cluster)' <=> Delivered(cluster)
    OBVIOUS
  <1>2. Bits' = Bits
    BY DEF Bits
  <1>3. NWords' = NWords
    BY <1>2 DEF NWords
  <1>4. BitPositions' = BitPositions
    BY <1>3 DEF BitPositions
  <1>5. \A u : Place(u)' = Place(u)
    BY DEF Place
  <1>6. \A p : HasPlace(p)' <=> HasPlace(p)
    BY DEF HasPlace, Place
  <1>7. \A p : Degree(p)' = Degree(p)
    BY DEF Degree, ParentAll
  <1> QED BY <1>1, <1>2, <1>3, <1>4, <1>5, <1>6, <1>7

LEMMA SameWords ==
    ASSUME cluster' = cluster, words' = words
    PROVE  /\ WordsOK' <=> WordsOK
           /\ Written' <=> Written
           /\ \A p : One(p)' <=> One(p)
  <1>1. \A p : One(p)' <=> One(p)
    BY DEF One
  <1>2. NWords' = NWords /\ BitPositions' = BitPositions /\ \A p : HasPlace(p)' <=> HasPlace(p)
    BY SameCluster
  <1>3. WordsOK' <=> WordsOK
    BY <1>2 DEF WordsOK
  <1>4. Written' <=> Written
    BY <1>1, <1>2 DEF Written
  <1> QED BY <1>1, <1>3, <1>4

\* What is encoded are the parents of the cluster.
LEMMA EncodedParents ==
    ASSUME Delivered(cluster)
    PROVE  \A u \in Locals(cluster) : ParentAll[u] = cluster.parent[u]
  <1>1. ASSUME NEW u \in Locals(cluster) PROVE ParentAll[u] = cluster.parent[u]
    <2>1. /\ cluster.nv \in Nat /\ cluster.nr \in Nat /\ cluster.depth_offsets[1] \in Nat
          /\ cluster.parent[u] = 0 <=> u < cluster.nv + cluster.depth_offsets[1]
      BY DEF Delivered
    <2>2. u \in Nat
      BY PlaceFacts
    <2>3. u < cluster.nv => cluster.parent[u] = 0
      BY <2>1, <2>2
    <2> QED BY <2>3 DEF ParentAll, Virtual
  <1> QED BY <1>1

\* The children of a vertex are the next ones.
LEMMA NextChildren ==
    ASSUME Delivered(cluster), NEW p \in Nat, NEW done \in 0 .. Total(cluster),
           \A v \in Locals(cluster) : v < done <=> cluster.parent[v] < p
    PROVE  /\ Degree(p) \in 0 .. Total(cluster) - done
           /\ \A v \in Locals(cluster) :
                 v >= done => (cluster.parent[v] = p <=> v < done + Degree(p))
  <1> DEFINE n == Total(cluster)
             T == {v \in Locals(cluster) : cluster.parent[v] = p}
  <1>1. /\ n \in Nat /\ Locals(cluster) = 0 .. n - 1 /\ done \in Nat /\ done <= n
        /\ \A v \in Locals(cluster) : v \in Nat /\ v < n /\ cluster.parent[v] \in Nat
    BY PlaceFacts
  <1>2. Degree(p) = Cardinality(T)
    <2>1. T = {u \in Locals(cluster) : ParentAll[u] = p}
      BY EncodedParents
    <2> QED BY <2>1 DEF Degree
  <1>3. PICK m : m = n - done
    OBVIOUS
  <1>4. m \in Nat /\ n = done + m
    BY <1>1, <1>3
  <1>5. T \in SUBSET (done .. done + m - 1)
    <2>1. ASSUME NEW v \in T PROVE v \in done .. done + m - 1
      <3>1. v \in Locals(cluster) /\ cluster.parent[v] = p
        OBVIOUS
      <3>2. v \in Nat /\ v < n /\ ~(v < done)
        BY <1>1, <3>1
      <3> QED BY <1>1, <1>4, <3>2
    <2> QED BY <2>1
  <1>6. ASSUME NEW x \in T, NEW y \in done .. done + m - 1, y <= x PROVE y \in T
    <2>1. /\ x \in Locals(cluster) /\ cluster.parent[x] = p
          /\ y \in Locals(cluster) /\ y \in Nat /\ ~(y < done)
      BY <1>1, <1>4
    <2>2. cluster.parent[y] <= cluster.parent[x]
      BY <1>6, <2>1 DEF Delivered
    <2>3. ~(cluster.parent[y] < p) /\ cluster.parent[y] \in Nat
      BY <1>1, <2>1
    <2> QED BY <2>1, <2>2, <2>3
  <1>7. Cardinality(T) \in 0 .. m
    <2>1. done \in Int /\ done + m - 1 \in Int
      BY <1>1, <1>4
    <2>2. /\ IsFiniteSet(done .. done + m - 1)
          /\ Cardinality(done .. done + m - 1) =
                IF done > done + m - 1 THEN 0 ELSE (done + m - 1) - done + 1
      BY <2>1, FS_Interval
    <2>3. Cardinality(done .. done + m - 1) = m
      BY <1>1, <1>4, <2>2
    <2>4. IsFiniteSet(T) /\ Cardinality(T) <= Cardinality(done .. done + m - 1)
      BY <1>5, <2>2, FS_Subset
    <2>5. Cardinality(T) \in Nat
      BY <2>4, FS_CardinalityType
    <2> QED BY <1>4, <2>3, <2>4, <2>5
  <1>8. ASSUME NEW v \in Locals(cluster), v >= done
        PROVE  cluster.parent[v] = p <=> v < done + Cardinality(T)
    <2>1. PICK k : k = v - done
      OBVIOUS
    <2>2. k \in 0 .. m - 1 /\ v = done + k
      BY <1>1, <1>4, <1>8, <2>1
    <2>3. v \in T <=> cluster.parent[v] = p
      OBVIOUS
    <2> HIDE DEF T
    <2>4. done + k \in T <=> k < Cardinality(T)
      BY <1>1, <1>4, <1>5, <1>6, <2>2, PrefixCount
    <2>5. Cardinality(T) \in Nat
      BY <1>7
    <2> QED BY <1>1, <2>2, <2>3, <2>4, <2>5
  <1> QED BY <1>1, <1>2, <1>3, <1>4, <1>7, <1>8

LEMMA StartLoudsWrites ==
    ASSUME LoudsInv, LInv, StartLouds, UNCHANGED layout
    PROVE  LoudsInv'
  <1>1. /\ stage = "final" /\ stage' = "final" /\ cluster' = cluster
        /\ Delivered(cluster)
        /\ words' = [w \in 0 .. NWords - 1 |-> {}]
        /\ put' = [u |-> 0, pos |-> 0, remain |-> Degree(0)]
    BY DEF LInv, StartLouds, layout
  <1>2. /\ Delivered(cluster)' /\ NWords' = NWords /\ BitPositions' = BitPositions
        /\ \A p : HasPlace(p)' <=> HasPlace(p)
    BY <1>1, SameCluster
  <1>3. /\ Total(cluster) \in Nat /\ Total(cluster) > 0
        /\ \A u \in Locals(cluster) : /\ u \in Nat /\ cluster.parent[u] \in Nat
                                      /\ u < Total(cluster) /\ cluster.parent[u] <= u
    BY <1>1, PlaceFacts DEF Delivered
  <1>4. step' = "writing"
    <2>1. \A u \in Locals(cluster) : ParentAll[u] <= Total(cluster)
      <3>1. ASSUME NEW u \in Locals(cluster) PROVE ParentAll[u] <= Total(cluster)
        <4>1. ParentAll[u] = cluster.parent[u]
          BY <1>1, EncodedParents
        <4> QED BY <1>3, <4>1
      <3> QED BY <3>1
    <2> QED BY <2>1 DEF StartLouds
  <1>5. WordsOK'
    BY <1>1, <1>2 DEF WordsOK
  <1>6. /\ Degree(0) \in 0 .. Total(cluster)
        /\ \A v \in Locals(cluster) : cluster.parent[v] = 0 <=> v < Degree(0)
    <2>1. \A v \in Locals(cluster) : v < 0 <=> cluster.parent[v] < 0
      BY <1>3
    <2>2. 0 \in 0 .. Total(cluster) /\ 0 \in Nat
      BY <1>3
    <2>3. /\ Degree(0) \in 0 .. Total(cluster) - 0
          /\ \A v \in Locals(cluster) :
                v >= 0 => (cluster.parent[v] = 0 <=> v < 0 + Degree(0))
      BY <1>1, <2>1, <2>2, NextChildren
    <2> QED BY <1>3, <2>3
  <1>7. \A p \in BitPositions : ~One(p)'
    <2>1. ASSUME NEW p \in BitPositions PROVE ~One(p)'
      <3>1. Word(p) \in 0 .. NWords - 1
        BY <1>1, EveryBit
      <3>2. words'[Word(p)] = {}
        BY <1>1, <3>1
      <3> QED BY <3>2 DEF One
    <2> QED BY <2>1
  <1>8. Writing'
    <2>1. put' \in [u : 0 .. Total(cluster) + 1, pos : Nat, remain : Nat]
      BY <1>1, <1>3, <1>6
    <2>2. put'.u = 0 /\ put'.pos = 0 /\ put'.remain = Degree(0) /\ put'.pos - put'.u = 0
      BY <1>1
    <2>3. \A p \in BitPositions : p \in Nat
      BY <1>1, EveryBit
    <2>4. \A p \in BitPositions' : One(p)' <=> p < put'.pos /\ HasPlace(p)'
      BY <1>2, <1>7, <2>2, <2>3
    <2> QED BY <1>1, <1>3, <1>6, <2>1, <2>2, <2>4 DEF Writing
  <1> QED BY <1>1, <1>2, <1>4, <1>5, <1>8 DEF LoudsInv

LEMMA PutOnesWrites ==
    ASSUME LoudsInv, PutOnes, UNCHANGED layout
    PROVE  LoudsInv'
  <1> DEFINE n == Total(cluster)
  <1>1. PICK u, pos, remain, done, bi, take, wi :
            /\ u = put.u /\ pos = put.pos /\ remain = put.remain /\ done = pos - u
            /\ bi = Bit(pos) /\ take = Lesser(remain, W - bi) /\ wi = Word(pos)
    OBVIOUS
  <1>2. /\ step = "writing" /\ step' = "writing" /\ stage = "final" /\ stage' = "final"
        /\ cluster' = cluster /\ Delivered(cluster) /\ WordsOK /\ Writing
        /\ u <= n /\ remain > 0
        /\ words' = [words EXCEPT ![wi] = @ \cup (bi .. bi + take - 1)]
        /\ put' = [put EXCEPT !.pos = @ + take, !.remain = @ - take]
    BY <1>1 DEF PutOnes, LoudsInv, layout
  <1>3. /\ put \in [u : 0 .. n + 1, pos : Nat, remain : Nat]
        /\ n \in Nat /\ u \in Nat /\ pos \in Nat /\ done \in 0 .. n /\ pos = u + done
        /\ remain \in 0 .. n - done
        /\ \A v \in Locals(cluster) :
              /\ v < done => cluster.parent[v] <= u
              /\ v >= done => (cluster.parent[v] = u <=> v < done + remain)
              /\ v >= done => cluster.parent[v] >= u
        /\ \A p \in BitPositions : One(p) <=> p < pos /\ HasPlace(p)
    BY <1>1, <1>2, PlaceFacts DEF Writing
  <1>4. pos \in BitPositions /\ \A p \in BitPositions : p \in Nat /\ Word(p) \in 0 .. NWords - 1
    <2>1. pos \in 0 .. Bits - 1
      BY <1>2, <1>3 DEF Bits
    <2> QED BY <1>2, <2>1, EveryBit
  <1>5. /\ wi \in Nat /\ wi \in 0 .. NWords - 1 /\ bi \in 0 .. W - 1 /\ pos = wi * W + bi
        /\ W \in Nat /\ W > 0 /\ wi * W \in Nat
    BY <1>1, <1>3, <1>4, Addresses, Multiples, WidthAssumption
  <1>6. take \in 1 .. remain /\ bi + take <= W
    BY <1>1, <1>2, <1>3, <1>5 DEF Lesser
  <1>7. WordsOK'
    <2>1. words \in [0 .. NWords - 1 -> SUBSET (0 .. W - 1)]
      BY <1>2 DEF WordsOK
    <2>2. words[wi] \cup (bi .. bi + take - 1) \in SUBSET (0 .. W - 1)
      <3>1. words[wi] \in SUBSET (0 .. W - 1)
        BY <1>5, <2>1
      <3>2. bi .. bi + take - 1 \in SUBSET (0 .. W - 1)
        BY <1>3, <1>5, <1>6
      <3> QED BY <3>1, <3>2
    <2>3. words' \in [0 .. NWords - 1 -> SUBSET (0 .. W - 1)]
      BY <1>2, <2>1, <2>2
    <2> QED BY <1>2, <2>3, SameCluster DEF WordsOK
  <1>8. ASSUME NEW p \in BitPositions
        PROVE  One(p)' <=> One(p) \/ p \in pos .. pos + take - 1
    <2>1. p \in Nat /\ Word(p) \in 0 .. NWords - 1 /\ Word(p) \in Nat
          /\ Bit(p) \in 0 .. W - 1 /\ p = Word(p) * W + Bit(p)
      BY <1>4, Addresses
    <2>2. words'[Word(p)] = IF Word(p) = wi THEN words[wi] \cup (bi .. bi + take - 1)
                            ELSE words[Word(p)]
      BY <1>2, <2>1 DEF WordsOK
    <2>3. Word(p) = wi /\ Bit(p) \in bi .. bi + take - 1 <=> p \in pos .. pos + take - 1
      <3>1. ASSUME Word(p) = wi, Bit(p) \in bi .. bi + take - 1
            PROVE  p \in pos .. pos + take - 1
        <4>1. p = wi * W + Bit(p)
          BY <2>1, <3>1
        <4> QED BY <1>3, <1>5, <1>6, <2>1, <3>1, <4>1
      <3>2. ASSUME p \in pos .. pos + take - 1
            PROVE  Word(p) = wi /\ Bit(p) \in bi .. bi + take - 1
        <4>1. PICK x : x = p - wi * W
          OBVIOUS
        <4>2. x \in bi .. bi + take - 1 /\ x \in 0 .. W - 1 /\ p = wi * W + x
          BY <1>3, <1>5, <1>6, <2>1, <3>2, <4>1
        <4>3. Word(p) = wi /\ Bit(p) = x
          BY <1>5, <4>2, AddressOf
        <4> QED BY <4>2, <4>3
      <3> QED BY <3>1, <3>2
    <2>4. One(p) <=> Bit(p) \in words[Word(p)]
      BY DEF One
    <2>5. One(p)' <=> Bit(p) \in words'[Word(p)]
      BY DEF One
    <2> QED BY <2>2, <2>3, <2>4, <2>5
  <1>9. ASSUME NEW p \in pos .. pos + take - 1 PROVE HasPlace(p)
    <2>1. PICK v : v = p - u
      OBVIOUS
    <2>2. v \in done .. done + take - 1 /\ p = v + u
      BY <1>3, <1>6, <2>1
    <2>3. v \in Locals(cluster) /\ v >= done /\ v < done + remain
      <3>1. Locals(cluster) = 0 .. n - 1
        BY <1>2, PlaceFacts
      <3>2. n \in Nat /\ done \in 0 .. n /\ remain \in 0 .. n - done /\ take \in 1 .. remain
        BY <1>3, <1>6
      <3> QED BY <2>2, <3>1, <3>2
    <2>4. cluster.parent[v] = u
      BY <1>3, <2>3
    <2> QED BY <2>2, <2>3, <2>4 DEF HasPlace, Place
  <1>10. ASSUME NEW p \in BitPositions
         PROVE  One(p)' <=> p < pos + take /\ HasPlace(p)
    <2>1. p \in Nat
      BY <1>4
    <2>2. One(p)' <=> (p < pos /\ HasPlace(p)) \/ p \in pos .. pos + take - 1
      BY <1>3, <1>8
    <2>3. p \in pos .. pos + take - 1 <=> pos <= p /\ p < pos + take
      BY <1>3, <1>6, <2>1
    <2>4. p < pos => p < pos + take
      BY <1>3, <1>6, <2>1
    <2>5. p < pos \/ pos <= p
      BY <1>3, <2>1
    <2> QED BY <1>9, <2>2, <2>3, <2>4, <2>5
  <1>11. Writing'
    <2>1. /\ put'.u = u /\ put'.pos = pos + take /\ put'.remain = remain - take
          /\ put' \in [u : 0 .. n + 1, pos : Nat, remain : Nat]
      <3>1. pos + take \in Nat /\ remain - take \in Nat
        BY <1>3, <1>6
      <3>2. put' = [put EXCEPT !.pos = pos + take, !.remain = remain - take]
        BY <1>1, <1>2
      <3> QED BY <1>1, <1>3, <3>1, <3>2
    <2>2. put'.pos - put'.u = done + take
      BY <1>3, <1>6, <2>1
    <2>3. done + take \in 0 .. n /\ remain - take \in 0 .. n - (done + take)
      BY <1>3, <1>6
    <2>4. ASSUME NEW v \in Locals(cluster)
          PROVE  /\ v < done + take => cluster.parent[v] <= u
                 /\ v >= done + take =>
                       (cluster.parent[v] = u <=> v < (done + take) + (remain - take))
                 /\ v >= done + take => cluster.parent[v] >= u
      <3>1. v \in Nat /\ cluster.parent[v] \in Nat
        BY <1>2, PlaceFacts
      <3>2. /\ v < done => cluster.parent[v] <= u
            /\ v >= done => (cluster.parent[v] = u <=> v < done + remain)
            /\ v >= done => cluster.parent[v] >= u
        BY <1>3
      <3> QED BY <1>3, <1>6, <3>1, <3>2
    <2>5. \A p \in BitPositions' : One(p)' <=> p < pos + take /\ HasPlace(p)'
      BY <1>2, <1>10, SameCluster
    <2> QED BY <1>2, <2>1, <2>2, <2>3, <2>4, <2>5 DEF Writing
  <1> QED BY <1>2, <1>7, <1>11, SameCluster DEF LoudsInv

LEMMA PutZeroWrites ==
    ASSUME LoudsInv, PutZero, UNCHANGED layout
    PROVE  LoudsInv'
  <1> DEFINE n == Total(cluster)
  <1>1. PICK u, pos, done : u = put.u /\ pos = put.pos /\ done = pos - u
    OBVIOUS
  <1>2. /\ step = "writing" /\ step' = "writing" /\ stage = "final" /\ stage' = "final"
        /\ cluster' = cluster /\ Delivered(cluster) /\ WordsOK /\ Writing
        /\ u <= n /\ put.remain = 0 /\ words' = words
        /\ put' = [u |-> u + 1, pos |-> pos + 1, remain |-> Degree(u + 1)]
    BY <1>1 DEF PutZero, LoudsInv, layout
  <1>3. /\ n \in Nat /\ u \in Nat /\ pos \in Nat /\ done \in 0 .. n /\ pos = u + done
        /\ \A v \in Locals(cluster) :
              /\ v < done => cluster.parent[v] <= u
              /\ v >= done => ~(cluster.parent[v] = u)
              /\ v >= done => cluster.parent[v] >= u
        /\ \A p \in BitPositions : One(p) <=> p < pos /\ HasPlace(p)
    <2>1. put \in [u : 0 .. n + 1, pos : Nat, remain : Nat] /\ n \in Nat
      BY <1>2, PlaceFacts DEF Writing
    <2>2. \A v \in Locals(cluster) : v \in Nat
      BY <1>2, PlaceFacts
    <2>3. done \in 0 .. n
      BY <1>1, <1>2 DEF Writing
    <2>4. \A v \in Locals(cluster) : v >= done => ~(v < done + put.remain)
      BY <1>2, <2>2, <2>3
    <2> QED BY <1>1, <1>2, <2>1, <2>3, <2>4 DEF Writing
  <1>4. \A v \in Locals(cluster) : v \in Nat /\ cluster.parent[v] \in Nat
    BY <1>2, PlaceFacts
  <1>5. \A v \in Locals(cluster) : v < done <=> cluster.parent[v] < u + 1
    <2>1. ASSUME NEW v \in Locals(cluster) PROVE v < done <=> cluster.parent[v] < u + 1
      <3>1. /\ v < done => cluster.parent[v] <= u
            /\ v >= done => ~(cluster.parent[v] = u)
            /\ v >= done => cluster.parent[v] >= u
            /\ v \in Nat /\ cluster.parent[v] \in Nat
        BY <1>3, <1>4
      <3> QED BY <1>3, <3>1
    <2> QED BY <2>1
  <1>6. /\ Degree(u + 1) \in 0 .. n - done
        /\ \A v \in Locals(cluster) :
              v >= done => (cluster.parent[v] = u + 1 <=> v < done + Degree(u + 1))
    <2>1. u + 1 \in Nat
      BY <1>3
    <2> QED BY <1>2, <1>3, <1>5, <2>1, NextChildren
  <1>7. ASSUME NEW p \in BitPositions PROVE One(p) <=> p < pos + 1 /\ HasPlace(p)
    <2>1. p \in Nat /\ (One(p) <=> p < pos /\ HasPlace(p))
      BY <1>2, <1>3, EveryBit
    <2>2. ASSUME p = pos PROVE ~HasPlace(p)
      <3>1. ASSUME NEW v \in Locals(cluster), p = Place(v) PROVE FALSE
        <4>1. v \in Nat /\ cluster.parent[v] \in Nat /\ p = v + cluster.parent[v]
          BY <1>2, <3>1, PlaceFacts
        <4>2. CASE v < done
          <5>1. cluster.parent[v] <= u
            BY <1>3, <4>2
          <5> QED BY <1>3, <2>2, <4>1, <4>2, <5>1
        <4>3. CASE ~(v < done)
          <5>1. ~(cluster.parent[v] < u + 1)
            BY <1>5, <4>3
          <5> QED BY <1>3, <2>2, <4>1, <4>3, <5>1
        <4> QED BY <4>2, <4>3
      <3> QED BY <3>1 DEF HasPlace
    <2>3. p < pos + 1 <=> p < pos \/ p = pos
      BY <1>3, <2>1
    <2> QED BY <2>1, <2>2, <2>3
  <1>8. Writing'
    <2>1. put' \in [u : 0 .. n + 1, pos : Nat, remain : Nat]
      BY <1>2, <1>3, <1>6
    <2>2. /\ put'.u = u + 1 /\ put'.pos = pos + 1 /\ put'.remain = Degree(u + 1)
          /\ put'.pos - put'.u = done
      BY <1>2, <1>3
    <2>3. ASSUME NEW v \in Locals(cluster)
          PROVE  /\ v < done => cluster.parent[v] <= u + 1
                 /\ v >= done => (cluster.parent[v] = u + 1 <=> v < done + Degree(u + 1))
                 /\ v >= done => cluster.parent[v] >= u + 1
      <3>1. v < done <=> cluster.parent[v] < u + 1
        BY <1>5
      <3>2. v \in Nat /\ cluster.parent[v] \in Nat
        BY <1>4
      <3>3. v >= done => (cluster.parent[v] = u + 1 <=> v < done + Degree(u + 1))
        BY <1>6
      <3> QED BY <1>3, <3>1, <3>2, <3>3
    <2>4. \A p \in BitPositions' : One(p)' <=> p < pos + 1 /\ HasPlace(p)'
      BY <1>2, <1>7, SameCluster, SameWords
    <2> QED BY <1>2, <1>3, <1>6, <2>1, <2>2, <2>3, <2>4 DEF Writing
  <1> QED BY <1>2, <1>8, SameCluster, SameWords DEF LoudsInv

\* The writer has come to the last bit, and every vertex has its own.
LEMMA EndLoudsWritten ==
    ASSUME LoudsInv, EndLouds, UNCHANGED layout
    PROVE  LoudsInv'
  <1> DEFINE n == Total(cluster)
  <1>1. PICK u, pos, done : u = put.u /\ pos = put.pos /\ done = pos - u
    OBVIOUS
  <1>2. /\ step = "writing" /\ stage = "final" /\ stage' = "final"
        /\ cluster' = cluster /\ Delivered(cluster) /\ WordsOK /\ Writing
        /\ ~(u <= n) /\ words' = words
        /\ n \in Nat /\ u \in 0 .. n + 1 /\ pos \in Nat
    BY <1>1, PlaceFacts DEF EndLouds, LoudsInv, layout, Writing
  <1>3. /\ done \in 0 .. n /\ pos = u + done /\ u = n + 1
        /\ \A v \in Locals(cluster) : v >= done => cluster.parent[v] >= u
        /\ \A p \in BitPositions : One(p) <=> p < pos /\ HasPlace(p)
    BY <1>1, <1>2 DEF Writing
  <1>4. done = n
    <2>1. CASE done < n
      <3>1. done \in Locals(cluster)
        BY <1>2, <1>3, <2>1, PlaceFacts
      <3>2. /\ cluster.parent[done] >= n + 1 /\ cluster.parent[done] <= done
            /\ cluster.parent[done] \in Nat
        BY <1>2, <1>3, <3>1, PlaceFacts
      <3> QED BY <1>2, <1>3, <2>1, <3>2
    <2> QED BY <1>2, <1>3, <2>1
  <1>5. pos = Bits
    BY <1>2, <1>3, <1>4 DEF Bits
  <1>6. step' = "written"
    BY <1>1, <1>2, <1>5 DEF EndLouds
  <1>7. Written
    <2>1. ASSUME NEW p \in BitPositions, HasPlace(p) PROVE p < pos
      <3>1. PICK v \in Locals(cluster) : p = Place(v)
        BY <2>1 DEF HasPlace
      <3>2. /\ p = v + cluster.parent[v] /\ v \in Nat /\ cluster.parent[v] \in Nat
            /\ cluster.parent[v] <= v /\ v < n
        BY <1>2, <3>1, PlaceFacts
      <3> QED BY <1>2, <1>3, <1>4, <3>2
    <2> QED BY <1>3, <2>1 DEF Written
  <1> QED BY <1>2, <1>6, <1>7, SameCluster, SameWords DEF LoudsInv

-----------------------------------------------------------------------------
(***************************************************************************)
(* Counting ones.                                                          *)
(***************************************************************************)
LEMMA OnesFinite ==
    ASSUME NEW lo \in Nat, NEW hi \in Nat
    PROVE  /\ IsFiniteSet({p \in lo .. hi - 1 : One(p)})
           /\ Ones(lo, hi) \in Nat
           /\ hi <= lo => Ones(lo, hi) = 0
  <1> DEFINE T == {p \in lo .. hi - 1 : One(p)}
  <1>1. lo \in Int /\ hi - 1 \in Int
    OBVIOUS
  <1>2. IsFiniteSet(lo .. hi - 1)
    BY <1>1, FS_Interval
  <1>3. T \in SUBSET (lo .. hi - 1)
    OBVIOUS
  <1>4. IsFiniteSet(T)
    BY <1>2, <1>3, FS_Subset
  <1>5. Cardinality(T) \in Nat
    BY <1>4, FS_CardinalityType
  <1>6. ASSUME hi <= lo PROVE T = {}
    <2>1. lo .. hi - 1 = {}
      BY <1>6
    <2> QED BY <2>1
  <1>7. hi <= lo => Cardinality(T) = 0
    BY <1>6, FS_EmptySet
  <1> QED BY <1>4, <1>5, <1>7 DEF Ones

LEMMA OnesSplit ==
    ASSUME NEW a \in Nat, NEW b \in Nat, NEW c \in Nat, a <= b, b <= c
    PROVE  Ones(a, c) = Ones(a, b) + Ones(b, c)
  <1> DEFINE A == {p \in a .. b - 1 : One(p)}
             B == {p \in b .. c - 1 : One(p)}
             C == {p \in a .. c - 1 : One(p)}
  <1>1. IsFiniteSet(A) /\ IsFiniteSet(B)
    BY OnesFinite
  <1>2. C = A \cup B
    <2>1. ASSUME NEW p PROVE p \in a .. c - 1 <=> p \in a .. b - 1 \/ p \in b .. c - 1
      OBVIOUS
    <2> QED BY <2>1
  <1>3. A \cap B = {}
    <2>1. ASSUME NEW p \in a .. b - 1, p \in b .. c - 1 PROVE FALSE
      BY <2>1
    <2> QED BY <2>1
  <1> HIDE DEF A, B, C
  <1>4. Cardinality(A \cup B) = Cardinality(A) + Cardinality(B) - Cardinality(A \cap B)
    BY <1>1, FS_Union
  <1>5. Cardinality(A) \in Nat /\ Cardinality(B) \in Nat
    BY <1>1, FS_CardinalityType
  <1>6. Cardinality(A \cap B) = 0
    BY <1>3, FS_EmptySet
  <1>7. Cardinality(C) = Cardinality(A) + Cardinality(B)
    BY <1>2, <1>4, <1>5, <1>6
  <1> QED BY <1>7 DEF A, B, C, Ones

LEMMA OnesGrow ==
    ASSUME NEW a \in Nat, NEW b \in Nat, NEW c \in Nat, b <= c
    PROVE  Ones(a, b) <= Ones(a, c)
  <1>1. Ones(a, b) \in Nat /\ Ones(a, c) \in Nat /\ Ones(b, c) \in Nat
    BY OnesFinite
  <1>2. CASE a <= b
    <2>1. Ones(a, c) = Ones(a, b) + Ones(b, c)
      BY <1>2, OnesSplit
    <2> QED BY <1>1, <2>1
  <1>3. CASE b <= a
    <2>1. Ones(a, b) = 0
      BY <1>3, OnesFinite
    <2> QED BY <1>1, <2>1
  <1> QED BY <1>2, <1>3

\* Counting what a one-to-one function makes of a set, and of an interval.
LEMMA SameCount ==
    ASSUME NEW S, IsFiniteSet(S), NEW T, NEW F \in [S -> T],
           \A x, y \in S : F[x] = F[y] => x = y,
           \A t \in T : \E x \in S : F[x] = t
    PROVE  IsFiniteSet(T) /\ Cardinality(T) = Cardinality(S)
  <1>1. F \in Bijection(S, T)
    BY DEF Bijection, Injection, Surjection, IsInjective
  <1>2. ExistsBijection(S, T)
    BY <1>1 DEF ExistsBijection
  <1> QED BY <1>2, FS_Bijection

LEMMA CountedBy ==
    ASSUME NEW a \in Int, NEW b \in Int, a <= b, NEW T, NEW F \in [a .. b - 1 -> T],
           \A x, y \in a .. b - 1 : F[x] = F[y] => x = y,
           \A t \in T : \E x \in a .. b - 1 : F[x] = t
    PROVE  IsFiniteSet(T) /\ Cardinality(T) = b - a
  <1>1. b - 1 \in Int
    OBVIOUS
  <1>2. /\ IsFiniteSet(a .. b - 1)
        /\ Cardinality(a .. b - 1) = IF a > b - 1 THEN 0 ELSE (b - 1) - a + 1
    BY <1>1, FS_Interval
  <1>3. Cardinality(a .. b - 1) = b - a
    BY <1>2
  <1> QED BY <1>2, <1>3, SameCount

\* Ones are vertices: those of the bits lo .. hi-1 are a .. b-1.
Holds(lo, hi, a, b) ==
    \A v \in Locals(cluster) : lo <= Place(v) /\ Place(v) < hi <=> a <= v /\ v < b

LEMMA OnesOf ==
    ASSUME Delivered(cluster), Written,
           NEW lo \in Nat, NEW hi \in 0 .. NWords * W,
           NEW a \in 0 .. Total(cluster), NEW b \in 0 .. Total(cluster), a <= b,
           Holds(lo, hi, a, b)
    PROVE  Ones(lo, hi) = b - a
  <1> DEFINE T == {p \in lo .. hi - 1 : One(p)}
             F == [v \in a .. b - 1 |-> Place(v)]
  <1>1. /\ Total(cluster) \in Nat /\ Locals(cluster) = 0 .. Total(cluster) - 1
        /\ \A v \in Locals(cluster) : v \in Nat /\ Place(v) \in BitPositions /\ Place(v) \in Nat
        /\ \A u, v \in Locals(cluster) : Place(u) = Place(v) => u = v
        /\ NWords * W \in Nat
    BY PlaceFacts, EveryBit
  <1>2. a .. b - 1 \in SUBSET Locals(cluster)
    BY <1>1
  <1>3. ASSUME NEW v \in a .. b - 1 PROVE Place(v) \in T
    <2>1. v \in Locals(cluster) /\ a <= v /\ v < b
      BY <1>1, <1>2
    <2>2. Place(v) \in lo .. hi - 1
      BY <1>1, <2>1 DEF Holds
    <2>3. One(Place(v))
      BY <1>1, <2>1 DEF Written, HasPlace
    <2> QED BY <2>2, <2>3
  <1>4. ASSUME NEW p \in T PROVE \E v \in a .. b - 1 : F[v] = p
    <2>1. p \in BitPositions /\ lo <= p /\ p < hi /\ One(p)
      BY <1>1 DEF BitPositions
    <2>2. PICK v \in Locals(cluster) : p = Place(v)
      BY <2>1 DEF Written, HasPlace
    <2>3. v \in a .. b - 1
      BY <1>1, <2>1, <2>2 DEF Holds
    <2> QED BY <2>2, <2>3
  <1>5. F \in [a .. b - 1 -> T]
    BY <1>3
  <1>6. \A x, y \in a .. b - 1 : F[x] = F[y] => x = y
    <2>1. ASSUME NEW x \in a .. b - 1, NEW y \in a .. b - 1, F[x] = F[y] PROVE x = y
      <3>1. Place(x) = Place(y)
        BY <2>1
      <3> QED BY <1>1, <1>2, <3>1
    <2> QED BY <2>1
  <1> HIDE DEF F, T
  <1>7. a \in Int /\ b \in Int
    BY <1>1
  <1>8. Cardinality(T) = b - a
    BY <1>4, <1>5, <1>6, <1>7, CountedBy
  <1> QED BY <1>8 DEF Ones, T

\* From one vertex up to another.
LEMMA OnesBetween ==
    ASSUME Delivered(cluster), Written,
           NEW u \in Locals(cluster), NEW v \in Locals(cluster), u <= v
    PROVE  /\ Ones(0, Place(v)) = v /\ Ones(0, Place(v) + 1) = v + 1
           /\ Ones(Place(u), Place(v)) = v - u /\ Ones(Place(u), Place(v) + 1) = v + 1 - u
  <1>1. /\ Total(cluster) \in Nat /\ Locals(cluster) = 0 .. Total(cluster) - 1
        /\ \A x \in Locals(cluster) : x \in Nat /\ Place(x) \in BitPositions /\ Place(x) \in Nat
        /\ \A x, y \in Locals(cluster) : x < y => Place(x) < Place(y)
        /\ \A x, y \in Locals(cluster) : Place(x) < Place(y) => x < y
        /\ \A x, y \in Locals(cluster) : Place(x) = Place(y) => x = y
        /\ NWords * W \in Nat
    BY PlaceFacts, EveryBit
  <1>2. /\ Place(v) \in 0 .. NWords * W /\ Place(v) + 1 \in 0 .. NWords * W
        /\ Place(u) \in Nat /\ 0 \in Nat
        /\ u \in 0 .. Total(cluster) /\ v \in 0 .. Total(cluster) /\ v + 1 \in 0 .. Total(cluster)
        /\ 0 \in 0 .. Total(cluster) /\ u <= v /\ u <= v + 1 /\ 0 <= v /\ 0 <= v + 1
    <2>1. Place(v) \in BitPositions
      BY <1>1
    <2>2. Place(v) \in 0 .. NWords * W - 1
      BY <2>1 DEF BitPositions
    <2> QED BY <1>1, <2>2
  <1>3. ASSUME NEW x \in Locals(cluster)
        PROVE  /\ Place(x) < Place(v) <=> x < v
               /\ Place(x) < Place(v) + 1 <=> x < v + 1
               /\ Place(u) <= Place(x) <=> u <= x
               /\ 0 <= Place(x) /\ 0 <= x
    <2>1. /\ x \in Nat /\ u \in Nat /\ v \in Nat
          /\ Place(x) \in Nat /\ Place(u) \in Nat /\ Place(v) \in Nat
      BY <1>1
    <2>2. /\ x < v => Place(x) < Place(v)
          /\ v < x => Place(v) < Place(x)
          /\ x < u => Place(x) < Place(u)
          /\ u < x => Place(u) < Place(x)
      BY <1>1
    <2>3. x = v => Place(x) = Place(v)
      OBVIOUS
    <2>4. x = u => Place(x) = Place(u)
      OBVIOUS
    <2>5. Place(x) < Place(v) <=> x < v
      BY <2>1, <2>2, <2>3
    <2>6. Place(x) < Place(v) + 1 <=> x < v + 1
      BY <2>1, <2>2, <2>3
    <2>7. Place(u) <= Place(x) <=> u <= x
      BY <2>1, <2>2, <2>4
    <2> QED BY <2>1, <2>5, <2>6, <2>7
  <1>4. Ones(0, Place(v)) = v - 0
    <2>1. Holds(0, Place(v), 0, v)
      BY <1>3 DEF Holds
    <2> QED BY <1>2, <2>1, OnesOf
  <1>5. Ones(0, Place(v) + 1) = v + 1 - 0
    <2>1. Holds(0, Place(v) + 1, 0, v + 1)
      BY <1>3 DEF Holds
    <2> QED BY <1>2, <2>1, OnesOf
  <1>6. Ones(Place(u), Place(v)) = v - u
    <2>1. Holds(Place(u), Place(v), u, v)
      BY <1>3 DEF Holds
    <2> QED BY <1>2, <2>1, OnesOf
  <1>7. Ones(Place(u), Place(v) + 1) = v + 1 - u
    <2>1. Holds(Place(u), Place(v) + 1, u, v + 1)
      BY <1>3 DEF Holds
    <2> QED BY <1>2, <2>1, OnesOf
  <1> QED BY <1>1, <1>4, <1>5, <1>6, <1>7

\* The ones of a word, counted in the word.
LEMMA OnesInWord ==
    ASSUME WordsOK, NEW w \in 0 .. NWords - 1, NEW lo \in Nat, NEW hi \in Nat,
           w \in Nat, w * W <= lo, lo <= hi, hi <= w * W + W
    PROVE  Cardinality({x \in words[w] : lo <= w * W + x /\ w * W + x < hi}) = Ones(lo, hi)
  <1> DEFINE A == {x \in words[w] : lo <= w * W + x /\ w * W + x < hi}
             T == {p \in lo .. hi - 1 : One(p)}
             F == [x \in A |-> w * W + x]
  <1>1. W \in Nat /\ w * W \in Nat /\ words[w] \in SUBSET (0 .. W - 1)
    BY WidthAssumption, Multiples DEF WordsOK
  <1>2. ASSUME NEW x \in 0 .. W - 1 PROVE One(w * W + x) <=> x \in words[w]
    <2>1. Word(w * W + x) = w /\ Bit(w * W + x) = x
      BY AddressOf
    <2> QED BY <2>1 DEF One
  <1>3. ASSUME NEW x \in A PROVE w * W + x \in T
    <2>1. x \in 0 .. W - 1 /\ x \in words[w] /\ lo <= w * W + x /\ w * W + x < hi
      BY <1>1
    <2>2. w * W + x \in lo .. hi - 1
      BY <1>1, <2>1
    <2> QED BY <1>2, <2>1, <2>2
  <1>4. ASSUME NEW p \in T PROVE \E x \in A : F[x] = p
    <2>1. p \in Nat /\ lo <= p /\ p < hi /\ One(p)
      OBVIOUS
    <2>2. PICK x : x = p - w * W
      OBVIOUS
    <2>3. x \in 0 .. W - 1 /\ p = w * W + x
      BY <1>1, <2>1, <2>2
    <2>4. x \in words[w]
      BY <1>2, <2>1, <2>3
    <2>5. x \in A
      BY <2>1, <2>3, <2>4
    <2> QED BY <2>3, <2>5
  <1>5. \A x, y \in A : F[x] = F[y] => x = y
    <2>1. ASSUME NEW x \in A, NEW y \in A, F[x] = F[y] PROVE x = y
      <3>1. w * W + x = w * W + y /\ x \in 0 .. W - 1 /\ y \in 0 .. W - 1
        BY <1>1, <2>1
      <3> QED BY <1>1, <3>1
    <2> QED BY <2>1
  <1>6. F \in [A -> T]
    BY <1>3
  <1>9. IsFiniteSet(A)
    <2>1. IsFiniteSet(0 .. W - 1)
      <3>1. 0 \in Int /\ W - 1 \in Int
        BY <1>1
      <3> QED BY <3>1, FS_Interval
    <2>2. A \in SUBSET (0 .. W - 1)
      BY <1>1
    <2> QED BY <2>1, <2>2, FS_Subset
  <1> HIDE DEF A, T, F
  <1>10. Cardinality(T) = Cardinality(A)
    BY <1>4, <1>5, <1>6, <1>9, SameCount
  <1> QED BY <1>10 DEF Ones, A, T

(***************************************************************************)
(* The member of a set of numbers with k - 1 members below it is the k-th  *)
(* one in ascending order.                                                 *)
(***************************************************************************)
LEMMA AscendingAt ==
    ASSUME NEW T \in SUBSET Nat, IsFiniteSet(T), NEW x \in T, NEW k \in Nat,
           Cardinality({y \in T : y < x}) = k - 1
    PROVE  Ascending(T)[k] = x
  <1> DEFINE R(z) == Cardinality({y \in T : y < z})
  <1>1. Ascending(T) = [j \in 1 .. Cardinality(T) |-> CHOOSE z \in T : R(z) = j - 1]
    BY DEF Ascending, SortedBy
  <1>2. ASSUME NEW a \in T, NEW b \in T, a < b PROVE R(a) < R(b) /\ R(a) \in Nat /\ R(b) \in Nat
    <2> DEFINE A == {y \in T : y < a}
               B == {y \in T : y < b}
    <2>1. A \in SUBSET B
      <3>1. ASSUME NEW y \in T, y < a PROVE y < b
        <4>1. y \in Nat /\ a \in Nat /\ b \in Nat
          OBVIOUS
        <4> QED BY <1>2, <3>1, <4>1
      <3> QED BY <3>1
    <2>2. a \in B /\ a \notin A
      BY <1>2
    <2>3. B \in SUBSET T
      OBVIOUS
    <2> HIDE DEF A, B
    <2>4. IsFiniteSet(B)
      BY <2>3, FS_Subset
    <2>5. IsFiniteSet(A)
      BY <2>1, <2>4, FS_Subset
    <2>6. Cardinality(A) < Cardinality(B)
      <3>1. A # B
        BY <2>2
      <3>2. /\ Cardinality(A) <= Cardinality(B)
            /\ Cardinality(A) = Cardinality(B) => A = B
        BY <2>1, <2>4, FS_Subset
      <3>3. Cardinality(A) \in Nat /\ Cardinality(B) \in Nat
        BY <2>4, <2>5, FS_CardinalityType
      <3> QED BY <3>1, <3>2, <3>3
    <2>7. Cardinality(A) \in Nat /\ Cardinality(B) \in Nat
      BY <2>4, <2>5, FS_CardinalityType
    <2> QED BY <2>6, <2>7 DEF A, B
  <1>3. ASSUME NEW z \in T, R(z) = k - 1 PROVE z = x
    <2>1. R(x) = k - 1 /\ z \in Nat /\ x \in Nat
      OBVIOUS
    <2> HIDE DEF R
    <2>2. CASE z < x
      <3>1. R(z) < R(x) /\ R(z) \in Nat /\ R(x) \in Nat
        BY <1>2, <2>2
      <3> QED BY <1>3, <2>1, <3>1
    <2>3. CASE x < z
      <3>1. R(x) < R(z) /\ R(z) \in Nat /\ R(x) \in Nat
        BY <1>2, <2>3
      <3> QED BY <1>3, <2>1, <3>1
    <2> QED BY <2>1, <2>2, <2>3
  <1>4. k \in 1 .. Cardinality(T)
    <2> DEFINE A == {y \in T : y < x}
    <2>1. A \in SUBSET T /\ x \notin A
      OBVIOUS
    <2>2. Cardinality(A) = k - 1
      OBVIOUS
    <2> HIDE DEF A
    <2>3. A # T
      BY <2>1
    <2>4. /\ IsFiniteSet(A) /\ Cardinality(A) <= Cardinality(T)
          /\ Cardinality(A) = Cardinality(T) => A = T
      BY <2>1, FS_Subset
    <2>5. Cardinality(A) \in Nat /\ Cardinality(T) \in Nat
      BY <2>4, FS_CardinalityType
    <2> QED BY <2>2, <2>3, <2>4, <2>5
  <1>5. R(x) = k - 1
    OBVIOUS
  <1> HIDE DEF R
  <1>6. Ascending(T)[k] = CHOOSE z \in T : R(z) = k - 1
    BY <1>1, <1>4
  <1> QED BY <1>3, <1>5, <1>6

(***************************************************************************)
(* Rank and select.                                                        *)
(***************************************************************************)
LEMMA RankCounts ==
    ASSUME Delivered(cluster), WordsOK, NEW pos \in BitPositions
    PROVE  Rank1(pos) = Ones(0, pos + 1)
  <1>1. PICK w, b, s, first : /\ w = Word(pos) /\ b = Bit(pos) /\ s = w \div SuperWords
                              /\ first = s * SuperWords
    OBVIOUS
  <1>2. /\ pos \in Nat /\ w \in 0 .. NWords - 1 /\ w \in Nat
        /\ b \in 0 .. W - 1 /\ pos = w * W + b
    BY <1>1, EveryBit, Addresses
  <1>3. s \in Nat /\ first \in Nat /\ first <= w
    <2>1. SuperWords \in Nat /\ SuperWords > 0
      BY WidthAssumption
    <2>2. w \div SuperWords \in Nat /\ (w \div SuperWords) * SuperWords <= w
      BY <1>2, <2>1
    <2>3. s * SuperWords \in Nat
      BY <1>1, <2>1, <2>2
    <2> QED BY <1>1, <2>2, <2>3
  <1>4. W \in Nat /\ W > 0 /\ first * W \in Nat /\ w * W \in Nat /\ first * W <= w * W
    BY <1>2, <1>3, Multiples, WidthAssumption
  <1>5. SuperRank(Word(pos) \div SuperWords) = Ones(0, first * W)
    BY <1>1 DEF SuperRank
  <1>6. WordRankInSuper(Word(pos)) = Ones(first * W, w * W)
    BY <1>1 DEF WordRankInSuper
  <1>7. Cardinality(words[Word(pos)] \cap Mask(Bit(pos))) = Ones(w * W, pos + 1)
    <2> DEFINE A == {x \in words[w] : w * W <= w * W + x /\ w * W + x < pos + 1}
    <2>1. words[w] \in SUBSET (0 .. W - 1)
      BY <1>2 DEF WordsOK
    <2>2. ASSUME NEW x \in words[w]
          PROVE  x \in 0 .. b <=> w * W <= w * W + x /\ w * W + x < pos + 1
      <3>1. x \in 0 .. W - 1
        BY <2>1
      <3> QED BY <1>2, <1>4, <3>1
    <2>3. words[w] \cap (0 .. b) = A
      BY <2>2
    <2>4. w * W <= pos + 1 /\ pos + 1 <= w * W + W /\ pos + 1 \in Nat /\ w * W <= w * W
      BY <1>2, <1>4
    <2>5. Cardinality(A) = Ones(w * W, pos + 1)
      BY <1>2, <1>4, <2>4, OnesInWord
    <2> QED BY <1>1, <2>3, <2>5 DEF Mask
  <1>8. /\ Ones(0, w * W) = Ones(0, first * W) + Ones(first * W, w * W)
        /\ Ones(0, pos + 1) = Ones(0, w * W) + Ones(w * W, pos + 1)
    <2>1. 0 \in Nat /\ 0 <= first * W /\ 0 <= w * W /\ w * W <= pos + 1 /\ pos + 1 \in Nat
      BY <1>2, <1>4
    <2> QED BY <1>4, <2>1, OnesSplit
  <1>9. /\ Ones(0, first * W) \in Nat /\ Ones(first * W, w * W) \in Nat
        /\ Ones(w * W, pos + 1) \in Nat
    <2>1. 0 \in Nat /\ pos + 1 \in Nat
      BY <1>2
    <2> QED BY <1>4, <2>1, OnesFinite
  <1> QED BY <1>5, <1>6, <1>7, <1>8, <1>9 DEF Rank1

\* A sample is where its vertex is.
LEMMA SampledPlace ==
    ASSUME Delivered(cluster), Written, NEW s \in Nat, NEW u \in Locals(cluster),
           u = s * SelectStride
    PROVE  Sample(s) = Place(u)
  <1> DEFINE T == {p \in 0 .. NWords * W - 1 : One(p)}
             A == {y \in T : y < Place(u)}
             B == {p \in 0 .. Place(u) - 1 : One(p)}
  <1>1. /\ u \in Nat /\ Place(u) \in Nat /\ Place(u) \in BitPositions
        /\ NWords * W \in Nat
    BY PlaceFacts, EveryBit
  <1>2. Place(u) \in 0 .. NWords * W - 1
    BY <1>1 DEF BitPositions
  <1>3. A = B
    <2>1. ASSUME NEW y
          PROVE  y \in 0 .. NWords * W - 1 /\ y < Place(u) <=> y \in 0 .. Place(u) - 1
      BY <1>1, <1>2
    <2> QED BY <2>1
  <1>4. Ones(0, Place(u)) = u
    <2>1. u <= u
      BY <1>1
    <2> QED BY <2>1, OnesBetween
  <1>5. Cardinality(A) = u
    BY <1>3, <1>4 DEF Ones
  <1>6. Place(u) \in T
    <2>1. One(Place(u))
      BY <1>1 DEF Written, HasPlace
    <2> QED BY <1>2, <2>1
  <1>7. T \in SUBSET Nat
    <2>1. 0 .. NWords * W - 1 \in SUBSET Nat
      BY <1>1
    <2> QED BY <2>1
  <1>8. IsFiniteSet(T)
    <2>1. 0 \in Nat
      OBVIOUS
    <2> QED BY <1>1, <2>1, OnesFinite
  <1> HIDE DEF T
  <1>9. u + 1 \in Nat /\ u = (u + 1) - 1
    BY <1>1
  <1>10. Cardinality({y \in T : y < Place(u)}) = (u + 1) - 1
    BY <1>5, <1>9
  <1>11. Ascending(T)[u + 1] = Place(u)
    BY <1>6, <1>7, <1>8, <1>9, <1>10, AscendingAt
  <1> QED BY <1>11 DEF Sample, T

\* The scan from the place of vertex v stops in the word of vertex u.
LEMMA ScanFinds ==
    ASSUME Delivered(cluster), Written,
           NEW v \in Locals(cluster), NEW u \in Locals(cluster), v <= u
    PROVE  ScanStops(Place(v), u + 1 - v) = Word(Place(u))
  <1>1. PICK pos, goal, left, at : /\ pos = Place(v) /\ goal = Place(u) /\ left = u + 1 - v
                                   /\ at = Word(goal)
    OBVIOUS
  <1>2. /\ u \in Nat /\ v \in Nat /\ pos \in Nat /\ goal \in Nat
        /\ goal \in BitPositions /\ pos <= goal
    <2>1. /\ u \in Nat /\ v \in Nat /\ pos \in Nat /\ goal \in Nat /\ goal \in BitPositions
          /\ v < u => pos < goal
      BY <1>1, PlaceFacts
    <2>2. v = u => pos = goal
      BY <1>1
    <2> QED BY <2>1, <2>2
  <1>3. NWords \in Nat /\ at \in 0 .. NWords - 1 /\ at \in Nat /\ Word(pos) \in Nat
    BY <1>1, <1>2, EveryBit, Addresses
  <1>4. Word(pos) <= at /\ at * W \in Nat /\ at * W <= goal /\ goal < (at + 1) * W
        /\ (at + 1) * W \in Nat /\ (at + 1) * W = at * W + W
    <2>1. at * W \in Nat /\ (at + 1) * W = at * W + W
      BY <1>3, Multiples
    <2>2. at * W <= goal /\ goal < at * W + W
      BY <1>1, <1>2, <1>3, WordOrder
    <2>3. Word(pos) * W <= pos /\ Word(pos) * W \in Nat
      BY <1>2, <1>3, WordOrder, Multiples
    <2>4. Word(pos) * W <= goal
      BY <1>2, <2>3
    <2>5. Word(pos) <= at
      BY <1>1, <1>2, <1>3, <2>4, WordOrder
    <2>6. W \in Nat
      BY WidthAssumption
    <2> QED BY <2>1, <2>2, <2>5, <2>6
  <1>5. Ones(pos, goal) = left - 1 /\ Ones(pos, goal + 1) = left /\ left \in Nat
    <2>1. Ones(pos, goal) = u - v /\ Ones(pos, goal + 1) = u + 1 - v
      BY <1>1, OnesBetween
    <2> QED BY <1>1, <1>2, <2>1
  <1> DEFINE Stops(w) == Ones(pos, w * W) < left /\ left <= Ones(pos, (w + 1) * W)
  <1>6. Stops(at)
    <2>1. Ones(pos, at * W) <= Ones(pos, goal)
      BY <1>2, <1>4, OnesGrow
    <2>2. goal + 1 <= (at + 1) * W /\ goal + 1 \in Nat
      BY <1>2, <1>4
    <2>3. Ones(pos, goal + 1) <= Ones(pos, (at + 1) * W)
      BY <1>2, <1>4, <2>2, OnesGrow
    <2>4. Ones(pos, at * W) \in Nat /\ Ones(pos, (at + 1) * W) \in Nat
      BY <1>2, <1>4, OnesFinite
    <2> QED BY <1>5, <2>1, <2>3, <2>4
  <1>7. ASSUME NEW w \in Word(pos) .. NWords - 1, Stops(w) PROVE w = at
    <2>1. w \in Nat /\ w * W \in Nat /\ (w + 1) * W = w * W + W /\ (w + 1) * W \in Nat
      <3>1. w \in Nat
        BY <1>3
      <3> QED BY <3>1, Multiples, WidthAssumption
    <2>2. CASE w < at
      <3>1. w * W + W <= at * W
        BY <1>3, <2>1, <2>2, Multiples
      <3>2. (w + 1) * W <= goal
        BY <1>2, <1>4, <2>1, <3>1
      <3>3. Ones(pos, (w + 1) * W) <= Ones(pos, goal)
        BY <1>2, <2>1, <3>2, OnesGrow
      <3>4. Ones(pos, (w + 1) * W) \in Nat
        BY <1>2, <2>1, OnesFinite
      <3> QED BY <1>5, <1>7, <3>3, <3>4
    <2>3. CASE at < w
      <3>1. at * W + W <= w * W
        BY <1>3, <2>1, <2>3, Multiples
      <3>2. goal + 1 <= w * W /\ goal + 1 \in Nat
        BY <1>2, <1>4, <2>1, <3>1
      <3>3. Ones(pos, goal + 1) <= Ones(pos, w * W)
        BY <1>2, <2>1, <3>2, OnesGrow
      <3>4. Ones(pos, w * W) \in Nat
        BY <1>2, <2>1, OnesFinite
      <3> QED BY <1>5, <1>7, <3>3, <3>4
    <2> QED BY <1>3, <2>1, <2>2, <2>3
  <1>8. at \in Word(pos) .. NWords - 1
    BY <1>3, <1>4
  <1>9. ScanStops(pos, left) = CHOOSE w \in Word(pos) .. NWords - 1 : Stops(w)
    BY DEF ScanStops
  <1> HIDE DEF Stops
  <1>10. ScanStops(pos, left) = at
    BY <1>6, <1>7, <1>8, <1>9
  <1> QED BY <1>1, <1>10

\* The (u + 1)-st one is where vertex u is.
LEMMA SelectFinds ==
    ASSUME Delivered(cluster), WordsOK, Written, NEW u \in Locals(cluster)
    PROVE  Select1(u + 1) = Place(u)
  <1>1. PICK s, v : s = u \div SelectStride /\ v = s * SelectStride
    OBVIOUS
  <1>2. u \in Nat /\ s \in Nat /\ v \in Nat /\ v <= u /\ v \in Locals(cluster)
    <2>1. SelectStride \in Nat /\ SelectStride > 0
      BY WidthAssumption
    <2>2. u \in Nat /\ Locals(cluster) = 0 .. Total(cluster) - 1 /\ Total(cluster) \in Nat
      BY PlaceFacts
    <2>3. /\ u \div SelectStride \in Nat /\ (u \div SelectStride) * SelectStride <= u
          /\ (u \div SelectStride) * SelectStride \in Nat
      BY <2>1, <2>2
    <2>4. s \in Nat /\ v \in Nat /\ v <= u
      BY <1>1, <2>3
    <2> QED BY <2>2, <2>4
  <1>3. Bucket(u + 1) = s
    <2>1. (u + 1) - 1 = u
      BY <1>2
    <2> QED BY <1>1, <2>1 DEF Bucket
  <1>4. PICK pos, goal, w, left : /\ pos = Place(v) /\ goal = Place(u)
                                  /\ w = Word(goal) /\ left = u + 1 - v
    OBVIOUS
  <1>5. Sample(Bucket(u + 1)) = pos
    BY <1>1, <1>2, <1>3, <1>4, SampledPlace
  <1>6. Remaining(u + 1) = left
    <2>1. Bucket(u + 1) * SelectStride = v
      BY <1>1, <1>3
    <2>2. Remaining(u + 1) = (u + 1) - Bucket(u + 1) * SelectStride
      BY DEF Remaining
    <2>3. Remaining(u + 1) = (u + 1) - v
      BY <2>1, <2>2, Zenon
    <2> QED BY <1>2, <1>4, <2>3
  <1>7. ScanStops(pos, left) = w
    BY <1>2, <1>4, ScanFinds
  <1>8. /\ pos \in Nat /\ goal \in Nat /\ goal \in BitPositions
        /\ w \in Nat /\ w \in 0 .. NWords - 1 /\ w * W \in Nat
        /\ Bit(goal) \in 0 .. W - 1 /\ goal = w * W + Bit(goal)
        /\ words[w] \in SUBSET (0 .. W - 1) /\ W \in Nat
    <2>1. pos \in Nat /\ goal \in Nat /\ goal \in BitPositions
      BY <1>2, <1>4, PlaceFacts
    <2>2. w \in Nat /\ w \in 0 .. NWords - 1 /\ w * W \in Nat
      BY <1>4, <2>1, EveryBit, Addresses, Multiples
    <2>3. Bit(goal) \in 0 .. W - 1 /\ goal = w * W + Bit(goal)
      BY <1>4, <2>1, Addresses
    <2> QED BY <2>1, <2>2, <2>3, WidthAssumption DEF WordsOK
  <1>9. pos <= goal
    <2>1. v < u => pos < goal
      BY <1>2, <1>4, PlaceFacts
    <2>2. v = u => pos = goal
      BY <1>4
    <2> QED BY <1>2, <1>8, <2>1, <2>2
  <1> DEFINE T == {x \in words[w] : w * W + x >= pos}
             b == Bit(goal)
             A == {y \in T : y < b}
             lo == IF pos <= w * W THEN w * W ELSE pos
             C == {x \in words[w] : lo <= w * W + x /\ w * W + x < goal}
  <1>10. b \in T
    <2>1. One(goal)
      BY <1>2, <1>4, <1>8 DEF Written, HasPlace
    <2>2. b \in words[w]
      BY <1>4, <2>1 DEF One
    <2> QED BY <1>8, <1>9, <2>2
  <1>11. T \in SUBSET Nat /\ IsFiniteSet(T)
    <2>1. T \in SUBSET (0 .. W - 1)
      BY <1>8
    <2>2. IsFiniteSet(0 .. W - 1)
      <3>1. 0 \in Int /\ W - 1 \in Int
        BY <1>8
      <3> QED BY <3>1, FS_Interval
    <2>3. IsFiniteSet(T)
      BY <2>1, <2>2, FS_Subset
    <2>4. 0 .. W - 1 \in SUBSET Nat
      BY <1>8
    <2> QED BY <2>1, <2>3, <2>4
  <1>12. lo \in Nat /\ w * W <= lo /\ pos <= lo /\ lo <= goal /\ goal <= w * W + W
    BY <1>8, <1>9
  <1>13. A = C
    <2>1. ASSUME NEW x \in words[w]
          PROVE  w * W + x >= pos /\ x < b <=> lo <= w * W + x /\ w * W + x < goal
      <3>1. x \in 0 .. W - 1
        BY <1>8
      <3> QED BY <1>8, <3>1
    <2> QED BY <2>1
  <1> HIDE DEF lo
  <1>14. Cardinality(C) = Ones(lo, goal)
    BY <1>8, <1>12, OnesInWord
  <1>15. Ones(pos, goal) = Ones(pos, w * W) + Ones(lo, goal)
    <2>1. CASE pos <= w * W
      <3>1. lo = w * W /\ w * W <= goal
        BY <1>12, <2>1 DEF lo
      <3> QED BY <1>8, <2>1, <3>1, OnesSplit
    <2>2. CASE ~(pos <= w * W)
      <3>1. lo = pos
        BY <2>2 DEF lo
      <3>2. w * W <= pos
        BY <1>8, <2>2
      <3>3. Ones(pos, w * W) = 0
        BY <1>8, <3>2, OnesFinite
      <3>4. Ones(pos, goal) \in Nat
        BY <1>8, OnesFinite
      <3> QED BY <3>1, <3>3, <3>4
    <2> QED BY <2>1, <2>2
  <1>16. Ones(pos, goal) = u - v
    BY <1>2, <1>4, OnesBetween
  <1>17. PICK k : k = left - Ones(pos, w * W)
    OBVIOUS
  <1>18. k \in Nat /\ Ones(lo, goal) = k - 1
    <2>1. Ones(pos, w * W) \in Nat /\ Ones(lo, goal) \in Nat
      BY <1>8, <1>12, OnesFinite
    <2> QED BY <1>2, <1>4, <1>15, <1>16, <1>17, <2>1
  <1> HIDE DEF T, b, C
  <1>19. Cardinality({y \in T : y < b}) = k - 1
    BY <1>13, <1>14, <1>18
  <1>20. Ascending(T)[k] = b
    BY <1>10, <1>11, <1>18, <1>19, AscendingAt
  <1>21. Select1(u + 1) = w * W + Ascending(T)[k]
    BY <1>5, <1>6, <1>7, <1>17 DEF Select1, Select1InWord, T
  <1> QED BY <1>4, <1>8, <1>20, <1>21 DEF b

LEMMA ParentsFound ==
    ASSUME Delivered(cluster), WordsOK, Written, NEW u \in Locals(cluster)
    PROVE  Parent1BasedOf(u) = cluster.parent[u]
  <1>1. /\ u \in Nat /\ cluster.parent[u] \in Nat /\ Place(u) = u + cluster.parent[u]
        /\ Place(u) \in BitPositions
    BY PlaceFacts
  <1>2. Select1(u + 1) = Place(u)
    BY SelectFinds
  <1>3. Rank1(Place(u)) = Ones(0, Place(u) + 1)
    BY <1>1, RankCounts
  <1>4. Ones(0, Place(u) + 1) = u + 1
    <2>1. u <= u
      BY <1>1
    <2> QED BY <2>1, OnesBetween
  <1>5. Rank0(Place(u)) = Place(u) + 1 - (u + 1)
    BY <1>3, <1>4 DEF Rank0
  <1> QED BY <1>1, <1>2, <1>5 DEF Parent1BasedOf

-----------------------------------------------------------------------------
(***************************************************************************)
(* The full decode.                                                        *)
(***************************************************************************)
LEMMA StartDecodes ==
    ASSUME LoudsInv, StartDecode, UNCHANGED layout
    PROVE  LoudsInv'
  <1>1. /\ step = "written" /\ step' = "decoding" /\ stage = "final" /\ stage' = "final"
        /\ cluster' = cluster /\ words' = words
        /\ Delivered(cluster) /\ WordsOK /\ Written
        /\ full' = [prev_zero |-> -1, node_id |-> 0, next_child |-> 1,
                    out |-> [u \in Locals(cluster) |-> NoParent]]
    BY DEF StartDecode, LoudsInv, layout
  <1>2. /\ Total(cluster) \in Nat
        /\ \A v \in Locals(cluster) : v \in Nat /\ cluster.parent[v] \in Nat
    BY <1>1, PlaceFacts
  <1>3. Decoding'
    <2>1. /\ full'.node_id = 0 /\ full'.next_child = 1 /\ full'.prev_zero = 0 + 0 - 1
          /\ full'.out = [u \in Locals(cluster) |-> NoParent]
      BY <1>1
    <2>2. full'.out \in [Locals(cluster) -> Int]
      BY <2>1 DEF NoParent
    <2>3. \A v \in Locals(cluster) : ~(v < 0) /\ ~(cluster.parent[v] < 0)
      BY <1>2
    <2> QED BY <1>1, <1>2, <2>1, <2>2, <2>3 DEF Decoding
  <1> QED BY <1>1, <1>3, SameCluster, SameWords DEF LoudsInv

\* The next zero is behind the children of the next vertex.
NextZeroAt(p, done) ==
    /\ Degree(p) \in 0 .. Total(cluster) - done
    /\ \A v \in Locals(cluster) :
          v >= done => (cluster.parent[v] = p <=> v < done + Degree(p))
    /\ p + done + Degree(p) \in ZerosLeft
    /\ \A z \in ZerosLeft : p + done + Degree(p) <= z

LEMMA NextZero ==
    ASSUME Delivered(cluster), Written, Decoding, full.node_id <= Total(cluster)
    PROVE  NextZeroAt(full.node_id, full.next_child - 1)
  <1> DEFINE n == Total(cluster)
  <1>1. PICK p, done, k : p = full.node_id /\ done = full.next_child - 1 /\ k = Degree(p)
    OBVIOUS
  <1>a. PICK z : z = p + done + k
    OBVIOUS
  <1>2. /\ n \in Nat /\ Locals(cluster) = 0 .. n - 1
        /\ \A v \in Locals(cluster) : /\ v \in Nat /\ cluster.parent[v] \in Nat
                                      /\ Place(v) = v + cluster.parent[v]
    BY PlaceFacts
  <1>3. /\ p \in 0 .. n /\ p \in Nat /\ done \in 0 .. n /\ full.prev_zero = p + done - 1
        /\ \A v \in Locals(cluster) : v < done <=> cluster.parent[v] < p
    <2>1. full.node_id \in 0 .. n + 1 /\ full.next_child \in 1 .. n + 1
      BY DEF Decoding
    <2>2. p \in 0 .. n /\ done \in 0 .. n
      BY <1>1, <1>2, <2>1
    <2> QED BY <1>1, <2>2 DEF Decoding
  <1>4. /\ k \in 0 .. n - done
        /\ \A v \in Locals(cluster) : v >= done => (cluster.parent[v] = p <=> v < done + k)
    BY <1>1, <1>3, NextChildren
  <1>5. z \in Nat /\ z \in p + done .. Bits - 1
    BY <1>a, <1>2, <1>3, <1>4 DEF Bits
  <1>6. \A q \in 0 .. Bits - 1 : One(q) <=> HasPlace(q)
    BY EveryBit DEF Written
  <1>7. ~HasPlace(z)
    <2>1. ASSUME NEW v \in Locals(cluster), z = Place(v) PROVE FALSE
      <3>1. /\ v \in Nat /\ cluster.parent[v] \in Nat /\ z = v + cluster.parent[v]
            /\ v < done <=> cluster.parent[v] < p
            /\ v >= done => (cluster.parent[v] = p <=> v < done + k)
        BY <1>2, <1>3, <1>4, <2>1
      <3>2. p \in Nat /\ done \in Nat /\ k \in Nat
        BY <1>2, <1>3, <1>4
      <3> QED BY <1>a, <3>1, <3>2
    <2> QED BY <2>1 DEF HasPlace
  <1>8. z \in ZerosLeft
    <2>1. Bits \in Nat
      BY EveryBit
    <2>2. z \in full.prev_zero + 1 .. Bits - 1 /\ z \in 0 .. Bits - 1
      BY <1>3, <1>5, <2>1
    <2> QED BY <1>6, <1>7, <2>2 DEF ZerosLeft
  <1>9. ASSUME NEW q \in ZerosLeft PROVE z <= q
    <2>1. q \in p + done .. Bits - 1 /\ ~One(q) /\ Bits \in Nat
      BY <1>3, EveryBit DEF ZerosLeft
    <2>2. q \in 0 .. Bits - 1
      BY <1>3, <2>1
    <2>3. ~HasPlace(q)
      BY <1>6, <2>1, <2>2
    <2>4. CASE q < z
      <3>1. PICK v : v = q - p
        OBVIOUS
      <3>2. v \in Locals(cluster) /\ v >= done /\ v < done + k /\ q = v + p
        BY <1>a, <1>2, <1>3, <1>4, <2>1, <2>4, <3>1
      <3>3. cluster.parent[v] = p
        BY <1>4, <3>2
      <3>4. q = Place(v)
        BY <1>2, <3>2, <3>3
      <3> QED BY <2>3, <3>2, <3>4 DEF HasPlace
    <2> QED BY <1>5, <2>1, <2>4
  <1> QED BY <1>a, <1>1, <1>4, <1>8, <1>9 DEF NextZeroAt

LEMMA NodeDecodes ==
    ASSUME LoudsInv, DecodeNode, UNCHANGED layout
    PROVE  LoudsInv'
  <1> DEFINE n == Total(cluster)
  <1>1. PICK p, done, k : p = full.node_id /\ done = full.next_child - 1 /\ k = Degree(p)
    OBVIOUS
  <1>2. /\ step = "decoding" /\ step' = "decoding" /\ stage = "final" /\ stage' = "final"
        /\ cluster' = cluster /\ words' = words
        /\ Delivered(cluster) /\ WordsOK /\ Written /\ Decoding /\ p <= n
    BY <1>1 DEF DecodeNode, LoudsInv, layout
  <1>3. PICK zpos \in ZerosLeft :
            LET end == full.next_child + (zpos - full.prev_zero - 1)
            IN /\ \A q \in ZerosLeft : zpos <= q
               /\ full' = [prev_zero |-> zpos, node_id |-> full.node_id + 1,
                           next_child |-> Lesser(end, Total(cluster) + 1),
                           out |-> [u \in Locals(cluster) |->
                                      IF u + 1 \in full.next_child .. end - 1
                                      THEN full.node_id ELSE full.out[u]]]
    BY DEF DecodeNode
  <1>4. /\ n \in Nat /\ p \in 0 .. n /\ done \in 0 .. n /\ full.next_child = done + 1
        /\ full.prev_zero = p + done - 1
        /\ \A v \in Locals(cluster) : v < done <=> cluster.parent[v] < p
        /\ full.out \in [Locals(cluster) -> Int]
        /\ \A v \in Locals(cluster) : v < done => full.out[v] = cluster.parent[v]
        /\ \A v \in Locals(cluster) : v \in Nat /\ cluster.parent[v] \in Nat
    <2>1. n \in Nat /\ \A v \in Locals(cluster) : v \in Nat /\ cluster.parent[v] \in Nat
      BY <1>2, PlaceFacts
    <2>2. /\ p \in 0 .. n + 1 /\ full.next_child \in 1 .. n + 1
          /\ full.prev_zero = p + done - 1
          /\ \A v \in Locals(cluster) : v < done <=> cluster.parent[v] < p
          /\ full.out \in [Locals(cluster) -> Int]
          /\ \A v \in Locals(cluster) : v < done => full.out[v] = cluster.parent[v]
      BY <1>1, <1>2 DEF Decoding
    <2>3. p \in 0 .. n /\ done \in 0 .. n /\ full.next_child = done + 1
      BY <1>1, <1>2, <2>1, <2>2
    <2> QED BY <2>1, <2>2, <2>3
  <1>5. /\ k \in 0 .. n - done
        /\ \A v \in Locals(cluster) : v >= done => (cluster.parent[v] = p <=> v < done + k)
        /\ p + done + k \in ZerosLeft
        /\ \A z \in ZerosLeft : p + done + k <= z
    <2>1. NextZeroAt(full.node_id, full.next_child - 1)
      BY <1>1, <1>2, NextZero
    <2>2. NextZeroAt(p, done)
      BY <1>1, <2>1
    <2> QED BY <1>1, <2>2 DEF NextZeroAt
  <1>6. zpos = p + done + k
    <2>1. zpos <= p + done + k /\ p + done + k <= zpos
      BY <1>3, <1>5
    <2>2. zpos \in Int
      BY <1>4 DEF ZerosLeft
    <2> QED BY <1>4, <1>5, <2>1, <2>2
  <1>7. PICK end : end = full.next_child + (zpos - full.prev_zero - 1)
    OBVIOUS
  <1>8. end = done + 1 + k /\ Lesser(end, n + 1) = done + 1 + k
    BY <1>4, <1>5, <1>6, <1>7 DEF Lesser
  <1> DEFINE Out == [u \in Locals(cluster) |->
                       IF u + 1 \in full.next_child .. end - 1
                       THEN full.node_id ELSE full.out[u]]
  <1>9. full' = [prev_zero |-> zpos, node_id |-> full.node_id + 1,
                 next_child |-> Lesser(end, Total(cluster) + 1), out |-> Out]
    BY <1>3, <1>7, Zenon
  <1>10. Out \in [Locals(cluster) -> Int] /\
         \A v \in Locals(cluster) :
            Out[v] = IF v \in done .. done + k - 1 THEN p ELSE full.out[v]
    <2>1. ASSUME NEW v \in Locals(cluster)
          PROVE  v + 1 \in full.next_child .. end - 1 <=> v \in done .. done + k - 1
      <3>1. v \in Nat
        BY <1>4
      <3> QED BY <1>4, <1>5, <1>8, <3>1
    <2>2. \A v \in Locals(cluster) : full.out[v] \in Int /\ p \in Int
      BY <1>4
    <2>3. Out = [u \in Locals(cluster) |-> IF u \in done .. done + k - 1 THEN p ELSE full.out[u]]
      BY <1>1, <2>1
    <2> QED BY <2>2, <2>3
  <1> HIDE DEF Out
  <1>11. /\ full'.prev_zero = p + done + k /\ full'.node_id = p + 1
         /\ full'.next_child = done + 1 + k /\ full'.out = Out
    BY <1>1, <1>6, <1>8, <1>9
  <1>12. Decoding'
    <2>1. /\ full'.node_id \in 0 .. n + 1 /\ full'.next_child \in 1 .. n + 1
          /\ full'.next_child - 1 = done + k
          /\ full'.prev_zero = (p + 1) + (done + k) - 1
      BY <1>4, <1>5, <1>11
    <2>2. ASSUME NEW v \in Locals(cluster) PROVE v < done + k <=> cluster.parent[v] < p + 1
      <3>1. /\ v \in Nat /\ cluster.parent[v] \in Nat
            /\ v < done <=> cluster.parent[v] < p
            /\ v >= done => (cluster.parent[v] = p <=> v < done + k)
        BY <1>4, <1>5
      <3> QED BY <1>4, <1>5, <3>1
    <2>3. ASSUME NEW v \in Locals(cluster), v < done + k PROVE Out[v] = cluster.parent[v]
      <3>1. /\ v \in Nat
            /\ v < done => full.out[v] = cluster.parent[v]
            /\ v >= done => (cluster.parent[v] = p <=> v < done + k)
            /\ Out[v] = IF v \in done .. done + k - 1 THEN p ELSE full.out[v]
        BY <1>4, <1>5, <1>10
      <3>2. v \in done .. done + k - 1 <=> ~(v < done)
        BY <1>4, <1>5, <2>3, <3>1
      <3>3. v < done \/ v >= done
        BY <1>4, <3>1
      <3> QED BY <2>3, <3>1, <3>2, <3>3
    <2> QED BY <1>2, <1>10, <1>11, <2>1, <2>2, <2>3 DEF Decoding
  <1> QED BY <1>2, <1>12, SameCluster, SameWords DEF LoudsInv

\* It never runs out of zeros.
LEMMA DecodeEnds ==
    ASSUME LoudsInv, EndDecode, UNCHANGED layout
    PROVE  LoudsInv'
  <1>1. /\ step = "decoding" /\ step' = "decoded" /\ stage = "final" /\ stage' = "final"
        /\ cluster' = cluster /\ words' = words /\ full' = full
        /\ Delivered(cluster) /\ WordsOK /\ Written /\ Decoding
        /\ full.node_id > Total(cluster) \/ ZerosLeft = {}
    BY DEF EndDecode, LoudsInv, layout
  <1>2. Total(cluster) \in Nat /\ full.node_id \in 0 .. Total(cluster) + 1
    BY <1>1, PlaceFacts DEF Decoding
  <1>3. ASSUME full.node_id <= Total(cluster) PROVE ZerosLeft # {}
    BY <1>1, <1>3, NextZero DEF NextZeroAt
  <1>4. full.node_id = Total(cluster) + 1
    BY <1>1, <1>2, <1>3
  <1>5. Decoding'
    BY <1>1 DEF Decoding
  <1> QED BY <1>1, <1>4, <1>5, SameCluster, SameWords DEF LoudsInv

-----------------------------------------------------------------------------
(***************************************************************************)
(* The sequential decoder.                                                 *)
(***************************************************************************)
LEMMA SameReads ==
    ASSUME cluster' = cluster, NEW d, dec' = d, Reads(d)
    PROVE  Reads(dec)'
  <1>1. NWords' = NWords /\ \A u : Place(u)' = Place(u)
    BY SameCluster
  <1> QED BY <1>1 DEF Reads

\* The ones of a word are the vertices with a place in it.
LEMMA WordHolds ==
    ASSUME Delivered(cluster), WordsOK, Written, NEW w \in 0 .. NWords - 1
    PROVE  /\ w \in Nat /\ words[w] \in SUBSET (0 .. W - 1)
           /\ \A x \in words[w] : \E v \in Locals(cluster) : w * W + x = Place(v)
           /\ \A v \in Locals(cluster) :
                 Word(Place(v)) = w => \E x \in words[w] : w * W + x = Place(v)
  <1>1. W \in Nat /\ W > 0 /\ NWords \in Nat /\ w \in Nat /\ NWords * W \in Nat
    BY WidthAssumption, EveryBit
  <1>2. words[w] \in SUBSET (0 .. W - 1)
    BY DEF WordsOK
  <1>3. ASSUME NEW x \in words[w] PROVE \E v \in Locals(cluster) : w * W + x = Place(v)
    <2>1. PICK p : p = w * W + x
      OBVIOUS
    <2>2. x \in 0 .. W - 1
      BY <1>2
    <2>3. p \in Nat /\ Word(p) = w /\ Bit(p) = x
      BY <1>1, <2>1, <2>2, AddressOf
    <2>4. p < NWords * W
      <3>1. w < NWords
        BY <1>1
      <3> QED BY <1>1, <2>3, <3>1, WordOrder
    <2>5. p \in BitPositions /\ One(p)
      BY <1>1, <2>3, <2>4 DEF BitPositions, One
    <2> QED BY <2>1, <2>5 DEF Written, HasPlace
  <1>4. ASSUME NEW v \in Locals(cluster), Word(Place(v)) = w
        PROVE  \E x \in words[w] : w * W + x = Place(v)
    <2>1. Place(v) \in Nat /\ Place(v) \in BitPositions
      BY PlaceFacts
    <2>2. One(Place(v))
      BY <2>1 DEF Written, HasPlace
    <2>3. Place(v) = w * W + Bit(Place(v)) /\ Bit(Place(v)) \in words[w]
      BY <1>4, <2>1, <2>2, Addresses DEF One
    <2> QED BY <2>3
  <1> QED BY <1>1, <1>2, <1>3, <1>4

\* While there are children left there is a word with one.
LEMMA WordsLeft ==
    ASSUME Delivered(cluster), WordsOK, Written, Reads(dec), dec.ones = {},
           NEW v \in Locals(cluster), v >= dec.emitted
    PROVE  Word(Place(v)) \in FullWords
  <1>1. /\ Place(v) \in Nat /\ Place(v) \in BitPositions /\ NWords \in Nat
        /\ Word(Place(v)) \in 0 .. NWords - 1 /\ Word(Place(v)) \in Nat
    BY PlaceFacts, EveryBit, Addresses
  <1>2. dec.next \in Nat /\ ~(Place(v) < dec.next * W)
    BY <1>1 DEF Reads
  <1>3. dec.next <= Word(Place(v))
    BY <1>1, <1>2, WordOrder
  <1>4. words[Word(Place(v))] # {}
    BY <1>1, WordHolds
  <1> QED BY <1>1, <1>2, <1>3, <1>4 DEF FullWords

LEMMA RefilledReads ==
    ASSUME Delivered(cluster), WordsOK, Written, Reads(dec), dec.emitted < Total(cluster)
    PROVE  Reads(Refilled) /\ Refilled.emitted = dec.emitted /\ Refilled.ones # {}
  <1>1. CASE dec.ones # {}
    BY <1>1 DEF Refilled
  <1>2. CASE dec.ones = {}
    <2>1. PICK e, next : e = dec.emitted /\ next = dec.next
      OBVIOUS
    <2>2. /\ e \in Nat /\ e \in Locals(cluster) /\ next \in 0 .. NWords /\ next \in Nat
          /\ NWords \in Nat /\ W \in Nat
          /\ \A v \in Locals(cluster) : v < e => Place(v) < next * W
          /\ \A v \in Locals(cluster) : v \in Nat /\ Place(v) \in Nat
      <3>1. /\ e \in Nat /\ next \in 0 .. NWords
            /\ \A v \in Locals(cluster) : v < e => Place(v) < next * W
        BY <2>1 DEF Reads
      <3>2. e < Total(cluster)
        BY <2>1
      <3> QED BY <3>1, <3>2, PlaceFacts, EveryBit, WidthAssumption
    <2>3. \A v \in Locals(cluster) : v >= e => Word(Place(v)) \in FullWords
      BY <1>2, <2>1, WordsLeft
    <2>4. FullWords # {} /\ FullWords \in SUBSET Nat
      <3>1. e >= e
        BY <2>2
      <3>2. \A x \in dec.next .. NWords - 1 : x \in Nat
        BY <2>1, <2>2
      <3> QED BY <2>2, <2>3, <3>1, <3>2 DEF FullWords
    <2>5. PICK w : w = CHOOSE v \in FullWords : \A x \in FullWords : v <= x
      OBVIOUS
    <2>6. w \in FullWords /\ \A x \in FullWords : w <= x
      BY <2>4, <2>5, Minimum
    <2>7. w \in 0 .. NWords - 1 /\ w \in Nat /\ next <= w /\ words[w] # {}
      BY <2>1, <2>2, <2>6 DEF FullWords
    <2>8. /\ w * W \in Nat /\ (w + 1) * W = w * W + W /\ next * W <= w * W
          /\ next * W \in Nat /\ w + 1 \in 0 .. NWords
      BY <2>2, <2>7, Multiples
    <2>9. words[w] \in SUBSET (0 .. W - 1)
      BY <2>7, WordHolds
    <2>10. PICK d : d = Refilled
      OBVIOUS
    <2>11. d = [dec EXCEPT !.ones = words[w], !.base = w * W, !.next = w + 1]
      BY <1>2, <2>5, <2>10 DEF Refilled
    <2>12. d.ones = words[w] /\ d.base = w * W /\ d.next = w + 1 /\ d.emitted = e
           /\ d \in [ones : SUBSET (0 .. W - 1), base : Nat, next : 0 .. NWords, emitted : Nat]
      <3>1. dec \in [ones : SUBSET (0 .. W - 1), base : Nat, next : 0 .. NWords, emitted : Nat]
        BY DEF Reads
      <3> QED BY <2>1, <2>8, <2>9, <2>11, <3>1
    <2>13. ASSUME NEW x \in words[w] PROVE w * W + x < (w + 1) * W
      <3>1. x \in 0 .. W - 1
        BY <2>9
      <3> QED BY <2>2, <2>8, <3>1
    <2>14. ASSUME NEW x \in words[w]
           PROVE  \E v \in Locals(cluster) : v >= e /\ w * W + x = Place(v)
      <3>1. PICK v \in Locals(cluster) : w * W + x = Place(v)
        BY <2>7, WordHolds
      <3>2. x \in 0 .. W - 1 /\ v \in Nat /\ Place(v) \in Nat
        BY <2>2, <2>9
      <3>3. ~(Place(v) < next * W)
        BY <2>8, <3>1, <3>2
      <3>4. v >= e
        BY <2>2, <3>2, <3>3
      <3> QED BY <3>1, <3>4
    <2>15. ASSUME NEW v \in Locals(cluster), v >= e, Place(v) < (w + 1) * W
           PROVE  \E x \in words[w] : w * W + x = Place(v)
      <3>1. w <= Word(Place(v))
        BY <2>3, <2>6, <2>15
      <3>2. Place(v) \in Nat /\ Word(Place(v)) \in Nat /\ w + 1 \in Nat
        BY <2>2, <2>7, Addresses
      <3>3. Word(Place(v)) < w + 1
        BY <2>15, <3>2, WordOrder
      <3>4. Word(Place(v)) = w
        BY <2>7, <3>1, <3>2, <3>3
      <3> QED BY <2>7, <3>4, WordHolds
    <2>16. ASSUME NEW v \in Locals(cluster), v < e PROVE Place(v) < (w + 1) * W
      <3>1. Place(v) < next * W /\ Place(v) \in Nat
        BY <2>2, <2>16
      <3> QED BY <2>2, <2>8, <3>1
    <2>17. Reads(d)
      BY <2>12, <2>13, <2>14, <2>15, <2>16 DEF Reads
    <2> QED BY <2>1, <2>7, <2>10, <2>12, <2>17
  <1> QED BY <1>1, <1>2

LEMMA OpenFirstReads ==
    ASSUME LoudsInv, OpenFirst, UNCHANGED layout
    PROVE  LoudsInv'
  <1>1. PICK d : d = [ones |-> {}, base |-> 0, next |-> 0, emitted |-> 0]
    OBVIOUS
  <1>2. /\ step = "written" /\ step' = "reading" /\ stage = "final" /\ stage' = "final"
        /\ cluster' = cluster /\ words' = words
        /\ Delivered(cluster) /\ WordsOK /\ Written
        /\ dec' = d /\ call' = [skip |-> 0, asked |-> 0, answer |-> NoParent]
    BY <1>1 DEF OpenFirst, Open, LoudsInv, layout
  <1>3. /\ W \in Nat /\ NWords \in Nat /\ Total(cluster) \in Nat
        /\ \A v \in Locals(cluster) : v \in Nat /\ Place(v) \in Nat
    BY <1>2, WidthAssumption, EveryBit, PlaceFacts
  <1>4. /\ d.ones = {} /\ d.base = 0 /\ d.next = 0 /\ d.emitted = 0
        /\ d \in [ones : SUBSET (0 .. W - 1), base : Nat, next : 0 .. NWords, emitted : Nat]
    BY <1>1, <1>3
  <1>5. d.next * W = 0
    BY <1>3, <1>4
  <1>6. Reads(d)
    BY <1>3, <1>4, <1>5 DEF Reads
  <1>7. Reading'
    <2>1. Reads(dec)'
      BY <1>2, <1>6, SameReads
    <2>2. /\ dec'.emitted = 0 /\ call'.skip = 0 /\ call'.asked = 0 /\ call'.answer = NoParent
          /\ call' \in [skip : Nat, asked : 0 .. Total(cluster), answer : Int]
      BY <1>2, <1>3, <1>4 DEF NoParent
    <2> QED BY <1>2, <2>1, <2>2 DEF Reading
  <1> QED BY <1>2, <1>7, SameCluster, SameWords DEF LoudsInv

\* Behind the roots: their places are their numbers, those of the others come
\* after the zero of the super-root.
LEMMA OpenLinkedReads ==
    ASSUME LoudsInv, InitializeAfterValidatedRootPrefix, UNCHANGED layout
    PROVE  LoudsInv'
  <1> DEFINE n == Total(cluster)
  <1>1. PICK r, w, b, d : /\ r = Roots /\ w = Word(FirstLinked) /\ b = Bit(FirstLinked)
                          /\ d = [ones |-> words[w] \cap (b .. W - 1), base |-> w * W,
                                  next |-> w + 1, emitted |-> r]
    OBVIOUS
  <1>2. /\ step = "written" /\ step' = "reading" /\ stage = "final" /\ stage' = "final"
        /\ cluster' = cluster /\ words' = words
        /\ Delivered(cluster) /\ WordsOK /\ Written
        /\ dec' = d /\ call' = [skip |-> 0, asked |-> r, answer |-> NoParent]
    BY <1>1 DEF InitializeAfterValidatedRootPrefix, Open, LoudsInv, layout
  <1>3. /\ W \in Nat /\ W > 0 /\ NWords \in Nat /\ n \in Nat /\ n > 0
        /\ \A v \in Locals(cluster) : /\ v \in Nat /\ cluster.parent[v] \in Nat
                                      /\ Place(v) \in Nat /\ Place(v) = v + cluster.parent[v]
    BY <1>2, WidthAssumption, EveryBit, PlaceFacts DEF Delivered
  <1>4. r \in 0 .. n /\ \A v \in Locals(cluster) : cluster.parent[v] = 0 <=> v < r
    <2>1. /\ cluster.nv \in Nat /\ cluster.nr \in Nat
          /\ cluster.depth_offsets[1] \in 0 .. cluster.nr
          /\ n = cluster.nv + cluster.nr /\ r = cluster.nv + cluster.depth_offsets[1]
      BY <1>1, <1>2 DEF Delivered, Total, Roots
    <2>2. r \in 0 .. n
      BY <2>1
    <2> QED BY <1>1, <1>2, <2>2 DEF Delivered, Roots
  <1>5. /\ FirstLinked = r + 1 /\ r + 1 \in Nat /\ w \in Nat /\ w \in 0 .. NWords - 1
        /\ b \in 0 .. W - 1 /\ r + 1 = w * W + b
    <2>1. FirstLinked = r + 1 /\ r + 1 \in Nat
      BY <1>1, <1>3, <1>4 DEF FirstLinked
    <2>2. r + 1 \in 0 .. Bits - 1
      BY <1>3, <1>4 DEF Bits
    <2>3. w \in 0 .. NWords - 1
      BY <1>1, <1>2, <2>1, <2>2, EveryBit
    <2> QED BY <1>1, <2>1, <2>3, Addresses
  <1>6. /\ w * W \in Nat /\ (w + 1) * W = w * W + W /\ w + 1 \in 0 .. NWords
        /\ words[w] \in SUBSET (0 .. W - 1)
    BY <1>2, <1>3, <1>5, Multiples, WordHolds
  <1>7. ASSUME NEW v \in Locals(cluster)
        PROVE  /\ v < r => Place(v) < r + 1
               /\ v >= r => Place(v) >= r + 1
    <2>1. v \in Nat /\ cluster.parent[v] \in Nat /\ Place(v) = v + cluster.parent[v]
      BY <1>3
    <2> QED BY <1>4, <2>1
  <1>8. /\ d.ones = words[w] \cap (b .. W - 1) /\ d.base = w * W /\ d.next = w + 1
        /\ d.emitted = r
        /\ d \in [ones : SUBSET (0 .. W - 1), base : Nat, next : 0 .. NWords, emitted : Nat]
    BY <1>1, <1>3, <1>4, <1>6
  <1>9. ASSUME NEW x \in words[w] \cap (b .. W - 1)
        PROVE  /\ w * W + x < (w + 1) * W
               /\ \E v \in Locals(cluster) : v >= r /\ w * W + x = Place(v)
    <2>1. x \in 0 .. W - 1 /\ x \in words[w] /\ x >= b
      BY <1>5, <1>6
    <2>2. PICK v \in Locals(cluster) : w * W + x = Place(v)
      BY <1>2, <1>5, <2>1, WordHolds
    <2>3. Place(v) >= r + 1
      BY <1>5, <1>6, <2>1, <2>2
    <2>4. v >= r
      <3>1. v \in Nat /\ Place(v) \in Nat
        BY <1>3
      <3> QED BY <1>4, <1>7, <2>3, <3>1
    <2> QED BY <1>3, <1>6, <2>1, <2>2, <2>4
  <1>10. ASSUME NEW v \in Locals(cluster), v >= r, Place(v) < (w + 1) * W
         PROVE  \E x \in words[w] \cap (b .. W - 1) : w * W + x = Place(v)
    <2>1. Place(v) \in Nat /\ Place(v) >= r + 1 /\ w + 1 \in Nat /\ Word(Place(v)) \in Nat
      <3>1. Place(v) \in Nat /\ w + 1 \in Nat
        BY <1>3, <1>5
      <3>2. Place(v) >= r + 1
        BY <1>7, <1>10
      <3> QED BY <3>1, <3>2, Addresses
    <2>2. w * W <= Place(v)
      BY <1>5, <1>6, <2>1
    <2>3. Word(Place(v)) < w + 1 /\ w <= Word(Place(v))
      BY <1>5, <1>10, <2>1, <2>2, WordOrder
    <2>4. Word(Place(v)) = w
      BY <1>5, <2>1, <2>3
    <2>5. PICK x \in words[w] : w * W + x = Place(v)
      BY <1>2, <1>5, <2>4, WordHolds
    <2>6. x \in 0 .. W - 1
      BY <1>6
    <2>7. x \in b .. W - 1
      BY <1>3, <1>5, <1>6, <2>1, <2>5, <2>6
    <2> QED BY <2>5, <2>7
  <1>11. ASSUME NEW v \in Locals(cluster), v < r PROVE Place(v) < (w + 1) * W
    <2>1. Place(v) \in Nat /\ Place(v) < r + 1
      BY <1>3, <1>7, <1>11
    <2> QED BY <1>3, <1>5, <1>6, <2>1
  <1>12. Reads(d)
    BY <1>8, <1>9, <1>10, <1>11 DEF Reads
  <1>13. Reading'
    <2>1. Reads(dec)'
      BY <1>2, <1>12, SameReads
    <2>2. /\ dec'.emitted = r /\ call'.skip = 0 /\ call'.asked = r /\ call'.answer = NoParent
          /\ call' \in [skip : Nat, asked : 0 .. n, answer : Int]
      BY <1>2, <1>4, <1>8 DEF NoParent
    <2>3. r + 0 = r
      BY <1>4
    <2> QED BY <1>2, <2>1, <2>2, <2>3 DEF Reading
  <1> QED BY <1>2, <1>13, SameCluster, SameWords DEF LoudsInv

LEMMA CallSkipReads ==
    ASSUME LoudsInv, CallSkip, UNCHANGED layout
    PROVE  LoudsInv'
  <1> DEFINE n == Total(cluster)
  <1>1. /\ step = "reading" /\ step' = "reading" /\ stage = "final" /\ stage' = "final"
        /\ cluster' = cluster /\ words' = words /\ dec' = dec
        /\ Delivered(cluster) /\ WordsOK /\ Written /\ Reading /\ call.skip = 0
    BY DEF CallSkip, LoudsInv, layout
  <1>2. PICK e, asked : e = dec.emitted /\ asked = call.asked
    OBVIOUS
  <1>3. PICK k \in 1 .. n - asked : call' = [skip |-> k, asked |-> asked + k, answer |-> NoParent]
    BY <1>2 DEF CallSkip
  <1>4. Reads(dec) /\ asked \in 0 .. n /\ n \in Nat /\ e \in Nat /\ e + 0 = asked
    BY <1>1, <1>2, PlaceFacts DEF Reading, Reads
  <1>5. /\ dec'.emitted = e /\ call'.skip = k /\ call'.asked = asked + k
        /\ call'.answer = NoParent /\ e + k = asked + k
        /\ call' \in [skip : Nat, asked : 0 .. n, answer : Int]
    BY <1>1, <1>2, <1>3, <1>4 DEF NoParent
  <1>6. Reads(dec)'
    BY <1>1, <1>4, SameReads
  <1>7. Reading'
    BY <1>1, <1>5, <1>6 DEF Reading
  <1> QED BY <1>1, <1>7, SameCluster, SameWords DEF LoudsInv

\* A vertex has as many ones before it in its word as there are vertices
\* before it that are not emitted.
LEMMA OnesBefore ==
    ASSUME Delivered(cluster), NEW d, Reads(d), NEW v \in Locals(cluster), v >= d.emitted,
           NEW x \in d.ones, d.base + x = Place(v)
    PROVE  Cardinality({y \in d.ones : y < x}) = v - d.emitted
  <1>1. PICK e, base, T : e = d.emitted /\ base = d.base /\ T = {y \in d.ones : y < x}
    OBVIOUS
  <1>2. /\ \A u \in Locals(cluster) : u \in Nat /\ Place(u) \in Nat
        /\ \A t, u \in Locals(cluster) : t < u => Place(t) < Place(u)
        /\ \A t, u \in Locals(cluster) : Place(t) < Place(u) => t < u
        /\ \A t, u \in Locals(cluster) : Place(t) = Place(u) => t = u
        /\ Locals(cluster) = 0 .. Total(cluster) - 1 /\ Total(cluster) \in Nat
        /\ W \in Nat
    BY PlaceFacts, WidthAssumption
  <1>3. /\ e \in Nat /\ base \in Nat /\ d.next * W \in Nat
        /\ v >= e /\ v \in Nat /\ base + x = Place(v) /\ Place(v) < d.next * W
        /\ \A y \in d.ones : /\ y \in Nat
                             /\ \E u \in Locals(cluster) : u >= e /\ base + y = Place(u)
        /\ \A u \in Locals(cluster) :
              u >= e /\ Place(u) < d.next * W => \E y \in d.ones : base + y = Place(u)
    <2>1. d \in [ones : SUBSET (0 .. W - 1), base : Nat, next : 0 .. NWords, emitted : Nat]
      BY DEF Reads
    <2>2. d.next \in Nat
      BY <2>1, EveryBit
    <2>3. d.next * W \in Nat
      BY <2>2, Multiples
    <2>4. \A y \in d.ones : y \in Nat
      BY <1>2, <2>1
    <2>5. base + x < d.next * W
      BY <1>1 DEF Reads
    <2>6. base + x = Place(v) /\ v >= e
      BY <1>1
    <2>7. e \in Nat /\ base \in Nat
      BY <1>1, <2>1
    <2> QED BY <1>1, <1>2, <2>3, <2>4, <2>5, <2>6, <2>7 DEF Reads
  <1>4. e .. v - 1 \in SUBSET Locals(cluster)
    BY <1>2, <1>3
  <1> DEFINE F == [u \in e .. v - 1 |-> Place(u) - base]
  <1>5. ASSUME NEW u \in e .. v - 1 PROVE F[u] \in T /\ base + F[u] = Place(u)
    <2>1. u \in Locals(cluster) /\ u >= e /\ u < v /\ u \in Nat /\ Place(u) \in Nat
      BY <1>2, <1>3, <1>4
    <2>2. Place(u) < Place(v) /\ Place(v) \in Nat
      BY <1>2, <2>1
    <2>3. Place(u) < d.next * W
      BY <1>3, <2>1, <2>2
    <2>4. PICK y \in d.ones : base + y = Place(u)
      BY <1>3, <2>1, <2>3
    <2>5. x \in Nat /\ y \in Nat
      BY <1>3
    <2>6. y = Place(u) - base /\ y < x
      BY <1>3, <2>1, <2>2, <2>4, <2>5
    <2>7. F[u] = y
      BY <2>6
    <2> QED BY <1>1, <2>4, <2>6, <2>7
  <1>6. ASSUME NEW y \in T PROVE \E u \in e .. v - 1 : F[u] = y
    <2>1. y \in d.ones /\ y < x /\ y \in Nat /\ x \in Nat
      BY <1>1, <1>3
    <2>2. PICK u \in Locals(cluster) : u >= e /\ base + y = Place(u)
      BY <1>3, <2>1
    <2>3. Place(u) < Place(v) /\ Place(u) \in Nat
      BY <1>2, <1>3, <2>1, <2>2
    <2>4. u < v /\ u \in Nat
      BY <1>2, <2>3
    <2>5. u \in e .. v - 1
      BY <1>3, <2>2, <2>4
    <2>6. Place(u) - base = y
      BY <1>3, <2>1, <2>2, <2>3
    <2> QED BY <2>5, <2>6
  <1>7. F \in [e .. v - 1 -> T]
    BY <1>5
  <1>8. \A t, u \in e .. v - 1 : F[t] = F[u] => t = u
    <2>1. ASSUME NEW t \in e .. v - 1, NEW u \in e .. v - 1, F[t] = F[u] PROVE t = u
      <3>1. Place(t) = Place(u)
        BY <1>5, <2>1
      <3> QED BY <1>2, <1>4, <3>1
    <2> QED BY <2>1
  <1> HIDE DEF F
  <1>9. e \in Int /\ v \in Int /\ e <= v
    BY <1>3
  <1>10. Cardinality(T) = v - e
    BY <1>6, <1>7, <1>8, <1>9, CountedBy
  <1> QED BY <1>1, <1>10

\* The ones of a decoder are the next vertices that are not emitted.
LEMMA OnesAreNext ==
    ASSUME Delivered(cluster), NEW d, Reads(d), NEW v \in Locals(cluster), v >= d.emitted,
           v < d.emitted + Cardinality(d.ones)
    PROVE  Place(v) < d.next * W
  <1> DEFINE n == Total(cluster)
  <1>1. PICK e, base, top : e = d.emitted /\ base = d.base /\ top = d.next * W
    OBVIOUS
  <1>2. /\ \A u \in Locals(cluster) : u \in Nat /\ Place(u) \in Nat
        /\ \A t, u \in Locals(cluster) : t < u => Place(t) < Place(u)
        /\ \A t, u \in Locals(cluster) : Place(t) = Place(u) => t = u
        /\ Locals(cluster) = 0 .. n - 1 /\ n \in Nat
        /\ W \in Nat
    BY PlaceFacts, WidthAssumption
  <1>3. /\ e \in Nat /\ base \in Nat /\ top \in Nat /\ v >= e /\ v \in Nat
        /\ \A y \in d.ones : /\ y \in Nat /\ base + y < top
                             /\ \E u \in Locals(cluster) : u >= e /\ base + y = Place(u)
        /\ \A u \in Locals(cluster) :
              u >= e /\ Place(u) < top => \E y \in d.ones : base + y = Place(u)
    <2>1. d \in [ones : SUBSET (0 .. W - 1), base : Nat, next : 0 .. NWords, emitted : Nat]
      BY DEF Reads
    <2>2. d.next \in Nat
      BY <2>1, EveryBit
    <2>3. top \in Nat
      BY <1>1, <2>2, Multiples
    <2>4. \A y \in d.ones : y \in Nat
      BY <1>2, <2>1
    <2>5. e \in Nat /\ base \in Nat
      BY <1>1, <2>1
    <2> QED BY <1>1, <1>2, <2>3, <2>4, <2>5 DEF Reads
  <1>4. PICK m : m = n - e
    OBVIOUS
  <1>5. m \in Nat /\ n = e + m /\ v \in e .. e + m - 1
    <2>1. v < n
      BY <1>2, <1>3
    <2>2. n \in Nat /\ e \in Nat /\ v \in Nat /\ v >= e
      BY <1>2, <1>3
    <2> QED BY <1>4, <2>1, <2>2
  <1> DEFINE V == {u \in e .. e + m - 1 : Place(u) < top}
             F == [u \in V |-> Place(u) - base]
  <1>6. \A u \in e .. e + m - 1 : u \in Locals(cluster) /\ u >= e /\ u \in Nat /\ Place(u) \in Nat
    BY <1>2, <1>3, <1>5
  <1>7. \A x \in V, y \in e .. e + m - 1 : y <= x => y \in V
    <2>1. ASSUME NEW x \in V, NEW y \in e .. e + m - 1, y <= x PROVE y \in V
      <3>1. /\ x \in Locals(cluster) /\ x \in Nat /\ Place(x) \in Nat /\ Place(x) < top
            /\ y \in Locals(cluster) /\ y \in Nat /\ Place(y) \in Nat
        BY <1>6
      <3>2. y < x => Place(y) < Place(x)
        BY <1>2, <3>1
      <3>3. Place(y) < top
        BY <1>3, <2>1, <3>1, <3>2
      <3> QED BY <3>3
    <2> QED BY <2>1
  <1>8. ASSUME NEW u \in V PROVE F[u] \in d.ones /\ base + F[u] = Place(u)
    <2>1. u \in Locals(cluster) /\ u >= e /\ Place(u) < top /\ Place(u) \in Nat
      BY <1>6
    <2>2. PICK y \in d.ones : base + y = Place(u)
      BY <1>3, <2>1
    <2>3. y = Place(u) - base
      BY <1>3, <2>1, <2>2
    <2> QED BY <2>2, <2>3
  <1>9. ASSUME NEW y \in d.ones PROVE \E u \in V : F[u] = y
    <2>1. PICK u \in Locals(cluster) : u >= e /\ base + y = Place(u)
      BY <1>3
    <2>2. u \in e .. e + m - 1 /\ Place(u) < top /\ Place(u) - base = y
      BY <1>2, <1>3, <1>5, <2>1
    <2> QED BY <2>2
  <1>10. F \in [V -> d.ones]
    BY <1>8
  <1>11. \A t, u \in V : F[t] = F[u] => t = u
    <2>1. ASSUME NEW t \in V, NEW u \in V, F[t] = F[u] PROVE t = u
      <3>1. Place(t) = Place(u)
        BY <1>8, <2>1
      <3> QED BY <1>2, <1>6, <3>1
    <2> QED BY <2>1
  <1>12. V \in SUBSET (e .. e + m - 1)
    OBVIOUS
  <1>13. \A u \in e .. e + m - 1 : u \in V <=> Place(u) < top
    OBVIOUS
  <1> HIDE DEF F, V
  <1>14. IsFiniteSet(V)
    <2>1. e \in Int /\ e + m - 1 \in Int
      BY <1>3, <1>5
    <2> QED BY <1>12, <2>1, FS_Interval, FS_Subset
  <1>15. Cardinality(d.ones) = Cardinality(V)
    BY <1>9, <1>10, <1>11, <1>14, SameCount
  <1>16. PICK k : k = v - e
    OBVIOUS
  <1>17. k \in 0 .. m - 1 /\ v = e + k
    BY <1>3, <1>5, <1>16
  <1>18. e + k \in V <=> k < Cardinality(V)
    BY <1>3, <1>5, <1>7, <1>12, <1>17, PrefixCount
  <1>19. k < Cardinality(V)
    <2>1. Cardinality(V) \in Nat /\ v < e + Cardinality(V)
      BY <1>1, <1>14, <1>15, FS_CardinalityType
    <2> QED BY <1>3, <1>17, <2>1
  <1> QED BY <1>1, <1>5, <1>13, <1>17, <1>18, <1>19

LEMMA SkipReads ==
    ASSUME LoudsInv, Skip, UNCHANGED layout
    PROVE  LoudsInv'
  <1> DEFINE n == Total(cluster)
  <1>1. PICK d, e, skip, m, c : /\ d = Refilled /\ e = dec.emitted /\ skip = call.skip
                                /\ m = Cardinality(d.ones) /\ c = Lesser(skip, m)
    OBVIOUS
  <1>2. /\ step = "reading" /\ step' = "reading" /\ stage = "final" /\ stage' = "final"
        /\ cluster' = cluster /\ words' = words
        /\ Delivered(cluster) /\ WordsOK /\ Written /\ Reading /\ skip > 0
    BY <1>1 DEF Skip, LoudsInv, layout
  <1> DEFINE Kept == {x \in d.ones : Cardinality({y \in d.ones : y < x}) >= c}
  <1>3. /\ dec' = [d EXCEPT !.ones = Kept, !.emitted = @ + c]
        /\ call' = [call EXCEPT !.skip = @ - c]
    BY <1>1 DEF Skip
  <1>4. /\ call \in [skip : Nat, asked : 0 .. n, answer : Int]
        /\ Reads(dec) /\ e \in Nat /\ skip \in Nat /\ e + skip = call.asked /\ n \in Nat
        /\ e < n
    <2>1. /\ call \in [skip : Nat, asked : 0 .. n, answer : Int] /\ n \in Nat
          /\ Reads(dec) /\ e + skip = call.asked
      BY <1>1, <1>2, PlaceFacts DEF Reading
    <2>2. e \in Nat
      BY <1>1, <2>1 DEF Reads
    <2>3. skip \in Nat /\ call.asked \in 0 .. n
      BY <1>1, <2>1
    <2> QED BY <1>2, <2>1, <2>2, <2>3
  <1>5. Reads(d) /\ d.emitted = e
    BY <1>1, <1>2, <1>4, RefilledReads
  <1>6. d \in [ones : SUBSET (0 .. W - 1), base : Nat, next : 0 .. NWords, emitted : Nat]
    BY <1>5 DEF Reads
  <1>7. m \in Nat /\ c \in Nat /\ c <= skip /\ c <= m
    <2>1. d.ones \in SUBSET (0 .. W - 1)
      BY <1>6
    <2>2. IsFiniteSet(0 .. W - 1)
      <3>1. 0 \in Int /\ W - 1 \in Int
        BY WidthAssumption
      <3> QED BY <3>1, FS_Interval
    <2>3. m \in Nat
      BY <1>1, <2>1, <2>2, FS_Subset, FS_CardinalityType
    <2> QED BY <1>1, <1>4, <2>3 DEF Lesser
  <1>8. ASSUME NEW v \in Locals(cluster), v >= e, NEW x \in d.ones, d.base + x = Place(v)
        PROVE  x \in Kept <=> v >= e + c
    <2>1. Cardinality({y \in d.ones : y < x}) = v - e
      BY <1>2, <1>5, <1>8, OnesBefore
    <2>2. v \in Nat
      BY <1>2, PlaceFacts
    <2>3. v - e >= c <=> v >= e + c
      BY <1>4, <1>7, <2>2
    <2> QED BY <2>1, <2>3
  <1>9. Kept \in SUBSET d.ones
    OBVIOUS
  <1> HIDE DEF Kept
  <1>10. PICK f : f = dec'
    OBVIOUS
  <1>11. /\ f.ones = Kept /\ f.base = d.base /\ f.next = d.next /\ f.emitted = e + c
         /\ f \in [ones : SUBSET (0 .. W - 1), base : Nat, next : 0 .. NWords, emitted : Nat]
    <2>1. Kept \in SUBSET (0 .. W - 1) /\ e + c \in Nat
      BY <1>4, <1>6, <1>7, <1>9
    <2>2. f = [d EXCEPT !.ones = Kept, !.emitted = e + c]
      BY <1>3, <1>5, <1>10
    <2> QED BY <1>6, <2>1, <2>2
  <1>12. \A x \in Kept : d.base + x < d.next * W
    BY <1>5, <1>9 DEF Reads
  <1>13. \A v \in Locals(cluster) : v \in Nat
    BY <1>2, PlaceFacts
  <1>14. ASSUME NEW x \in Kept
         PROVE  \E v \in Locals(cluster) : v >= e + c /\ d.base + x = Place(v)
    <2>1. x \in d.ones
      BY <1>9
    <2>2. PICK v \in Locals(cluster) : v >= e /\ d.base + x = Place(v)
      BY <1>5, <2>1 DEF Reads
    <2> QED BY <1>8, <2>1, <2>2
  <1>15. ASSUME NEW v \in Locals(cluster), v >= e + c, Place(v) < d.next * W
         PROVE  \E x \in Kept : d.base + x = Place(v)
    <2>1. v >= e
      BY <1>4, <1>7, <1>13, <1>15
    <2>2. PICK x \in d.ones : d.base + x = Place(v)
      BY <1>5, <1>15, <2>1 DEF Reads
    <2> QED BY <1>8, <1>15, <2>1, <2>2
  <1>16. ASSUME NEW v \in Locals(cluster), v < e + c PROVE Place(v) < d.next * W
    <2>1. CASE v < e
      BY <1>5, <2>1 DEF Reads
    <2>2. CASE v >= e
      <3>1. v < e + m
        BY <1>4, <1>7, <1>13, <1>16
      <3> QED BY <1>1, <1>2, <1>5, <2>2, <3>1, OnesAreNext
    <2> QED BY <1>4, <1>13, <2>1, <2>2
  <1>17. Reads(f)
    BY <1>11, <1>12, <1>14, <1>15, <1>16 DEF Reads
  <1>18. Reading'
    <2>1. Reads(dec)'
      BY <1>2, <1>10, <1>17, SameReads
    <2>2. /\ call'.skip = skip - c /\ call'.asked = call.asked /\ call'.answer = call.answer
          /\ call' \in [skip : Nat, asked : 0 .. n, answer : Int]
      <3>1. skip - c \in Nat
        BY <1>4, <1>7
      <3>2. call' = [call EXCEPT !.skip = skip - c]
        BY <1>1, <1>3
      <3> QED BY <1>4, <3>1, <3>2
    <2>3. dec'.emitted = e + c
      BY <1>10, <1>11
    <2>4. (e + c) + (skip - c) = call.asked
      BY <1>4, <1>7
    <2>5. call.answer = NoParent \/ call.answer = cluster.parent[call.asked - 1]
      BY <1>2 DEF Reading
    <2> QED BY <1>2, <2>1, <2>2, <2>3, <2>4, <2>5 DEF Reading
  <1> QED BY <1>2, <1>18, SameCluster, SameWords DEF LoudsInv

LEMMA NextParentReads ==
    ASSUME LoudsInv, NextParent1Based, UNCHANGED layout
    PROVE  LoudsInv'
  <1> DEFINE n == Total(cluster)
  <1>1. PICK d, e : d = Refilled /\ e = dec.emitted
    OBVIOUS
  <1>2. /\ step = "reading" /\ step' = "reading" /\ stage = "final" /\ stage' = "final"
        /\ cluster' = cluster /\ words' = words
        /\ Delivered(cluster) /\ WordsOK /\ Written /\ Reading
        /\ call.skip = 0 /\ call.asked < n
    BY DEF NextParent1Based, LoudsInv, layout
  <1>3. PICK bit \in d.ones :
            /\ \A x \in d.ones : bit <= x
            /\ dec' = [d EXCEPT !.ones = @ \ {bit}, !.emitted = @ + 1]
            /\ call' = [call EXCEPT !.asked = @ + 1, !.answer = d.base + bit - d.emitted]
    BY <1>1 DEF NextParent1Based
  <1>4. /\ call \in [skip : Nat, asked : 0 .. n, answer : Int]
        /\ Reads(dec) /\ e \in Nat /\ call.asked = e /\ n \in Nat /\ e < n /\ e \in Locals(cluster)
    <2>1. /\ call \in [skip : Nat, asked : 0 .. n, answer : Int] /\ n \in Nat
          /\ Reads(dec) /\ e + 0 = call.asked
      BY <1>1, <1>2, PlaceFacts DEF Reading
    <2>2. e \in Nat
      BY <1>1, <2>1 DEF Reads
    <2>3. call.asked = e /\ e < n
      BY <1>2, <2>1, <2>2
    <2> QED BY <1>2, <2>1, <2>2, <2>3, PlaceFacts
  <1>5. Reads(d) /\ d.emitted = e
    BY <1>1, <1>2, <1>4, RefilledReads
  <1>6. d \in [ones : SUBSET (0 .. W - 1), base : Nat, next : 0 .. NWords, emitted : Nat]
    BY <1>5 DEF Reads
  <1>7. PICK base, top : base = d.base /\ top = d.next * W
    OBVIOUS
  <1>8. /\ base \in Nat /\ top \in Nat
        /\ \A x \in d.ones : /\ x \in Nat /\ base + x < top
                             /\ \E v \in Locals(cluster) : v >= e /\ base + x = Place(v)
        /\ \A v \in Locals(cluster) :
              v >= e /\ Place(v) < top => \E x \in d.ones : base + x = Place(v)
        /\ \A v \in Locals(cluster) : v < e => Place(v) < top
    <2>1. d.next \in Nat
      BY <1>2, <1>6, EveryBit
    <2>2. top \in Nat
      BY <1>7, <2>1, Multiples
    <2>3. \A x \in d.ones : x \in Nat
      <3>1. \A x \in 0 .. W - 1 : x \in Nat
        BY WidthAssumption
      <3> QED BY <1>6, <3>1
    <2>4. base \in Nat
      BY <1>6, <1>7
    <2> QED BY <1>5, <1>7, <2>2, <2>3, <2>4 DEF Reads
  <1>9. /\ \A v \in Locals(cluster) : /\ v \in Nat /\ Place(v) \in Nat
                                      /\ Place(v) = v + cluster.parent[v]
                                      /\ cluster.parent[v] \in Nat
        /\ \A t, u \in Locals(cluster) : t < u => Place(t) < Place(u)
        /\ \A t, u \in Locals(cluster) : Place(t) = Place(u) => t = u
    BY <1>2, PlaceFacts
  <1>10. base + bit = Place(e) /\ bit \in Nat
    <2>1. PICK v \in Locals(cluster) : v >= e /\ base + bit = Place(v)
      BY <1>8
    <2>2. bit \in Nat /\ base + bit < top /\ v \in Nat /\ Place(v) \in Nat /\ Place(e) \in Nat
      BY <1>4, <1>8, <1>9, <2>1
    <2>3. CASE e < v
      <3>1. Place(e) < Place(v)
        BY <1>4, <1>9, <2>3
      <3>2. e >= e /\ Place(e) < top
        BY <1>4, <1>8, <2>1, <2>2, <3>1
      <3>3. PICK x \in d.ones : base + x = Place(e)
        BY <1>4, <1>8, <3>2
      <3>4. bit <= x /\ x \in Nat
        BY <1>3, <1>8
      <3> QED BY <1>8, <2>1, <2>2, <3>1, <3>3, <3>4
    <2>4. CASE v = e
      BY <2>1, <2>2, <2>4
    <2> QED BY <1>4, <2>1, <2>2, <2>3, <2>4
  <1>11. PICK f : f = dec'
    OBVIOUS
  <1>12. /\ f.ones = d.ones \ {bit} /\ f.base = base /\ f.next = d.next /\ f.emitted = e + 1
         /\ f \in [ones : SUBSET (0 .. W - 1), base : Nat, next : 0 .. NWords, emitted : Nat]
    <2>1. d.ones \ {bit} \in SUBSET (0 .. W - 1) /\ e + 1 \in Nat
      BY <1>4, <1>6
    <2>2. f = [d EXCEPT !.ones = d.ones \ {bit}, !.emitted = e + 1]
      BY <1>3, <1>5, <1>11
    <2> QED BY <1>6, <1>7, <2>1, <2>2
  <1>13. ASSUME NEW x \in d.ones \ {bit}
         PROVE  base + x < top /\ \E v \in Locals(cluster) : v >= e + 1 /\ base + x = Place(v)
    <2>1. PICK v \in Locals(cluster) : v >= e /\ base + x = Place(v)
      BY <1>8
    <2>2. v # e
      <3>1. x # bit /\ x \in Nat
        BY <1>8
      <3> QED BY <1>8, <1>10, <2>1, <3>1
    <2>3. v \in Nat
      BY <1>9
    <2>4. v >= e + 1
      BY <1>4, <2>1, <2>2, <2>3
    <2> QED BY <1>8, <2>1, <2>4
  <1>14. ASSUME NEW v \in Locals(cluster), v >= e + 1, Place(v) < top
         PROVE  \E x \in d.ones \ {bit} : base + x = Place(v)
    <2>1. v >= e /\ v # e
      <3>1. v \in Nat
        BY <1>9
      <3> QED BY <1>4, <1>14, <3>1
    <2>2. PICK x \in d.ones : base + x = Place(v)
      BY <1>8, <1>14, <2>1
    <2>3. x # bit
      BY <1>4, <1>9, <1>10, <2>1, <2>2
    <2> QED BY <2>2, <2>3
  <1>15. ASSUME NEW v \in Locals(cluster), v < e + 1 PROVE Place(v) < top
    <2>1. CASE v < e
      BY <1>8, <2>1
    <2>2. CASE v = e
      BY <1>3, <1>8, <1>10, <2>2
    <2>3. v \in Nat
      BY <1>9
    <2> QED BY <1>4, <1>15, <2>1, <2>2, <2>3
  <1>16. Reads(f)
    BY <1>7, <1>12, <1>13, <1>14, <1>15 DEF Reads
  <1>17. Reading'
    <2>1. Reads(dec)'
      BY <1>2, <1>11, <1>16, SameReads
    <2>2. PICK a : a = d.base + bit - d.emitted
      OBVIOUS
    <2>3. a = cluster.parent[e] /\ a \in Int
      <3>1. a = base + bit - e
        BY <1>5, <1>7, <2>2
      <3> QED BY <1>4, <1>8, <1>9, <1>10, <3>1
    <2>4. /\ call'.skip = 0 /\ call'.asked = e + 1 /\ call'.answer = a
          /\ call' \in [skip : Nat, asked : 0 .. n, answer : Int]
      <3>1. e + 1 \in 0 .. n
        BY <1>4
      <3>2. call' = [call EXCEPT !.asked = e + 1, !.answer = a]
        BY <1>3, <1>4, <2>2
      <3> QED BY <1>2, <1>4, <2>3, <3>1, <3>2
    <2>5. dec'.emitted = e + 1
      BY <1>11, <1>12
    <2>6. (e + 1) - 1 = e /\ (e + 1) + 0 = e + 1
      BY <1>4
    <2> QED BY <1>2, <2>1, <2>3, <2>4, <2>5, <2>6 DEF Reading
  <1> QED BY <1>2, <1>17, SameCluster, SameWords DEF LoudsInv

-----------------------------------------------------------------------------
LEMMA LoudsSteps ==
    ASSUME LInv, LoudsInv, LoudsStep, UNCHANGED layout
    PROVE  LoudsInv'
  BY StartLoudsWrites, PutOnesWrites, PutZeroWrites, EndLoudsWritten, StartDecodes,
     NodeDecodes, DecodeEnds, OpenFirstReads, OpenLinkedReads, CallSkipReads, SkipReads,
     NextParentReads DEF LoudsStep

LEMMA LoudsStays ==
    ASSUME LoudsInv, UNCHANGED <<layout, louds>>
    PROVE  LoudsInv'
  <1>1. /\ stage' = stage /\ cluster' = cluster /\ step' = step /\ words' = words
        /\ put' = put /\ full' = full /\ dec' = dec /\ call' = call
    BY DEF layout, louds
  <1>2. Writing' <=> Writing
    BY <1>1, SameCluster, SameWords DEF Writing
  <1>3. Decoding' <=> Decoding
    BY <1>1 DEF Decoding
  <1>4. Reading => Reading'
    <2>1. Reads(dec) => Reads(dec)'
      BY <1>1, SameReads
    <2> QED BY <1>1, <2>1 DEF Reading
  <1> QED BY <1>1, <1>2, <1>3, <1>4, SameCluster, SameWords DEF LoudsInv

\* As long as no LOUDS has been begun, the cluster may change.
LEMMA LoudsWaits ==
    ASSUME LoudsInv, stage # "final", UNCHANGED louds
    PROVE  LoudsInv'
  <1>1. step = "idle"
    BY DEF LoudsInv
  <1>2. step' = "idle"
    BY <1>1 DEF louds
  <1> QED BY <1>2 DEF LoudsInv

LEMMA InductiveLouds == LoudsSpec => [](LInv /\ LoudsInv)
  <1>1. LayoutInit /\ LoudsIdle => LInv /\ LoudsInv
    BY DEF LayoutInit, LoudsIdle, LInv, SameForestInLevels, LoudsInv
  <1>2. LInv /\ LoudsInv /\ [LoudsNext]_<<layout, louds>> => (LInv /\ LoudsInv)'
    <2>1. ASSUME LInv, LoudsInv, LayoutNext, UNCHANGED louds PROVE (LInv /\ LoudsInv)'
      BY <2>1, LayoutSteps, LoudsWaits
    <2>2. ASSUME LInv, LoudsInv, LoudsStep, UNCHANGED layout PROVE (LInv /\ LoudsInv)'
      BY <2>2, LayoutStays, LoudsSteps
    <2>3. ASSUME LInv, LoudsInv, UNCHANGED <<layout, louds>> PROVE (LInv /\ LoudsInv)'
      BY <2>3, LayoutStays, LoudsStays
    <2> QED BY <2>1, <2>2, <2>3 DEF LoudsNext
  <1> QED BY <1>1, <1>2, PTL DEF LoudsSpec

\* The full decode has given every vertex its parent.
LEMMA AllDecoded ==
    ASSUME Delivered(cluster), Decoding, full.node_id = Total(cluster) + 1
    PROVE  full.out = cluster.parent /\ full.next_child = Total(cluster) + 1
  <1> DEFINE n == Total(cluster)
  <1>1. PICK done : done = full.next_child - 1
    OBVIOUS
  <1>2. /\ n \in Nat /\ Locals(cluster) = 0 .. n - 1
        /\ \A v \in Locals(cluster) : /\ v \in Nat /\ cluster.parent[v] \in Nat
                                      /\ cluster.parent[v] <= v
    BY PlaceFacts
  <1>3. /\ full.next_child \in 1 .. n + 1
        /\ \A v \in Locals(cluster) : v < done <=> cluster.parent[v] < n + 1
        /\ full.out \in [Locals(cluster) -> Int]
        /\ \A v \in Locals(cluster) : v < done => full.out[v] = cluster.parent[v]
    BY <1>1 DEF Decoding
  <1>4. done \in 0 .. n
    BY <1>1, <1>2, <1>3
  <1>5. ASSUME NEW v \in Locals(cluster) PROVE v < done
    <2>1. v \in Nat /\ cluster.parent[v] \in Nat /\ cluster.parent[v] <= v /\ v < n
      BY <1>2
    <2>2. cluster.parent[v] < n + 1
      BY <1>2, <2>1
    <2> QED BY <1>3, <2>2
  <1>6. done = n
    <2>1. CASE done < n
      <3>1. done \in Locals(cluster)
        BY <1>2, <1>4, <2>1
      <3>2. done < done
        BY <1>5, <3>1
      <3> QED BY <1>4, <3>2
    <2> QED BY <1>2, <1>4, <2>1
  <1>7. full.out = cluster.parent
    <2>1. cluster.parent \in [Locals(cluster) -> Nat]
      BY DEF Delivered
    <2>2. \A v \in Locals(cluster) : full.out[v] = cluster.parent[v]
      BY <1>3, <1>5
    <2> QED BY <1>3, <2>1, <2>2
  <1>8. full.next_child = n + 1
    BY <1>1, <1>2, <1>3, <1>6
  <1> QED BY <1>7, <1>8

\* Roots come first, and the others have a parent before them.
LEMMA RootsFirst ==
    ASSUME Delivered(cluster), NEW u \in Locals(cluster)
    PROVE  cluster.parent[u] \in IF u < Roots THEN {0} ELSE 1 .. u
  <1>1. u \in Nat /\ cluster.parent[u] \in Nat /\ cluster.parent[u] <= u
    BY PlaceFacts
  <1>2. cluster.parent[u] = 0 <=> u < Roots
    BY DEF Delivered, Roots
  <1> QED BY <1>1, <1>2

LEMMA ParentsCorrect ==
    ASSUME LoudsInv
    PROVE  ParentsReadBack
  <1>1. step # "error"
    BY DEF LoudsInv
  <1>2. ASSUME step = "written", NEW u \in Locals(cluster)
        PROVE  /\ Parent1BasedOf(u) = cluster.parent[u]
               /\ cluster.parent[u] \in IF u < Roots THEN {0} ELSE 1 .. u
    BY <1>2, ParentsFound, RootsFirst DEF LoudsInv
  <1>3. ASSUME step = "decoded"
        PROVE  /\ full.out = cluster.parent
               /\ full.node_id = Total(cluster) + 1 /\ full.next_child = Total(cluster) + 1
    BY <1>3, AllDecoded DEF LoudsInv
  <1>4. ASSUME step = "reading"
        PROVE  /\ call.answer = NoParent \/ call.answer = cluster.parent[call.asked - 1]
               /\ call.skip > 0 \/ call.asked < Total(cluster) =>
                     dec.ones # {} \/ FullWords # {}
    <2>1. Delivered(cluster) /\ WordsOK /\ Written /\ Reading
      BY <1>4 DEF LoudsInv
    <2>2. ASSUME call.skip > 0 \/ call.asked < Total(cluster), dec.ones = {}
          PROVE  FullWords # {}
      <3>1. PICK e, skip, asked : e = dec.emitted /\ skip = call.skip /\ asked = call.asked
        OBVIOUS
      <3>2. /\ e \in Nat /\ skip \in Nat /\ asked \in 0 .. Total(cluster)
            /\ e + skip = asked /\ Total(cluster) \in Nat
        BY <2>1, <3>1, PlaceFacts DEF Reading, Reads
      <3>3. skip > 0 \/ asked < Total(cluster)
        BY <2>2, <3>1
      <3>4. e < Total(cluster)
        BY <3>2, <3>3
      <3>5. e \in Locals(cluster) /\ e >= e
        BY <2>1, <3>2, <3>4, PlaceFacts
      <3>6. Word(Place(e)) \in FullWords
        BY <2>1, <2>2, <3>1, <3>5, WordsLeft DEF Reading
      <3> QED BY <3>6
    <2> QED BY <2>1, <2>2 DEF Reading
  <1> QED BY <1>1, <1>2, <1>3, <1>4 DEF ParentsReadBack

(***************************************************************************)
(* Whatever cluster the layout hands over and whatever the word width, the *)
(* sampling distance and the superblocks, every reader of the parent LOUDS *)
(* gives back the parents that BuildFromParent1Based stored.               *)
(***************************************************************************)
THEOREM LoudsGivesTheParentsBack == LoudsSpec => []ParentsReadBack
  <1>1. LoudsInv => ParentsReadBack
    BY ParentsCorrect
  <1> QED BY <1>1, InductiveLouds, PTL

=============================================================================
