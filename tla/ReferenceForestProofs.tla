------------------------ MODULE ReferenceForestProofs ------------------------
(***************************************************************************)
(* ReferenceForest's invariants for a cluster of any size, any preferences *)
(* and any depth limit.  The argument has two halves.  While CutCycles     *)
(* walks, the vertices it has finished hold no cycle: no set of them is    *)
(* closed under `parent'.  A path adds a cycle to them only if it came     *)
(* back to itself, and then the edge CutAt picks is on that cycle.  In     *)
(* BuildDepthLimitedOrder a vertex that never entered the line would have  *)
(* its lister outside the line as well, and the set of all of those would  *)
(* be such a closed set.  The last section shows that the cuts are the     *)
(* right ones and are counted (JInv).                                      *)
(*                                                                         *)
(* Closed sets stand where a reader may expect ranks: they need no choice  *)
(* of a rank and no induction, only the least element of a set of indices. *)
(***************************************************************************)
EXTENDS ReferenceForest, FiniteSetTheorems, WellFoundedInduction, TLAPS

Ordering == phase \in {"roots", "order"}

InLine(v) == \E k \in 1 .. Len(line) : line[k] = v
Popped(v) == \E k \in 1 .. popped : line[k] = v
OneEach == \A j, k \in 1 .. Len(line) : line[j] = line[k] => j = k

Keeps == \A v \in Nodes : parent[v] \in {preferred[v], NoNode}

(***************************************************************************)
(* CutCycles.  The parents of the finished vertices are finished, and no   *)
(* set of them is closed under `parent': there is no cycle.                *)
(***************************************************************************)
Finished == {v \in Nodes : state[v] = 2}
ParentsFinished == \A v \in Finished : parent[v] \in Finished \cup {NoNode}
NoCycle == \A S \in SUBSET Finished : S # {} => \E v \in S : parent[v] \notin S

CutInv ==
    /\ line = <<>> /\ popped = 0 /\ rest = {}
    /\ depth = [v \in Nodes |-> 0]
    /\ \A v \in Nodes : v < start => v \in Finished
    /\ ParentsFinished
    /\ NoCycle

\* The path follows `parent' from `start' to `node'.
PathInv ==
    /\ start \in Nodes
    /\ \A v \in Nodes : state[v] = 1 <=> OnPath(v)
    /\ \A k \in 1 .. Len(path) - 1 : path[k + 1] = parent[path[k]]
    /\ Len(path) > 0 => path[1] = start /\ node = parent[path[Len(path)]]
    /\ Len(path) = 0 => node = start /\ state[start] = 0

(***************************************************************************)
(* BuildDepthLimitedOrder.  The lists it starts from are those of a        *)
(* forest: one list for each vertex at most, and in every set of vertices  *)
(* one that is in the list of none of them.                                *)
(***************************************************************************)
OneList == \A u, v \in Nodes : \A c \in children[u] : c \in children[v] => u = v
Grounded == \A S \in SUBSET Nodes : S # {} =>
                \E c \in S : \A u \in S : c \notin children[u]

RootsInv ==
    /\ popped = 0 /\ rest = {}
    /\ depth = [v \in Nodes |-> 0]
    /\ \A u, c \in Nodes : c \in children[u] <=> parent[c] = u
    /\ \A k \in 1 .. Len(line) : line[k] < start /\ parent[line[k]] = NoNode
    /\ \A v \in Nodes : v < start /\ parent[v] = NoNode => InLine(v)

Placed(v) ==
    /\ depth[v] <= limit
    /\ parent[v] = NoNode => depth[v] = 0
    /\ parent[v] # NoNode => Before(parent[v], v) /\ depth[v] = depth[parent[v]] + 1

OrderInv ==
    /\ \A c \in Nodes : InLine(c) \/ \E u \in Nodes : c \in children[u]
    /\ \A u \in Nodes : \A c \in children[u] : InLine(c) <=> Popped(u) /\ c \notin rest
    /\ rest # {} => popped > 0 /\ rest \subseteq children[line[popped]]
    /\ \A u \in Nodes : \A c \in children[u] : ~InLine(c) => parent[c] = u
    /\ \A v \in Nodes : InLine(v) => Placed(v)

IInv ==
    /\ ForestTypeOK
    /\ Keeps
    /\ phase = "scan" => \A v \in Nodes : state[v] # 1
    /\ phase \in {"scan", "walk"} => CutInv
    /\ phase = "walk" => PathInv
    /\ Ordering => OneList /\ Grounded /\ OneEach
    /\ phase = "roots" => RootsInv
    /\ phase = "order" => OrderInv
    /\ EveryVectorOrdered
    /\ ParentsFirst

-----------------------------------------------------------------------------
LEMMA NatMinimum ==
    ASSUME NEW T, T \subseteq Nat, T # {}
    PROVE  \E x \in T : \A y \in T : x <= y
  <1> DEFINE R == {ss \in Nat \X Nat : ss[1] < ss[2]}
  <1>1. IsWellFoundedOn(R, Nat)
    <2>1. R = OpToRel(<, Nat)
      BY DEF OpToRel
    <2> QED BY <2>1, NatLessThanWellFounded
  <1>2. PICK x \in T : \A y \in T : ~(<<y, x>> \in R)
    BY <1>1, WFMin
  <1>3. ASSUME NEW y \in T PROVE x <= y
    <2>1. x \in Nat /\ y \in Nat
      OBVIOUS
    <2>2. <<y, x>> \in Nat \X Nat
      BY <2>1
    <2>3. y < x => <<y, x>> \in R
      BY <2>2
    <2> QED BY <1>2, <2>1, <2>3
  <1> QED BY <1>3

LEMMA GreatestIndex ==
    ASSUME NEW n \in Nat, NEW T, T \subseteq 1 .. n, T # {}
    PROVE  \E x \in T : \A y \in T : y <= x
  <1> DEFINE U == {n - y : y \in T}
  <1>1. U \subseteq Nat /\ U # {}
    <2>1. \A y \in T : y \in Nat /\ y <= n
      OBVIOUS
    <2>2. \A y \in T : n - y \in Nat
      BY <2>1
    <2>3. PICK y \in T : TRUE
      OBVIOUS
    <2>4. n - y \in U
      BY <2>3
    <2> QED BY <2>2, <2>4
  <1>2. PICK m \in U : \A u \in U : m <= u
    BY <1>1, NatMinimum
  <1>3. PICK x \in T : m = n - x
    BY <1>2
  <1>4. ASSUME NEW y \in T PROVE y <= x
    <2>1. n - y \in U
      OBVIOUS
    <2>2. n - x <= n - y
      BY <1>2, <1>3, <2>1
    <2>3. x \in 1 .. n /\ y \in 1 .. n
      OBVIOUS
    <2> QED BY <2>2, <2>3
  <1> QED BY <1>4

LEMMA NodeFacts ==
    /\ N \in Nat /\ N > 0
    /\ Nodes \subseteq Nat
    /\ NoNode \notin Nodes
    /\ \A v \in Nodes : v < N /\ v >= 0
    /\ \A v \in Nat : v < N => v \in Nodes
  BY SizeAssumption DEF Nodes, NoNode

\* Before it is done the run owes nothing to those who read the order.
LEMMA StillBuilding ==
    ASSUME phase' \notin {"done", "error"}
    PROVE  EveryVectorOrdered' /\ ParentsFirst'
  BY DEF EveryVectorOrdered, ParentsFirst

-----------------------------------------------------------------------------
LEMMA InitHolds == ForestInit => IInv
  <1> SUFFICES ASSUME ForestInit PROVE IInv
    OBVIOUS
  <1>1. limit \in Nat \ {0}
    BY DepthAssumption DEF ForestInit
  <1>2. CASE phase = "done"
    <2>1. preferred = [v \in Nodes |-> NoNode] /\ line = [k \in 1 .. N |-> k - 1] /\ popped = N
      BY <1>2 DEF ForestInit
    <2>2. line \in Seq(Nodes) /\ Len(line) = N
      <3>1. \A k \in 1 .. N : k - 1 \in Nodes
        BY NodeFacts DEF Nodes
      <3>2. line \in [1 .. N -> Nodes]
        BY <2>1, <3>1
      <3> QED BY <2>1, <3>2, NodeFacts
    <2>3. \A v \in Nodes : \E k \in 1 .. Len(line) : line[k] = v
      <3> SUFFICES ASSUME NEW v \in Nodes PROVE \E k \in 1 .. N : line[k] = v
        BY <2>2
      <3>1. v + 1 \in 1 .. N /\ (v + 1) - 1 = v
        BY NodeFacts DEF Nodes
      <3> QED BY <2>1, <3>1
    <2>4. ForestTypeOK
      BY <1>1, <1>2, <2>1, <2>2, NodeFacts DEF ForestInit, ForestTypeOK
    <2>5. Keeps
      BY DEF ForestInit, Keeps, NoNode
    <2>6. EveryVectorOrdered
      BY <1>2, <2>2, <2>3 DEF EveryVectorOrdered
    <2>7. ParentsFirst
      BY <1>1, <1>2, <2>1, <2>5 DEF ForestInit, ParentsFirst, Keeps, NoNode
    <2> QED BY <1>2, <2>4, <2>5, <2>6, <2>7 DEF IInv, Ordering
  <1>3. CASE phase # "done"
    <2>1. /\ phase = "scan" /\ preferred \in [Nodes -> Nodes]
          /\ line = <<>> /\ popped = 0
      BY <1>3 DEF ForestInit
    <2>2. ForestTypeOK
      BY <1>1, <2>1, NodeFacts DEF ForestInit, ForestTypeOK
    <2>3. Keeps
      BY <2>1 DEF ForestInit, Keeps
    <2>4. Finished = {} /\ \A v \in Nodes : state[v] # 1
      BY DEF ForestInit, Finished
    <2>5. CutInv
      <3>1. \A v \in Nodes : ~(v < start)
        BY NodeFacts DEF ForestInit
      <3> QED BY <2>1, <2>4, <3>1 DEF ForestInit, CutInv, ParentsFinished, NoCycle
    <2>6. EveryVectorOrdered /\ ParentsFirst
      BY <2>1 DEF EveryVectorOrdered, ParentsFirst
    <2> QED BY <2>1, <2>2, <2>3, <2>4, <2>5, <2>6 DEF IInv, Ordering
  <1> QED BY <1>2, <1>3

-----------------------------------------------------------------------------
(* CutCycles *)

LEMMA SkipVisitedKeeps == ASSUME IInv, SkipVisited PROVE IInv'
  <1>1. ForestTypeOK' /\ Keeps'
    BY NodeFacts DEF IInv, SkipVisited, ForestTypeOK, Keeps
  <1>2. start \in Nodes /\ start \in Finished
    <2>1. start \in Nodes
      BY NodeFacts DEF IInv, SkipVisited, ForestTypeOK, Nodes
    <2> QED BY <2>1 DEF IInv, SkipVisited, ForestTypeOK, Finished
  <1>3. Finished' = Finished
    BY DEF SkipVisited, Finished
  <1>4. CutInv'
    <2>1. CutInv
      BY DEF IInv, SkipVisited
    <2>2. \A v \in Nodes : v < start' => v \in Finished'
      BY <1>2, <1>3, <2>1, NodeFacts DEF CutInv, SkipVisited
    <2>3. ParentsFinished' /\ NoCycle'
      BY <1>3, <2>1 DEF CutInv, SkipVisited, ParentsFinished, NoCycle
    <2> QED BY <2>1, <2>2, <2>3 DEF CutInv, SkipVisited
  <1>5. \A v \in Nodes : state'[v] # 1
    BY DEF IInv, SkipVisited
  <1>6. phase' = "scan"
    BY DEF SkipVisited
  <1> QED BY <1>1, <1>4, <1>5, <1>6, StillBuilding DEF IInv, Ordering

LEMMA StartPathKeeps == ASSUME IInv, StartPath PROVE IInv'
  <1>1. start \in Nodes
    BY NodeFacts DEF IInv, StartPath, ForestTypeOK, Nodes
  <1>2. ForestTypeOK' /\ Keeps'
    BY <1>1 DEF IInv, StartPath, ForestTypeOK, Keeps
  <1>3. CutInv'
    BY DEF IInv, StartPath, CutInv, ParentsFinished, NoCycle, Finished
  <1>4. PathInv'
    <2>1. Len(path') = 0
      BY DEF StartPath
    <2>2. \A v \in Nodes : state'[v] # 1
      BY DEF IInv, StartPath
    <2>3. \A v : ~OnPath(v)'
      BY <2>1 DEF OnPath
    <2> QED BY <1>1, <2>1, <2>2, <2>3 DEF PathInv, StartPath
  <1>5. phase' = "walk"
    BY DEF StartPath
  <1> QED BY <1>2, <1>3, <1>4, <1>5, StillBuilding DEF IInv, Ordering

LEMMA WalkKeeps == ASSUME IInv, Walk PROVE IInv'
  <1>1. ForestTypeOK /\ CutInv /\ PathInv
    BY DEF IInv, Walk
  <1>2. node \in Nodes /\ state[node] = 0
    BY <1>1 DEF Walk, Unvisited, ForestTypeOK
  <1>3. /\ path \in Seq(Nodes) /\ Len(path') = Len(path) + 1 /\ Len(path) \in Nat
        /\ \A k \in 1 .. Len(path) : path'[k] = path[k] /\ path[k] \in Nodes
        /\ path'[Len(path) + 1] = node
    BY <1>1, <1>2 DEF Walk, ForestTypeOK
  <1>4. ForestTypeOK' /\ Keeps'
    <2>1. state' \in [Nodes -> 0 .. 2]
      <3>1. 1 \in 0 .. 2 /\ state \in [Nodes -> 0 .. 2]
        BY <1>1 DEF ForestTypeOK
      <3> QED BY <3>1 DEF Walk
    <2>2. path' \in Seq(Nodes) /\ node' \in Nodes \cup {NoNode}
      BY <1>1, <1>2 DEF Walk, ForestTypeOK
    <2>3. Keeps'
      BY DEF IInv, Walk, Keeps
    <2> QED BY <1>1, <2>1, <2>2, <2>3 DEF Walk, ForestTypeOK
  <1>5. Finished' = Finished
    BY <1>1, <1>2 DEF Walk, Finished, ForestTypeOK
  <1>6. CutInv'
    BY <1>1, <1>5 DEF Walk, CutInv, ParentsFinished, NoCycle
  <1>7. PathInv'
    <2>1. ASSUME NEW v \in Nodes PROVE state'[v] = 1 <=> OnPath(v)'
      <3>1. state'[v] = 1 <=> v = node \/ state[v] = 1
        BY <1>1, <1>2 DEF Walk, ForestTypeOK
      <3>2. OnPath(v)' <=> v = node \/ OnPath(v)
        BY <1>3 DEF OnPath
      <3> QED BY <1>1, <3>1, <3>2 DEF PathInv
    <2>2. ASSUME NEW k \in 1 .. Len(path') - 1 PROVE path'[k + 1] = parent'[path'[k]]
      <3>1. CASE k = Len(path)
        BY <1>1, <1>3, <3>1 DEF PathInv, Walk
      <3>2. CASE k # Len(path)
        <4>1. k \in 1 .. Len(path) - 1 /\ k \in 1 .. Len(path) /\ k + 1 \in 1 .. Len(path)
          BY <1>3, <3>2
        <4> QED BY <1>1, <1>3, <4>1 DEF PathInv, Walk
      <3> QED BY <3>1, <3>2
    <2>3. path'[1] = start'
      BY <1>1, <1>3 DEF PathInv, Walk
    <2>4. node' = parent'[path'[Len(path')]]
      BY <1>3 DEF Walk
    <2>5. start' \in Nodes
      BY <1>1 DEF PathInv, Walk
    <2> QED BY <1>3, <2>1, <2>2, <2>3, <2>4, <2>5 DEF PathInv
  <1>8. phase' = "walk"
    BY DEF Walk
  <1> QED BY <1>4, <1>6, <1>7, <1>8, StillBuilding DEF IInv, Ordering

\* The end of a path, with a cycle or without.
PathEnds == (CutCycle \/ EndPath)

LEMMA PathVertices ==
    ASSUME IInv, phase = "walk"
    PROVE  /\ Len(path) \in Nat
           /\ \A k \in 1 .. Len(path) : path[k] \in Nodes
           /\ \A v \in Nodes : OnPath(v) => v \notin Finished
           /\ \A v \in Nodes : state[v] = 1 <=> OnPath(v)
  <1>1. ForestTypeOK /\ PathInv
    BY DEF IInv
  <1>2. Len(path) \in Nat /\ \A k \in 1 .. Len(path) : path[k] \in Nodes
    BY <1>1 DEF ForestTypeOK
  <1>3. \A v \in Nodes : OnPath(v) => v \notin Finished
    BY <1>1 DEF PathInv, Finished
  <1> QED BY <1>1, <1>2, <1>3 DEF PathInv

\* Where the walk stands when the path ends, and what FinishPath marks.
LEMMA PathEndFacts ==
    ASSUME IInv, PathEnds
    PROVE  /\ phase = "walk" /\ phase' = "scan" /\ start' = start + 1
           /\ \A v \in Nodes : v \in Finished' <=> v \in Finished \/ OnPath(v)
           /\ \A v \in Nodes : state'[v] # 1
           /\ start \in Finished'
           /\ \A k \in 1 .. Len(path) - 1 : path[k + 1] = parent[path[k]]
           /\ Len(path) > 0 => node = parent[path[Len(path)]]
           /\ EndPath => node = NoNode \/ node \in Finished
           /\ CutCycle => node \in Nodes /\ OnPath(node)
  <1>1. ForestTypeOK /\ CutInv /\ PathInv /\ phase = "walk"
    BY DEF IInv, PathEnds, CutCycle, EndPath
  <1>2. FinishPath
    BY DEF PathEnds, CutCycle, EndPath
  <1>3. \A v \in Nodes : state'[v] = IF OnPath(v) THEN 2 ELSE state[v]
    BY <1>2 DEF FinishPath
  <1>4. \A v \in Nodes : v \in Finished' <=> v \in Finished \/ OnPath(v)
    BY <1>3 DEF Finished
  <1>5. \A v \in Nodes : state'[v] # 1
    BY <1>1, <1>3 DEF PathInv
  <1>6. node \in Nodes => state[node] \in 0 .. 2
    BY <1>1 DEF ForestTypeOK
  <1>7. EndPath => node = NoNode \/ node \in Finished
    BY <1>1, <1>6 DEF EndPath, Unvisited, Closed, ForestTypeOK, Finished
  <1>8. CutCycle => node \in Nodes /\ OnPath(node)
    BY <1>1 DEF CutCycle, Closed, ForestTypeOK, PathInv
  <1>9. start \in Finished'
    <2>1. Len(path) > 0
      <3> SUFFICES ASSUME Len(path) = 0 PROVE FALSE
        BY <1>1 DEF ForestTypeOK
      <3>1. node = start /\ state[start] = 0 /\ start \in Nodes
        BY <1>1 DEF PathInv
      <3>2. ~Unvisited
        BY <1>8, NodeFacts DEF PathEnds, EndPath, CutCycle, Closed, Unvisited
      <3> QED BY <3>1, <3>2, NodeFacts DEF Unvisited
    <2>2. 1 \in 1 .. Len(path) /\ path[1] = start /\ start \in Nodes
      BY <1>1, <2>1 DEF PathInv, ForestTypeOK
    <2> QED BY <1>4, <2>2 DEF OnPath
  <1> QED BY <1>1, <1>2, <1>4, <1>5, <1>7, <1>8, <1>9 DEF PathInv, FinishPath

\* Everything a path that ends leaves behind, but for the absence of cycles.
LEMMA PathEndKeeps ==
    ASSUME IInv, PathEnds, NoCycle',
           NEW cut \in Nodes \cup {NoNode},
           cut \in Nodes => OnPath(cut),
           \A v \in Nodes : parent'[v] = IF v = cut THEN NoNode ELSE parent[v],
           parent' \in [Nodes -> Nodes \cup {NoNode}],
           cycle_cuts' \in Nat
    PROVE  IInv'
  <1>1. ForestTypeOK /\ CutInv /\ PathInv /\ phase = "walk" /\ phase' = "scan"
    BY PathEndFacts DEF IInv
  <1>2. UNCHANGED <<limit, preferred, path, node, children, line, popped, rest, depth, depth_cuts>>
    BY DEF PathEnds, CutCycle, EndPath
  <1>3. start \in Nodes /\ start' = start + 1
    BY <1>1, PathEndFacts DEF PathInv
  <1>4. state' \in [Nodes -> 0 .. 2]
    <2>1. state' = [v \in Nodes |-> IF OnPath(v) THEN 2 ELSE state[v]]
      BY DEF PathEnds, CutCycle, EndPath, FinishPath
    <2>2. 2 \in 0 .. 2 /\ state \in [Nodes -> 0 .. 2]
      BY <1>1 DEF ForestTypeOK
    <2> QED BY <2>1, <2>2
  <1>5. ForestTypeOK'
    <2>1. start' \in 0 .. N
      BY <1>3, NodeFacts
    <2> QED BY <1>1, <1>2, <1>4, <2>1 DEF ForestTypeOK
  <1>6. Keeps'
    BY <1>2 DEF IInv, Keeps
  <1>7. ParentsFinished'
    <2> SUFFICES ASSUME NEW v \in Nodes, v \in Finished', parent'[v] # NoNode
                 PROVE  parent'[v] \in Finished'
      BY DEF ParentsFinished, Finished
    <2>1. parent'[v] = parent[v] /\ parent[v] \in Nodes /\ parent[v] # NoNode
      BY <1>1 DEF ForestTypeOK
    <2>2. CASE v \in Finished
      BY <1>1, <2>1, <2>2, PathEndFacts DEF CutInv, ParentsFinished
    <2>3. CASE OnPath(v)
      <3>1. PICK k \in 1 .. Len(path) : path[k] = v
        BY <2>3 DEF OnPath
      <3>2. CASE k < Len(path)
        <4>1. k \in 1 .. Len(path) - 1 /\ k + 1 \in 1 .. Len(path)
          BY <1>1, <3>2, PathVertices
        <4>2. path[k + 1] = parent[v]
          BY <3>1, <4>1, PathEndFacts
        <4> QED BY <2>1, <4>1, <4>2, PathEndFacts DEF OnPath
      <3>3. CASE k = Len(path)
        <4>1. Len(path) > 0
          BY <1>1, <3>3, PathVertices
        <4>2. node = parent[v]
          BY <3>1, <3>3, <4>1, PathEndFacts
        <4> QED BY <2>1, <4>2, PathEndFacts DEF PathEnds
      <3> QED BY <1>1, <3>2, <3>3, PathVertices
    <2> QED BY <2>2, <2>3, PathEndFacts
  <1>8. \A v \in Nodes : v < start' => v \in Finished'
    <2> SUFFICES ASSUME NEW v \in Nodes, v < start + 1 PROVE v \in Finished'
      BY <1>3
    <2>1. v < start \/ v = start
      BY <1>3, NodeFacts
    <2> QED BY <1>1, <2>1, PathEndFacts DEF CutInv
  <1>9. CutInv'
    BY <1>1, <1>2, <1>7, <1>8 DEF CutInv
  <1> QED BY <1>1, <1>5, <1>6, <1>9, PathEndFacts, StillBuilding DEF IInv, Ordering

(* A set closed under the new parents that holds a vertex finished before
   holds a set closed under the old ones. *)
LEMMA OnlyNewVertices ==
    ASSUME IInv, PathEnds,
           \A v \in Nodes : ~OnPath(v) => parent'[v] = parent[v],
           NEW S \in SUBSET Finished', \A v \in S : parent'[v] \in S
    PROVE  \A v \in S : v \in Nodes /\ OnPath(v)
  <1> DEFINE T == S \cap Finished
  <1>1. phase = "walk" /\ CutInv
    BY PathEndFacts DEF IInv
  <1>2. \A v \in S : v \in Nodes
    BY DEF Finished
  <1>3. ASSUME NEW v \in T PROVE parent[v] \in T
    <2>1. v \in Nodes /\ parent'[v] = parent[v]
      BY <1>1, <1>2, PathVertices
    <2>2. parent[v] \in S /\ parent[v] \in Nodes
      BY <1>2, <2>1
    <2> QED BY <1>1, <2>2, NodeFacts DEF CutInv, ParentsFinished
  <1>4. T = {}
    <2>1. T \in SUBSET Finished
      OBVIOUS
    <2> QED BY <1>1, <1>3, <2>1 DEF CutInv, NoCycle
  <1> QED BY <1>2, <1>4, PathEndFacts

LEMMA EndPathKeeps == ASSUME IInv, EndPath PROVE IInv'
  <1> USE DEF PathEnds
  <1>1. parent' = parent
    BY DEF EndPath
  <1>2. NoCycle'
    <2> SUFFICES ASSUME NEW S \in SUBSET Finished', S # {},
                        \A v \in S : parent'[v] \in S
                 PROVE  FALSE
      BY DEF NoCycle
    <2>1. phase = "walk"
      BY PathEndFacts
    <2>2. \A v \in S : v \in Nodes /\ OnPath(v)
      BY <1>1, OnlyNewVertices
    <2> DEFINE K == {k \in 1 .. Len(path) : path[k] \in S}
    <2>3. K # {} /\ K \subseteq 1 .. Len(path)
      BY <2>2 DEF OnPath
    <2>4. PICK k \in K : \A j \in K : j <= k
      BY <2>1, <2>3, GreatestIndex, PathVertices
    <2>5. k \in 1 .. Len(path) /\ path[k] \in S /\ parent[path[k]] \in S /\ Len(path) \in Nat
      BY <1>1, <2>1, PathVertices
    <2>6. CASE k < Len(path)
      <3>1. k \in 1 .. Len(path) - 1 /\ k + 1 \in 1 .. Len(path)
        BY <2>5, <2>6
      <3>2. path[k + 1] \in S
        BY <2>5, <3>1, PathEndFacts
      <3>3. k + 1 \in K
        BY <3>1, <3>2
      <3> QED BY <2>4, <2>5, <3>3
    <2>7. CASE k = Len(path)
      <3>1. node \in S
        BY <2>5, <2>7, PathEndFacts
      <3>2. node \in Nodes /\ OnPath(node)
        BY <2>2, <3>1
      <3> QED BY <2>1, <3>2, PathEndFacts, PathVertices, NodeFacts
    <2> QED BY <2>5, <2>6, <2>7
  <1>3. ForestTypeOK /\ cycle_cuts' = cycle_cuts
    BY DEF IInv, EndPath
  <1>4. parent' \in [Nodes -> Nodes \cup {NoNode}] /\ cycle_cuts' \in Nat
    BY <1>1, <1>3 DEF ForestTypeOK
  <1> QED BY <1>1, <1>2, <1>4, PathEndKeeps, NodeFacts

LEMMA CutCycleKeeps == ASSUME IInv, CutCycle PROVE IInv'
  <1> USE DEF PathEnds
  <1>1. PICK cut \in Nodes : CutAt(cut) /\ parent' = [parent EXCEPT ![cut] = NoNode]
    BY DEF CutCycle
  <1>2. ForestTypeOK /\ phase = "walk" /\ Len(path) \in Nat
    BY PathVertices DEF IInv, CutCycle
  <1>3. PICK c \in 1 .. Len(path), j \in 1 .. Len(path) :
            path[c] = cut /\ j <= c /\ path[j] = node
    <2>1. cut \in Cycle
      BY <1>1 DEF CutAt
    <2>2. PICK c \in 1 .. Len(path) : path[c] = cut /\ \E i \in 1 .. c : path[i] = node
      BY <2>1 DEF Cycle
    <2>3. PICK j \in 1 .. c : path[j] = node
      BY <2>2
    <2>4. j \in 1 .. Len(path) /\ j <= c
      BY <1>2, <2>2
    <2> QED BY <2>2, <2>3, <2>4
  <1>4. \A v \in Nodes : parent'[v] = IF v = cut THEN NoNode ELSE parent[v]
    BY <1>1, <1>2 DEF ForestTypeOK
  <1>5. OnPath(cut)
    BY <1>3 DEF OnPath
  <1>6. NoCycle'
    <2> SUFFICES ASSUME NEW S \in SUBSET Finished', S # {},
                        \A v \in S : parent'[v] \in S
                 PROVE  FALSE
      BY DEF NoCycle
    <2>1. \A v \in S : v \in Nodes /\ OnPath(v)
      BY <1>4, <1>5, OnlyNewVertices
    <2>2. cut \notin S
      BY <1>4, <2>1, NodeFacts
    <2>3. \A v \in S : parent[v] \in S
      BY <1>4, <2>1, <2>2
    \* From any vertex of S the path leads to its end, and on to `node'.
    <2> DEFINE K == {k \in 1 .. Len(path) : path[k] \in S}
    <2>4. K # {} /\ K \subseteq 1 .. Len(path)
      BY <2>1 DEF OnPath
    <2>5. PICK k \in K : \A i \in K : i <= k
      BY <1>2, <2>4, GreatestIndex
    <2>6. k \in 1 .. Len(path) /\ path[k] \in S /\ parent[path[k]] \in S
      BY <2>3
    <2>7. node \in S
      <3>1. CASE k < Len(path)
        <4>1. k \in 1 .. Len(path) - 1 /\ k + 1 \in 1 .. Len(path)
          BY <1>2, <2>6, <3>1
        <4>2. k + 1 \in K
          BY <2>6, <4>1, PathEndFacts
        <4> QED BY <1>2, <2>5, <2>6, <4>2
      <3>2. CASE k = Len(path)
        BY <1>2, <2>6, <3>2, PathEndFacts
      <3> QED BY <1>2, <2>6, <3>1, <3>2
    \* From `node' it leads to the vertex that was cut.
    <2> DEFINE U == {i \in j .. Len(path) : path[i] \notin S}
    <2>8. U \subseteq Nat /\ U # {}
      <3>1. c \in U
        BY <1>2, <1>3, <2>2
      <3> QED BY <1>3, <3>1
    <2>9. PICK i \in U : \A h \in U : i <= h
      BY <2>8, NatMinimum
    <2>10. i \in j .. Len(path) /\ path[i] \notin S /\ i # j
      BY <1>3, <2>7
    <2>11. i - 1 \in j .. Len(path) /\ i - 1 \in 1 .. Len(path) - 1 /\ i - 1 \in Int
      BY <1>2, <1>3, <2>10
    <2>12. path[i - 1] \in S
      BY <1>2, <2>9, <2>10, <2>11
    <2>13. path[(i - 1) + 1] = parent[path[i - 1]]
      BY <2>11, PathEndFacts
    <2>14. (i - 1) + 1 = i
      BY <2>10
    <2> QED BY <2>3, <2>10, <2>12, <2>13, <2>14
  <1>7. parent' \in [Nodes -> Nodes \cup {NoNode}]
    BY <1>1, <1>2 DEF ForestTypeOK
  <1>8. cycle_cuts' \in Nat
    BY <1>2 DEF CutCycle, ForestTypeOK
  <1> QED BY <1>4, <1>5, <1>6, <1>7, <1>8, PathEndKeeps

-----------------------------------------------------------------------------
(* BuildDepthLimitedOrder *)

LEMMA ListChildrenKeeps == ASSUME IInv, ListChildren PROVE IInv'
  <1>1. ForestTypeOK /\ CutInv /\ phase' = "roots" /\ start = N
    BY DEF IInv, ListChildren
  <1>2. ForestTypeOK' /\ Keeps'
    <2>1. children' \in [Nodes -> SUBSET Nodes]
      BY DEF ListChildren
    <2>2. start' \in 0 .. N
      BY NodeFacts DEF ListChildren
    <2>3. Keeps'
      BY DEF IInv, ListChildren, Keeps
    <2> QED BY <1>1, <2>1, <2>2, <2>3 DEF ListChildren, ForestTypeOK
  <1>3. \A u, c \in Nodes : c \in children'[u] <=> parent[c] = u
    BY DEF ListChildren
  <1>4. \A u \in Nodes : children'[u] \subseteq Nodes
    BY <1>2 DEF ForestTypeOK
  <1>5. OneList'
    BY <1>3, <1>4 DEF OneList
  <1>6. Grounded'
    <2> SUFFICES ASSUME NEW S \in SUBSET Nodes, S # {}
                 PROVE  \E c \in S : \A u \in S : c \notin children'[u]
      BY DEF Grounded
    <2>1. S \in SUBSET Finished
      BY <1>1, NodeFacts DEF CutInv
    <2>2. PICK c \in S : parent[c] \notin S
      BY <1>1, <2>1 DEF CutInv, NoCycle
    <2> QED BY <1>3, <2>2
  <1>7. OneEach'
    BY <1>1 DEF CutInv, OneEach, ListChildren
  <1>8. RootsInv'
    <2>1. /\ popped' = 0 /\ rest' = {} /\ depth' = [v \in Nodes |-> 0]
          /\ Len(line') = 0 /\ start' = 0 /\ parent' = parent
      BY <1>1 DEF CutInv, ListChildren
    <2>2. \A v \in Nodes : ~(v < start')
      BY <2>1, NodeFacts
    <2> QED BY <1>3, <2>1, <2>2 DEF RootsInv
  <1> QED BY <1>1, <1>2, <1>5, <1>6, <1>7, <1>8, StillBuilding DEF IInv, Ordering

\* The line and one more vertex at its end.
LEMMA AppendFacts ==
    ASSUME line \in Seq(Nodes), NEW c \in Nodes, line' = Append(line, c)
    PROVE  /\ line' \in Seq(Nodes) /\ Len(line) \in Nat /\ Len(line') = Len(line) + 1
           /\ \A k \in 1 .. Len(line) : line'[k] = line[k] /\ line[k] \in Nodes
           /\ line'[Len(line) + 1] = c
           /\ \A k \in 1 .. Len(line') : k \in 1 .. Len(line) \/ k = Len(line) + 1
           /\ \A v : InLine(v)' <=> InLine(v) \/ v = c
           /\ OneEach /\ ~InLine(c) => OneEach'
           /\ \A u, v : Before(u, v) => Before(u, v)'
  <1>1. /\ line' \in Seq(Nodes) /\ Len(line) \in Nat /\ Len(line') = Len(line) + 1
        /\ \A k \in 1 .. Len(line) : line'[k] = line[k] /\ line[k] \in Nodes
        /\ line'[Len(line) + 1] = c
    OBVIOUS
  <1>2. \A k \in 1 .. Len(line') : k \in 1 .. Len(line) \/ k = Len(line) + 1
    BY <1>1
  <1>3. ASSUME NEW v PROVE InLine(v)' <=> InLine(v) \/ v = c
    BY <1>1, <1>2 DEF InLine
  <1>4. OneEach /\ ~InLine(c) => OneEach'
    BY <1>1, <1>2 DEF OneEach, InLine
  <1>5. ASSUME NEW u, NEW v, Before(u, v) PROVE Before(u, v)'
    <2>1. PICK j, k \in 1 .. Len(line) : j < k /\ line[j] = u /\ line[k] = v
      BY <1>5 DEF Before
    <2>2. j \in 1 .. Len(line') /\ k \in 1 .. Len(line')
      BY <1>1
    <2> QED BY <1>1, <2>1, <2>2 DEF Before
  <1> QED BY <1>1, <1>2, <1>3, <1>4, <1>5

LEMMA QueueRootKeeps == ASSUME IInv, QueueRoot PROVE IInv'
  <1>1. /\ ForestTypeOK /\ RootsInv /\ OneList /\ Grounded /\ OneEach
        /\ phase = "roots" /\ phase' = "roots"
    BY DEF IInv, QueueRoot, Ordering
  <1>2. start \in Nodes /\ start' = start + 1 /\ line \in Seq(Nodes)
    BY <1>1, NodeFacts DEF QueueRoot, ForestTypeOK, Nodes
  <1>3. ~InLine(start)
    BY <1>1, <1>2, NodeFacts DEF RootsInv, InLine
  <1>4. /\ line' \in Seq(Nodes) /\ Len(line') \in Nat
        /\ OneEach'
        /\ \A v : InLine(v)' <=> InLine(v) \/ (v = start /\ parent[start] = NoNode)
    <2>1. CASE parent[start] = NoNode
      <3>1. line' = Append(line, start)
        BY <2>1 DEF QueueRoot
      <3> QED BY <1>1, <1>2, <1>3, <2>1, <3>1, AppendFacts
    <2>2. CASE parent[start] # NoNode
      BY <1>1, <1>2, <2>2 DEF QueueRoot, InLine, OneEach
    <2> QED BY <2>1, <2>2
  <1>5. ForestTypeOK' /\ Keeps'
    <2>1. start' \in 0 .. N
      BY <1>2, NodeFacts
    <2>2. popped' \in 0 .. Len(line')
      BY <1>1, <1>4 DEF RootsInv, QueueRoot
    <2>3. Keeps'
      BY DEF IInv, QueueRoot, Keeps
    <2> QED BY <1>1, <1>4, <2>1, <2>2, <2>3 DEF QueueRoot, ForestTypeOK
  <1>6. OneList' /\ Grounded'
    BY <1>1 DEF QueueRoot, OneList, Grounded
  <1>7. RootsInv'
    <2>1. ASSUME NEW v \in Nodes, InLine(v)' PROVE v < start' /\ parent'[v] = NoNode
      <3>1. CASE InLine(v)
        <4>1. v < start /\ parent[v] = NoNode
          BY <1>1, <3>1 DEF RootsInv, InLine
        <4> QED BY <1>2, <4>1, NodeFacts DEF QueueRoot
      <3>2. CASE v = start /\ parent[start] = NoNode
        BY <1>2, <3>2, NodeFacts DEF QueueRoot
      <3> QED BY <1>4, <2>1, <3>1, <3>2
    <2>2. ASSUME NEW v \in Nodes, v < start', parent'[v] = NoNode PROVE InLine(v)'
      <3>1. v < start \/ v = start
        BY <1>2, <2>2, NodeFacts
      <3>2. parent[v] = NoNode
        BY <2>2 DEF QueueRoot
      <3> QED BY <1>1, <1>4, <3>1, <3>2 DEF RootsInv
    <2>3. \A i \in 1 .. Len(line') : line'[i] \in Nodes /\ InLine(line[i])'
      BY <1>4 DEF InLine
    <2>4. \A i \in 1 .. Len(line') : line'[i] < start' /\ parent'[line'[i]] = NoNode
      BY <2>1, <2>3
    <2> QED BY <1>1, <2>2, <2>4 DEF QueueRoot, RootsInv
  <1> QED BY <1>1, <1>4, <1>5, <1>6, <1>7, StillBuilding DEF IInv, Ordering

LEMMA StartOrderKeeps == ASSUME IInv, StartOrder PROVE IInv'
  <1>1. /\ ForestTypeOK /\ RootsInv /\ OneList /\ Grounded /\ OneEach
        /\ start = N /\ phase' = "order"
    BY DEF IInv, StartOrder, Ordering
  <1>2. ForestTypeOK' /\ Keeps'
    BY DEF IInv, StartOrder, ForestTypeOK, Keeps
  <1>3. OneList' /\ Grounded' /\ OneEach'
    BY <1>1 DEF StartOrder, OneList, Grounded, OneEach
  <1>4. \A v \in Nodes : InLine(v) <=> parent[v] = NoNode
    <2>1. \A v \in Nodes : parent[v] = NoNode => InLine(v)
      BY <1>1, NodeFacts DEF RootsInv
    <2>2. \A v \in Nodes : InLine(v) => parent[v] = NoNode
      BY <1>1 DEF RootsInv, InLine
    <2> QED BY <2>1, <2>2
  <1>5. OrderInv
    <2>1. \A u, c \in Nodes : c \in children[u] <=> parent[c] = u
      BY <1>1 DEF RootsInv
    <2>2. \A c \in Nodes : parent[c] = NoNode \/ parent[c] \in Nodes
      BY <1>1 DEF ForestTypeOK
    <2>3. \A c \in Nodes : InLine(c) \/ \E u \in Nodes : c \in children[u]
      BY <1>4, <2>1, <2>2
    <2>4. \A u \in Nodes : children[u] \subseteq Nodes
      BY <1>1 DEF ForestTypeOK
    <2>5. ASSUME NEW u \in Nodes, NEW c \in children[u] PROVE ~InLine(c) /\ parent[c] = u
      <3>1. c \in Nodes /\ parent[c] = u
        BY <2>1, <2>4
      <3> QED BY <1>4, <3>1, NodeFacts
    <2>6. \A u : ~Popped(u)
      BY <1>1 DEF RootsInv, Popped
    <2>7. \A v \in Nodes : InLine(v) => Placed(v)
      <3>1. \A v \in Nodes : depth[v] = 0
        BY <1>1 DEF RootsInv
      <3>2. limit >= 0
        BY <1>1 DEF ForestTypeOK
      <3> QED BY <1>4, <3>1, <3>2 DEF Placed
    <2> QED BY <1>1, <2>3, <2>5, <2>6, <2>7 DEF RootsInv, OrderInv
  <1>6. OrderInv'
    BY <1>5 DEF StartOrder, OrderInv, InLine, Popped, Placed, Before
  <1> QED BY <1>1, <1>2, <1>3, <1>6, StillBuilding DEF IInv, Ordering

LEMMA PopKeeps == ASSUME IInv, Pop PROVE IInv'
  <1> DEFINE u == line[popped + 1]
  <1>1. /\ ForestTypeOK /\ OrderInv /\ OneList /\ Grounded /\ OneEach
        /\ phase' = "order" /\ rest = {} /\ popped' = popped + 1 /\ rest' = children[u]
        /\ UNCHANGED <<phase, limit, preferred, parent, state, path, node, start, cycle_cuts,
                       children, line, depth, depth_cuts>>
    BY DEF IInv, Pop, Ordering
  <1>2. popped \in Nat /\ Len(line) \in Nat /\ popped + 1 \in 1 .. Len(line) /\ u \in Nodes
    BY <1>1 DEF ForestTypeOK, Pop
  <1>3. ForestTypeOK' /\ Keeps'
    <2>1. popped' \in 0 .. Len(line') /\ rest' \in SUBSET Nodes
      BY <1>1, <1>2 DEF ForestTypeOK
    <2>2. Keeps'
      BY <1>1 DEF IInv, Keeps
    <2> QED BY <1>1, <2>1, <2>2 DEF ForestTypeOK
  <1>4. OneList' /\ Grounded' /\ OneEach'
    BY <1>1 DEF OneList, Grounded, OneEach
  <1>5. ~Popped(u)
    BY <1>1, <1>2 DEF OneEach, Popped
  <1>6. ASSUME NEW v PROVE Popped(v)' <=> Popped(v) \/ v = u
    <2>1. \A k \in Int : k \in 1 .. popped' <=> k \in 1 .. popped \/ k = popped + 1
      BY <1>1, <1>2
    <2> QED BY <1>1, <1>2, <2>1 DEF Popped
  <1>7. \A v : InLine(v)' <=> InLine(v)
    BY <1>1 DEF InLine
  <1>8. OrderInv'
    <2>1. ASSUME NEW v \in Nodes, NEW c \in children[v]
          PROVE  InLine(c) <=> Popped(v)' /\ c \notin rest'
      <3>1. InLine(c) <=> Popped(v)
        BY <1>1 DEF OrderInv
      <3>2. CASE v = u
        BY <1>1, <1>5, <3>1, <3>2
      <3>3. CASE v # u
        BY <1>1, <1>2, <1>6, <3>1, <3>3 DEF OneList
      <3> QED BY <3>2, <3>3
    <2>2. rest' # {} => popped' > 0 /\ rest' \subseteq children'[line'[popped']]
      BY <1>1, <1>2
    <2>3. \A v \in Nodes : InLine(v)' => Placed(v)'
      BY <1>1, <1>7 DEF OrderInv, Placed, Before
    <2>4. \A c \in Nodes : InLine(c)' \/ \E v \in Nodes : c \in children'[v]
      BY <1>1, <1>7 DEF OrderInv
    <2>5. \A v \in Nodes : \A c \in children'[v] : ~InLine(c)' => parent'[c] = v
      BY <1>1, <1>7 DEF OrderInv
    <2>6. \A v \in Nodes : \A c \in children'[v] : InLine(c)' <=> Popped(v)' /\ c \notin rest'
      BY <1>1, <1>7, <2>1
    <2> QED BY <2>2, <2>3, <2>4, <2>5, <2>6 DEF OrderInv
  <1> QED BY <1>1, <1>3, <1>4, <1>8, StillBuilding DEF IInv, Ordering

LEMMA QueueChildKeeps == ASSUME IInv, QueueChild PROVE IInv'
  <1>0. PICK u : u = line[popped]
    OBVIOUS
  <1> DEFINE d == depth[u] + 1
  <1>1. /\ ForestTypeOK /\ OrderInv /\ OneList /\ Grounded /\ OneEach /\ Keeps
        /\ phase' = "order"
        /\ UNCHANGED <<limit, preferred, state, path, node, start, cycle_cuts, children, popped>>
    BY DEF IInv, QueueChild, Ordering
  <1>2. PICK c \in rest :
          /\ rest' = rest \ {c}
          /\ line' = Append(line, c)
          /\ \/ /\ d > limit
                /\ parent' = [parent EXCEPT ![c] = NoNode]
                /\ depth' = [depth EXCEPT ![c] = 0]
                /\ depth_cuts' = depth_cuts + 1
             \/ /\ ~(d > limit)
                /\ depth' = [depth EXCEPT ![c] = d]
                /\ UNCHANGED <<parent, depth_cuts>>
    BY <1>0 DEF QueueChild, TooDeep
  <1>3. /\ popped \in 1 .. Len(line) /\ Len(line) \in Nat
        /\ u \in Nodes /\ c \in Nodes /\ c \in children[u]
        /\ limit \in Nat /\ depth[u] \in Nat
    <2>1. popped > 0 /\ c \in children[u]
      BY <1>0, <1>1 DEF OrderInv
    <2>2. popped \in 1 .. Len(line) /\ Len(line) \in Nat
      BY <1>1, <2>1 DEF ForestTypeOK
    <2>3. u \in Nodes
      BY <1>0, <1>1, <2>2 DEF ForestTypeOK
    <2> QED BY <1>1, <2>1, <2>2, <2>3 DEF ForestTypeOK
  <1>4. ~InLine(c) /\ parent[c] = u /\ InLine(u) /\ Popped(u)
    <2>1. ~InLine(c) /\ parent[c] = u
      BY <1>1, <1>3 DEF OrderInv
    <2> QED BY <1>0, <1>3, <2>1 DEF InLine, Popped
  <1>5. line \in Seq(Nodes)
    BY <1>1 DEF ForestTypeOK
  <1>6. /\ line' \in Seq(Nodes) /\ Len(line') = Len(line) + 1
        /\ \A i \in 1 .. Len(line) : line'[i] = line[i]
        /\ line'[Len(line) + 1] = c
        /\ \A v : InLine(v)' <=> InLine(v) \/ v = c
        /\ OneEach'
        /\ \A v, w : Before(v, w) => Before(v, w)'
    BY <1>1, <1>2, <1>3, <1>4, <1>5, AppendFacts
  <1>7. \A v \in Nodes : v # c => parent'[v] = parent[v] /\ depth'[v] = depth[v]
    BY <1>1, <1>2 DEF ForestTypeOK
  <1>8. \/ d > limit /\ parent'[c] = NoNode /\ depth'[c] = 0
        \/ d <= limit /\ parent'[c] = u /\ depth'[c] = d
    BY <1>1, <1>2, <1>3, <1>4 DEF ForestTypeOK
  <1>9. ForestTypeOK'
    <2>1. popped' \in 0 .. Len(line')
      BY <1>1, <1>3, <1>6
    <2>2. parent' \in [Nodes -> Nodes \cup {NoNode}]
      BY <1>1, <1>2 DEF ForestTypeOK
    <2>3. depth' \in [Nodes -> Nat]
      <3>1. d \in Nat /\ 0 \in Nat /\ depth \in [Nodes -> Nat]
        BY <1>1, <1>3 DEF ForestTypeOK
      <3> QED BY <1>2, <3>1
    <2>4. depth_cuts' \in Nat /\ rest' \in SUBSET Nodes
      BY <1>1, <1>2 DEF ForestTypeOK
    <2> QED BY <1>1, <1>6, <2>1, <2>2, <2>3, <2>4 DEF ForestTypeOK
  <1>10. Keeps'
    <2> SUFFICES ASSUME NEW v \in Nodes PROVE parent'[v] \in {preferred[v], NoNode}
      BY <1>1 DEF Keeps
    <2>1. parent[v] \in {preferred[v], NoNode}
      BY <1>1 DEF Keeps
    <2> QED BY <1>4, <1>7, <1>8, <2>1
  <1>11. OneList' /\ Grounded'
    BY <1>1 DEF OneList, Grounded
  <1>12. \A v : Popped(v)' <=> Popped(v)
    <2>1. \A k \in 1 .. popped : k \in 1 .. Len(line)
      BY <1>3
    <2> QED BY <1>1, <1>6, <2>1 DEF Popped
  <1>13. OrderInv'
    <2>1. ASSUME NEW v \in Nodes, NEW b \in children[v]
          PROVE  InLine(b)' <=> Popped(v)' /\ b \notin rest'
      <3>1. InLine(b) <=> Popped(v) /\ b \notin rest
        BY <1>1 DEF OrderInv
      <3>2. CASE b = c
        <4>1. v = u
          BY <1>1, <1>3, <3>2 DEF OneList
        <4> QED BY <1>2, <1>4, <1>6, <1>12, <3>2, <4>1
      <3>3. CASE b # c
        BY <1>2, <1>6, <1>12, <3>1, <3>3
      <3> QED BY <3>2, <3>3
    <2>2. rest' # {} => popped' > 0 /\ rest' \subseteq children'[line'[popped']]
      <3>1. line'[popped'] = u
        BY <1>0, <1>1, <1>3, <1>6
      <3>2. rest \subseteq children[u] /\ popped > 0
        BY <1>0, <1>1, <1>2 DEF OrderInv
      <3> QED BY <1>1, <1>2, <3>1, <3>2
    <2>3. ASSUME NEW v \in Nodes, InLine(v)' PROVE Placed(v)'
      <3>1. CASE v = c
        <4>1. Before(u, c)'
          <5>1. popped \in 1 .. Len(line') /\ Len(line) + 1 \in 1 .. Len(line')
                /\ popped < Len(line) + 1 /\ line'[popped] = u
            BY <1>0, <1>3, <1>6
          <5> QED BY <1>6, <5>1 DEF Before
        <4>2. depth'[u] = depth[u]
          BY <1>3, <1>4, <1>7
        <4> QED BY <1>1, <1>3, <1>8, <3>1, <4>1, <4>2, NodeFacts DEF Placed
      <3>2. CASE v # c
        <4>1. InLine(v) /\ Placed(v)
          BY <1>1, <1>6, <2>3, <3>2 DEF OrderInv
        <4>2. parent'[v] = parent[v] /\ depth'[v] = depth[v] /\ limit' = limit
          BY <1>1, <1>7, <3>2
        <4>3. CASE parent[v] = NoNode
          BY <4>1, <4>2, <4>3 DEF Placed
        <4>4. CASE parent[v] # NoNode
          <5>1. Before(parent[v], v) /\ depth[v] = depth[parent[v]] + 1 /\ parent[v] \in Nodes
            BY <1>1, <4>1, <4>4 DEF Placed, ForestTypeOK
          <5>2. InLine(parent[v])
            BY <5>1 DEF Before, InLine
          <5>3. depth'[parent[v]] = depth[parent[v]]
            BY <1>4, <1>7, <5>1, <5>2
          <5>4. Before(parent[v], v)'
            <6>1. \A w : w = parent[v] => Before(w, v)'
              BY <1>6, <5>1
            <6> QED BY <4>2, <6>1 DEF Before
          <5> QED BY <4>1, <4>2, <4>4, <5>1, <5>3, <5>4 DEF Placed
        <4> QED BY <4>3, <4>4
      <3> QED BY <3>1, <3>2
    <2>4. \A b \in Nodes : InLine(b)' \/ \E v \in Nodes : b \in children'[v]
      BY <1>1, <1>6 DEF OrderInv
    <2>5. ASSUME NEW v \in Nodes, NEW b \in children[v], ~InLine(b)'
          PROVE  parent'[b] = v
      <3>1. b \in Nodes /\ b # c /\ ~InLine(b)
        BY <1>1, <1>6, <2>5 DEF ForestTypeOK
      <3> QED BY <1>1, <1>7, <3>1 DEF OrderInv
    <2>6. \A v \in Nodes : \A b \in children'[v] : ~InLine(b)' => parent'[b] = v
      BY <1>1, <2>5
    <2>7. \A v \in Nodes : \A b \in children'[v] : InLine(b)' <=> Popped(v)' /\ b \notin rest'
      BY <1>1, <2>1
    <2>8. \A v \in Nodes : InLine(v)' => Placed(v)'
      BY <2>3
    <2> QED BY <2>2, <2>4, <2>6, <2>7, <2>8 DEF OrderInv
  <1> QED BY <1>1, <1>6, <1>9, <1>10, <1>11, <1>13, StillBuilding DEF IInv, Ordering

\* When every vertex in the line has been popped, every vertex is in the line.
LEMMA Complete ==
    ASSUME IInv, phase = "order", rest = {}, popped = Len(line)
    PROVE  /\ \A v \in Nodes : InLine(v)
           /\ Len(line) = N
  <1>1. ForestTypeOK /\ OrderInv /\ Grounded /\ OneEach
    BY DEF IInv, Ordering
  <1>2. \A v : Popped(v) <=> InLine(v)
    BY DEF Popped, InLine
  <1> DEFINE S == {v \in Nodes : ~InLine(v)}
  <1>3. S = {}
    <2> SUFFICES ASSUME S # {} PROVE FALSE
      OBVIOUS
    <2>1. PICK c \in S : \A u \in S : c \notin children[u]
      BY <1>1 DEF Grounded
    <2>2. c \in Nodes /\ ~InLine(c)
      OBVIOUS
    <2>3. PICK u \in Nodes : c \in children[u]
      BY <1>1, <2>2 DEF OrderInv
    <2>4. InLine(u)
      BY <2>1, <2>3
    <2> QED BY <1>1, <1>2, <2>2, <2>3, <2>4 DEF OrderInv
  <1>4. \A v \in Nodes : InLine(v)
    BY <1>3
  <1>5. line \in [1 .. Len(line) -> Nodes] /\ Len(line) \in Nat
    BY <1>1 DEF ForestTypeOK
  <1>6. line \in Bijection(1 .. Len(line), Nodes)
    <2>1. line \in Injection(1 .. Len(line), Nodes)
      BY <1>1, <1>5 DEF OneEach, Injection, IsInjective
    <2>2. line \in Surjection(1 .. Len(line), Nodes)
      BY <1>4, <1>5 DEF Surjection, InLine
    <2> QED BY <2>1, <2>2 DEF Bijection
  <1>7. IsFiniteSet(1 .. Len(line)) /\ Cardinality(1 .. Len(line)) = Len(line)
    <2>1. PICK n \in Nat : n = Len(line)
      BY <1>5
    <2>2. IsFiniteSet(1 .. n) /\ Cardinality(1 .. n) = n
      BY FS_Interval
    <2> QED BY <2>1, <2>2
  <1>8. Cardinality(Nodes) = Len(line)
    BY <1>6, <1>7, FS_Bijection DEF ExistsBijection
  <1>9. Cardinality(Nodes) = N
    BY NodeFacts, FS_Interval DEF Nodes
  <1> QED BY <1>4, <1>8, <1>9

LEMMA EndOrderKeeps == ASSUME IInv, EndOrder PROVE IInv'
  <1>1. /\ phase = "order" /\ rest = {} /\ popped = Len(line)
        /\ UNCHANGED <<limit, preferred, parent, state, path, node, start, cycle_cuts,
                       children, line, popped, rest, depth, depth_cuts>>
    BY DEF EndOrder
  <1>2. /\ \A v \in Nodes : InLine(v)
        /\ Len(line) = N
        /\ phase' = "done"
    BY <1>1, Complete DEF EndOrder
  <1>3. ForestTypeOK' /\ Keeps'
    BY <1>1, <1>2 DEF IInv, ForestTypeOK, Keeps
  <1>4. EveryVectorOrdered'
    BY <1>1, <1>2 DEF EveryVectorOrdered, InLine
  <1>5. ParentsFirst'
    <2>1. \A v \in Nodes : Placed(v) /\ parent[v] \in {preferred[v], NoNode}
      BY <1>1, <1>2 DEF IInv, OrderInv, Keeps
    <2> QED BY <1>1, <2>1 DEF ParentsFirst, Placed, Before
  <1> QED BY <1>2, <1>3, <1>4, <1>5 DEF IInv, Ordering

LEMMA StutterKeeps == ASSUME IInv, UNCHANGED forest PROVE IInv'
  <1>1. ForestTypeOK' /\ Keeps' /\ EveryVectorOrdered' /\ ParentsFirst'
    BY DEF IInv, forest, ForestTypeOK, Keeps, EveryVectorOrdered, ParentsFirst, Before
  <1>2. phase \in {"scan", "walk"} => CutInv'
    BY DEF IInv, forest, CutInv, ParentsFinished, NoCycle, Finished
  <1>3. phase = "walk" => PathInv'
    BY DEF IInv, forest, PathInv, OnPath
  <1>4. Ordering => OneList' /\ Grounded' /\ OneEach'
    BY DEF IInv, forest, OneList, Grounded, OneEach
  <1>5. phase = "roots" => RootsInv'
    BY DEF IInv, forest, RootsInv, InLine
  <1>6. phase = "order" => OrderInv'
    BY DEF IInv, forest, OrderInv, InLine, Popped, Placed, Before
  <1>7. phase' = phase /\ state' = state
    BY DEF forest
  <1> QED BY <1>1, <1>2, <1>3, <1>4, <1>5, <1>6, <1>7 DEF IInv, Ordering

-----------------------------------------------------------------------------
(* IInv is inductive: it holds at the start and every step keeps it. *)
LEMMA ForestSteps ==
    ASSUME IInv, [ForestNext]_forest
    PROVE  IInv'
  BY SkipVisitedKeeps, StartPathKeeps, WalkKeeps, CutCycleKeeps, EndPathKeeps,
     ListChildrenKeeps, QueueRootKeeps, StartOrderKeeps, PopKeeps, QueueChildKeeps,
     EndOrderKeeps, StutterKeeps
     DEF ForestNext

LEMMA Inductive == ForestSpec => []IInv
  <1>1. ForestInit => IInv
    BY InitHolds
  <1>2. IInv /\ [ForestNext]_forest => IInv'
    BY ForestSteps
  <1> QED BY <1>1, <1>2, PTL DEF ForestSpec

(* Types: the variables of BuildReferenceForest keep their ranges. *)
THEOREM ForestTypesHold == ForestSpec => []ForestTypeOK
  <1>1. IInv => ForestTypeOK
    BY DEF IInv
  <1> QED BY <1>1, Inductive, PTL

(* CutCycles leaves no cycle, whatever the preferences: the order
   BuildReferenceForest returns holds every vector of the cluster once, and its
   "internal forest ordering failure" cannot be thrown. *)
THEOREM OrderIsComplete == ForestSpec => []EveryVectorOrdered
  <1>1. IInv => EveryVectorOrdered
    BY DEF IInv
  <1> QED BY <1>1, Inductive, PTL

(* The forest BuildReferenceForest returns: references come before the vectors
   that use them, depths count the edges to the root and stay within the limit,
   and no vector has a reference the policy did not choose. *)
THEOREM ReferencesComeFirst == ForestSpec => []ParentsFirst
  <1>1. IInv => ParentsFirst
    BY DEF IInv
  <1> QED BY <1>1, Inductive, PTL

-----------------------------------------------------------------------------
(***************************************************************************)
(* CyclesLoseOneEdge.  The finished vertices are closed under `preferred', *)
(* so a cycle is finished as a whole: a path that came back to itself      *)
(* finishes one cycle, the part from the vertex it met again, and any      *)
(* other path finishes none.  In BuildDepthLimitedOrder a vertex that has  *)
(* entered the line keeps its depth, so that of the reference a late one   *)
(* gave up is still the limit when the order is done.                      *)
(***************************************************************************)
FinishedCycles == {C \in Cycles : C \subseteq Finished}

CuttingInv ==
    /\ \A v \in Nodes \ Finished : parent[v] = preferred[v]
    /\ \A v \in Finished : preferred[v] \in Finished
    /\ \A v \in Finished : parent[v] = NoNode <=> \E C \in FinishedCycles : v = Smallest(C)
    /\ cycle_cuts = Cardinality(FinishedCycles)
    /\ depth_cuts = 0

CycleCutsInv ==
    /\ \A v \in Cut : parent[v] = NoNode
    /\ cycle_cuts = Cardinality(Cycles)

ListedInv ==
    /\ Late = {}
    /\ depth_cuts = 0

LateInv ==
    /\ \A v \in Late : InLine(preferred[v]) /\ depth[preferred[v]] = limit
    /\ depth_cuts = Cardinality(Late)

JInv ==
    /\ phase # "done" => preferred \in [Nodes -> Nodes]
    /\ phase \in {"scan", "walk"} => CuttingInv
    /\ Ordering => CycleCutsInv
    /\ phase = "roots" => ListedInv
    /\ phase = "order" => LateInv
    /\ CyclesLoseOneEdge

LEMMA SmallestIs ==
    ASSUME NEW C \in SUBSET Nodes, C # {}
    PROVE  /\ Smallest(C) \in C
           /\ \A u \in C : Smallest(C) <= u
  <1>1. PICK x \in C : \A y \in C : x <= y
    BY NodeFacts, NatMinimum
  <1> QED BY <1>1 DEF Smallest

LEMMA FiniteCycles ==
    /\ IsFiniteSet(Nodes) /\ IsFiniteSet(Cycles)
    /\ \A C \in Cycles : C \in SUBSET Nodes /\ Leads(C)
    /\ \A C \in Cycles : \A D \in SUBSET C : Leads(D) => D = C
  <1>1. IsFiniteSet(Nodes)
    BY NodeFacts, FS_Interval DEF Nodes
  <1>2. IsFiniteSet(SUBSET Nodes)
    BY <1>1, FS_SUBSET
  <1>3. Cycles \subseteq SUBSET Nodes
    BY DEF Cycles
  <1>4. IsFiniteSet(Cycles)
    BY <1>2, <1>3, FS_Subset
  <1> QED BY <1>1, <1>4 DEF Cycles

\* Two cycles that meet are one.
LEMMA CyclesApart ==
    ASSUME NEW C \in Cycles, NEW D \in Cycles, C \cap D # {}
    PROVE  C = D
  <1>1. Leads(C) /\ Leads(D)
    BY FiniteCycles
  <1>2. Leads(C \cap D)
    BY <1>1 DEF Leads
  <1>3. C \cap D \in SUBSET C /\ C \cap D \in SUBSET D
    OBVIOUS
  <1>4. C \cap D = C
    BY <1>2, <1>3, FiniteCycles
  <1>5. C \cap D = D
    BY <1>2, <1>3, FiniteCycles
  <1> QED BY <1>4, <1>5

-----------------------------------------------------------------------------
(* CutCycles: a path that ends *)

\* A set closed under `preferred' leads along the path to where the walk stands.
LEMMA PathLeadsOut ==
    ASSUME IInv, JInv, PathEnds,
           NEW S \in SUBSET Nodes, Leads(S),
           NEW v \in S, OnPath(v)
    PROVE  node \in S
  <1>1. phase = "walk" /\ CuttingInv
    BY PathEndFacts DEF JInv
  <1>2. Len(path) \in Nat /\ \A k \in 1 .. Len(path) : path[k] \in Nodes
    BY <1>1, PathVertices
  <1> DEFINE K == {k \in 1 .. Len(path) : path[k] \in S}
  <1>3. K # {} /\ K \subseteq 1 .. Len(path)
    BY DEF OnPath
  <1>4. PICK k \in K : \A i \in K : i <= k
    BY <1>2, <1>3, GreatestIndex
  <1>5. k \in 1 .. Len(path) /\ path[k] \in S
    OBVIOUS
  <1>6. preferred[path[k]] \in S
    BY <1>5 DEF Leads
  <1>7. parent[path[k]] \in S
    <2>1. OnPath(path[k])
      BY <1>5 DEF OnPath
    <2>2. path[k] \in Nodes \ Finished
      BY <1>1, <1>2, <1>5, <2>1, PathVertices
    <2> QED BY <1>1, <1>6, <2>2 DEF CuttingInv
  <1>8. CASE k < Len(path)
    <2>1. k \in 1 .. Len(path) - 1 /\ k + 1 \in 1 .. Len(path) /\ ~(k + 1 <= k)
      BY <1>2, <1>5, <1>8
    <2>2. path[k + 1] \in S
      BY <1>7, <2>1, PathEndFacts
    <2>3. k + 1 \in K
      BY <2>1, <2>2
    <2> QED BY <1>4, <2>1, <2>3
  <1>9. CASE k = Len(path)
    <2>1. Len(path) > 0
      BY <1>5, <1>9
    <2>2. node = parent[path[Len(path)]]
      BY <2>1, PathEndFacts
    <2> QED BY <1>7, <1>9, <2>2
  <1> QED BY <1>2, <1>5, <1>8, <1>9

\* A cycle the end of the path finishes lies on the path and goes through `node'.
LEMMA NewCycle ==
    ASSUME IInv, JInv, PathEnds,
           NEW C \in Cycles, C \subseteq Finished', ~(C \subseteq Finished)
    PROVE  /\ C \cap Finished = {}
           /\ \A v \in C : OnPath(v)
           /\ node \in C
  <1>1. phase = "walk" /\ CuttingInv
    BY PathEndFacts DEF JInv
  <1>2. C \in SUBSET Nodes /\ Leads(C)
    BY FiniteCycles
  <1>3. C \cap Finished = {}
    <2> SUFFICES ASSUME C \cap Finished # {} PROVE FALSE
      OBVIOUS
    <2>1. Leads(C \cap Finished)
      BY <1>1, <1>2 DEF Leads, CuttingInv
    <2>2. C \cap Finished = C
      BY <2>1, FiniteCycles
    <2> QED BY <2>2
  <1>4. \A v \in C : OnPath(v)
    BY <1>2, <1>3, PathEndFacts
  <1>5. PICK v \in C : TRUE
    BY <1>2 DEF Leads
  <1> QED BY <1>2, <1>3, <1>4, <1>5, PathLeadsOut

\* The part of the path from `node' on is a cycle.
LEMMA CycleIsOne ==
    ASSUME IInv, JInv, CutCycle
    PROVE  Cycle \in Cycles /\ node \in Cycle /\ \A v \in Cycle : OnPath(v)
  <1> USE DEF PathEnds
  <1>1. phase = "walk" /\ CuttingInv /\ node \in Nodes /\ OnPath(node)
    BY PathEndFacts DEF JInv
  <1>2. Len(path) \in Nat /\ \A k \in 1 .. Len(path) : path[k] \in Nodes
    BY <1>1, PathVertices
  <1>3. Cycle \in SUBSET Nodes
    BY <1>2 DEF Cycle
  <1>4. \A v \in Cycle : OnPath(v)
    BY DEF Cycle, OnPath
  <1>5. node \in Cycle
    <2>1. PICK j \in 1 .. Len(path) : path[j] = node
      BY <1>1 DEF OnPath
    <2>2. j \in 1 .. j
      BY <1>2, <2>1
    <2> QED BY <2>1, <2>2 DEF Cycle
  <1>6. ASSUME NEW v \in Cycle PROVE preferred[v] \in Cycle
    <2>1. PICK k \in 1 .. Len(path) : path[k] = v /\ \E j \in 1 .. k : path[j] = node
      BY DEF Cycle
    <2>2. PICK j \in 1 .. k : path[j] = node
      BY <2>1
    <2>3. parent[v] = preferred[v]
      <3>1. v \in Nodes \ Finished
        BY <1>1, <1>3, <1>4, PathVertices
      <3> QED BY <1>1, <3>1 DEF CuttingInv
    <2>4. CASE k < Len(path)
      <3>1. k \in 1 .. Len(path) - 1 /\ k + 1 \in 1 .. Len(path) /\ j \in 1 .. k + 1
        BY <1>2, <2>1, <2>2, <2>4
      <3>2. path[k + 1] = preferred[v]
        BY <2>1, <2>3, <3>1, PathEndFacts
      <3> QED BY <2>2, <3>1, <3>2 DEF Cycle
    <2>5. CASE k = Len(path)
      <3>1. Len(path) > 0
        BY <2>1, <2>5
      <3>2. node = preferred[v]
        BY <2>1, <2>3, <2>5, <3>1, PathEndFacts
      <3> QED BY <1>5, <3>2
    <2> QED BY <1>2, <2>1, <2>4, <2>5
  <1>7. ASSUME NEW D \in SUBSET Cycle, Leads(D) PROVE D = Cycle
    <2>1. D # {} /\ D \in SUBSET Nodes /\ \A v \in D : preferred[v] \in D
      BY <1>3, <1>7 DEF Leads
    <2>2. PICK v \in D : TRUE
      BY <2>1
    <2>3. node \in D
      BY <1>4, <1>7, <2>1, <2>2, PathLeadsOut
    <2>4. ASSUME NEW u \in Cycle, u \notin D PROVE FALSE
      <3>1. PICK k \in 1 .. Len(path) : path[k] = u /\ \E j \in 1 .. k : path[j] = node
        BY DEF Cycle
      <3>2. PICK j \in 1 .. k : path[j] = node
        BY <3>1
      <3> DEFINE U == {i \in j .. Len(path) : path[i] \notin D}
      <3>3. U \subseteq Nat /\ U # {}
        <4>1. k \in U
          BY <1>2, <2>4, <3>1, <3>2
        <4> QED BY <3>2, <4>1
      <3>4. PICK i \in U : \A h \in U : i <= h
        BY <3>3, NatMinimum
      <3>5. i \in j .. Len(path) /\ path[i] \notin D /\ i # j /\ j \in Nat \ {0}
        BY <2>3, <3>2
      <3>6. /\ i - 1 \in j .. Len(path) /\ i - 1 \in 1 .. Len(path) - 1 /\ i - 1 \in 1 .. Len(path)
            /\ (i - 1) + 1 = i /\ ~(i <= i - 1)
        BY <1>2, <3>5
      <3>7. path[i - 1] \in D
        BY <3>4, <3>6
      <3>8. path[i] = parent[path[i - 1]]
        BY <3>6, PathEndFacts
      <3>9. parent[path[i - 1]] = preferred[path[i - 1]]
        <4>1. path[i - 1] \in Nodes \ Finished
          BY <1>1, <1>4, <2>1, <3>7, PathVertices
        <4> QED BY <1>1, <4>1 DEF CuttingInv
      <3> QED BY <2>1, <3>5, <3>7, <3>8, <3>9
    <2> QED BY <2>4
  <1> QED BY <1>3, <1>4, <1>5, <1>6, <1>7 DEF Cycles, Leads

LEMMA SameCycles ==
    ASSUME preferred' = preferred
    PROVE  /\ Cycles' = Cycles /\ Cut' = Cut
           /\ parent' = parent => Late' = Late
  <1>1. Cycles' = Cycles
    BY DEF Cycles, Leads
  <1> QED BY <1>1 DEF Cut, Late

\* Before it is done the order owes nothing.
LEMMA NotYet == ASSUME phase' # "done" PROVE CyclesLoseOneEdge'
  BY DEF CyclesLoseOneEdge

LEMMA InitCuts == ForestInit => JInv
  <1> SUFFICES ASSUME ForestInit PROVE JInv
    OBVIOUS
  <1>1. CASE phase = "done"
    <2>1. \A v \in Nodes : preferred[v] = NoNode
      BY <1>1 DEF ForestInit
    <2> QED BY <1>1, <2>1 DEF JInv, Ordering, CyclesLoseOneEdge
  <1>2. CASE phase # "done"
    <2>1. phase = "scan" /\ preferred \in [Nodes -> Nodes] /\ parent = preferred
      BY <1>2 DEF ForestInit
    <2>2. Finished = {}
      BY DEF ForestInit, Finished
    <2>3. FinishedCycles = {}
      <3>1. \A C \in Cycles : C # {}
        BY FiniteCycles DEF Leads
      <3> QED BY <2>2, <3>1 DEF FinishedCycles
    <2>4. cycle_cuts = Cardinality(FinishedCycles) /\ depth_cuts = 0
      BY <2>3, FS_EmptySet DEF ForestInit
    <2>5. CuttingInv
      BY <2>1, <2>2, <2>4 DEF CuttingInv
    <2> QED BY <2>1, <2>5 DEF JInv, Ordering, CyclesLoseOneEdge
  <1> QED BY <1>1, <1>2

(* The steps of CutCycles that finish nothing. *)
LEMMA CuttingStays ==
    ASSUME IInv, JInv, phase \in {"scan", "walk"}, phase' \in {"scan", "walk"},
           UNCHANGED <<preferred, parent, cycle_cuts, depth_cuts>>, Finished' = Finished
    PROVE  JInv'
  <1>1. Cycles' = Cycles
    BY SameCycles
  <1>2. FinishedCycles' = FinishedCycles
    BY <1>1 DEF FinishedCycles
  <1>3. CuttingInv'
    BY <1>2 DEF JInv, CuttingInv
  <1>4. preferred' \in [Nodes -> Nodes]
    BY DEF JInv
  <1> QED BY <1>3, <1>4, NotYet DEF JInv, Ordering

LEMMA LookKeepsCuts ==
    ASSUME IInv, JInv, SkipVisited \/ StartPath \/ Walk
    PROVE  JInv'
  <1>1. CASE SkipVisited \/ StartPath
    <2>1. Finished' = Finished
      BY <1>1 DEF SkipVisited, StartPath, Finished
    <2> QED BY <1>1, <2>1, CuttingStays DEF SkipVisited, StartPath
  <1>2. CASE Walk
    <2>1. ForestTypeOK /\ node \in Nodes /\ state[node] = 0
      BY <1>2 DEF IInv, Walk, Unvisited, ForestTypeOK
    <2>2. Finished' = Finished
      BY <1>2, <2>1 DEF Walk, Finished, ForestTypeOK
    <2> QED BY <1>2, <2>2, CuttingStays DEF Walk
  <1> QED BY <1>1, <1>2

\* What is finished stays closed under `preferred' when a path ends.
LEMMA FinishedLeadsIn ==
    ASSUME IInv, JInv, PathEnds
    PROVE  /\ CuttingInv /\ preferred' = preferred
           /\ preferred \in [Nodes -> Nodes]
           /\ Finished \subseteq Finished' /\ Finished' \subseteq Nodes
           /\ \A v \in Finished' : preferred[v] \in Finished'
  <1>1. phase = "walk" /\ CuttingInv /\ preferred \in [Nodes -> Nodes]
    BY PathEndFacts DEF JInv
  <1>2. preferred' = preferred
    BY DEF PathEnds, CutCycle, EndPath
  <1>3. Finished \subseteq Finished' /\ Finished' \subseteq Nodes
    BY PathEndFacts DEF Finished
  <1>4. ASSUME NEW v \in Finished' PROVE preferred[v] \in Finished'
    <2>1. v \in Nodes /\ preferred[v] \in Nodes
      BY <1>1, <1>3
    <2>2. CASE v \in Finished
      BY <1>1, <1>3, <2>2 DEF CuttingInv
    <2>3. CASE v \notin Finished
      <3>1. OnPath(v) /\ preferred[v] = parent[v]
        BY <1>1, <2>1, <2>3, PathEndFacts DEF CuttingInv
      <3>2. PICK k \in 1 .. Len(path) : path[k] = v
        BY <3>1 DEF OnPath
      <3>3. Len(path) \in Nat
        BY <1>1, PathVertices
      <3>4. CASE k < Len(path)
        <4>1. k \in 1 .. Len(path) - 1 /\ k + 1 \in 1 .. Len(path)
          BY <3>2, <3>3, <3>4
        <4>2. path[k + 1] = preferred[v]
          BY <3>1, <3>2, <4>1, PathEndFacts
        <4>3. OnPath(preferred[v])
          BY <4>1, <4>2 DEF OnPath
        <4> QED BY <2>1, <4>3, PathEndFacts
      <3>5. CASE k = Len(path)
        <4>1. Len(path) > 0
          BY <3>2, <3>5
        <4>2. node = preferred[v]
          BY <3>1, <3>2, <3>5, <4>1, PathEndFacts
        <4>3. EndPath => node \in Finished
          BY <2>1, <4>2, NodeFacts, PathEndFacts
        <4> QED BY <2>1, <4>2, <4>3, PathEndFacts DEF PathEnds
      <3> QED BY <3>2, <3>3, <3>4, <3>5
    <2> QED BY <2>2, <2>3
  <1> QED BY <1>1, <1>2, <1>3, <1>4

LEMMA EndPathKeepsCuts == ASSUME IInv, JInv, EndPath PROVE JInv'
  <1> USE DEF PathEnds
  <1>1. /\ parent' = parent /\ cycle_cuts' = cycle_cuts /\ depth_cuts' = depth_cuts
        /\ phase' = "scan"
    BY PathEndFacts DEF EndPath
  <1>2. /\ CuttingInv /\ preferred' = preferred
        /\ preferred \in [Nodes -> Nodes]
        /\ Finished \subseteq Finished' /\ Finished' \subseteq Nodes
        /\ \A v \in Finished' : preferred[v] \in Finished'
    BY FinishedLeadsIn
  <1>3. Cycles' = Cycles
    BY <1>2, SameCycles
  <1>4. \A C \in Cycles : C \subseteq Finished' <=> C \subseteq Finished
    <2> SUFFICES ASSUME NEW C \in Cycles, C \subseteq Finished', ~(C \subseteq Finished)
                 PROVE  FALSE
      BY <1>2
    <2>1. C \cap Finished = {} /\ node \in C /\ C \in SUBSET Nodes
      BY NewCycle, FiniteCycles
    <2> QED BY <2>1, PathEndFacts, NodeFacts
  <1>5. FinishedCycles' = FinishedCycles
    <2>1. \A C : C \in FinishedCycles' <=> C \in FinishedCycles
      BY <1>3, <1>4 DEF FinishedCycles
    <2> QED BY <2>1
  <1>6. ASSUME NEW v \in Finished'
        PROVE  parent'[v] = NoNode <=> \E C \in FinishedCycles' : v = Smallest(C)
    <2>1. CASE v \in Finished
      BY <1>1, <1>2, <1>5, <2>1 DEF CuttingInv
    <2>2. CASE v \notin Finished
      <3>1. parent'[v] = preferred[v] /\ preferred[v] \in Nodes
        BY <1>1, <1>2, <2>2 DEF CuttingInv
      <3>2. \A C \in FinishedCycles : Smallest(C) \in Finished
        BY SmallestIs, FiniteCycles DEF FinishedCycles, Leads
      <3> QED BY <1>5, <2>2, <3>1, <3>2, NodeFacts
    <2> QED BY <2>1, <2>2
  <1>7. CuttingInv'
    BY <1>1, <1>2, <1>5, <1>6 DEF CuttingInv
  <1> QED BY <1>1, <1>2, <1>7, NotYet DEF JInv, Ordering

LEMMA CutCycleKeepsCuts == ASSUME IInv, JInv, CutCycle PROVE JInv'
  <1> USE DEF PathEnds
  <1>1. /\ cycle_cuts' = cycle_cuts + 1 /\ depth_cuts' = depth_cuts
        /\ phase = "walk" /\ phase' = "scan"
    BY PathEndFacts DEF CutCycle
  <1>2. /\ CuttingInv /\ preferred' = preferred
        /\ preferred \in [Nodes -> Nodes]
        /\ Finished \subseteq Finished' /\ Finished' \subseteq Nodes
        /\ \A v \in Finished' : preferred[v] \in Finished'
    BY FinishedLeadsIn
  <1>3. Cycles' = Cycles
    BY <1>2, SameCycles
  <1>4. PICK c \in Nodes : CutAt(c) /\ parent' = [parent EXCEPT ![c] = NoNode]
    BY DEF CutCycle
  <1>5. Cycle \in Cycles /\ node \in Cycle /\ \A v \in Cycle : OnPath(v)
    BY CycleIsOne
  <1>6. /\ Cycle \subseteq Nodes /\ Cycle \cap Finished = {} /\ Cycle \subseteq Finished'
        /\ Cycle # {}
    <2>1. Cycle \in SUBSET Nodes
      BY <1>5, FiniteCycles
    <2> QED BY <1>1, <1>5, <2>1, PathVertices, PathEndFacts
  <1>7. c = Smallest(Cycle) /\ c \in Cycle
    <2>1. Smallest(Cycle) \in Cycle /\ \A u \in Cycle : Smallest(Cycle) <= u
      BY <1>6, SmallestIs
    <2>2. c \in Cycle /\ \A u \in Cycle : c <= u
      BY <1>4 DEF CutAt
    <2>3. c <= Smallest(Cycle) /\ Smallest(Cycle) <= c /\ c \in Nat /\ Smallest(Cycle) \in Nat
      BY <1>6, <2>1, <2>2, NodeFacts
    <2> QED BY <2>2, <2>3
  <1>8. \A C \in Cycles : C \subseteq Finished' <=> C \subseteq Finished \/ C = Cycle
    <2> SUFFICES ASSUME NEW C \in Cycles, C \subseteq Finished', ~(C \subseteq Finished)
                 PROVE  C = Cycle
      BY <1>2, <1>6
    <2>1. node \in C
      BY NewCycle
    <2>2. C \cap Cycle # {}
      BY <1>5, <2>1
    <2> QED BY <1>5, <2>2, CyclesApart
  <1>9. FinishedCycles' = FinishedCycles \cup {Cycle} /\ Cycle \notin FinishedCycles
    <2>1. \A C : C \in FinishedCycles' <=> C \in FinishedCycles \/ C = Cycle
      BY <1>3, <1>5, <1>8 DEF FinishedCycles
    <2>2. Cycle \notin FinishedCycles
      BY <1>6 DEF FinishedCycles
    <2> QED BY <2>1, <2>2
  <1>10. cycle_cuts' = Cardinality(FinishedCycles')
    <2>1. IsFiniteSet(FinishedCycles)
      <3>1. FinishedCycles \subseteq Cycles
        BY DEF FinishedCycles
      <3> QED BY <3>1, FiniteCycles, FS_Subset
    <2>2. Cardinality(FinishedCycles \cup {Cycle}) = Cardinality(FinishedCycles) + 1
      BY <1>9, <2>1, FS_AddElement
    <2>3. cycle_cuts = Cardinality(FinishedCycles)
      BY <1>2 DEF CuttingInv
    <2> QED BY <1>1, <1>9, <2>2, <2>3
  <1>11. \A v \in Nodes : parent'[v] = IF v = c THEN NoNode ELSE parent[v]
    BY <1>4 DEF IInv, ForestTypeOK
  <1>12. ASSUME NEW v \in Finished'
         PROVE  parent'[v] = NoNode <=> \E C \in FinishedCycles' : v = Smallest(C)
    <2>1. v \in Nodes
      BY <1>2
    <2>2. CASE v \in Finished
      <3>1. parent'[v] = parent[v] /\ v # Smallest(Cycle)
        BY <1>6, <1>7, <1>11, <2>1, <2>2
      <3> QED BY <1>2, <1>9, <2>2, <3>1 DEF CuttingInv
    <2>3. CASE v \notin Finished
      <3>1. parent[v] = preferred[v] /\ preferred[v] \in Nodes
        BY <1>2, <2>1, <2>3 DEF CuttingInv
      <3>2. \A C \in FinishedCycles : Smallest(C) \in Finished
        BY SmallestIs, FiniteCycles DEF FinishedCycles, Leads
      <3>3. parent'[v] = NoNode <=> v = c
        BY <1>11, <2>1, <3>1, NodeFacts
      <3> QED BY <1>7, <1>9, <2>3, <3>2, <3>3
    <2> QED BY <2>2, <2>3
  <1>13. \A v \in Nodes \ Finished' : parent'[v] = preferred'[v]
    BY <1>2, <1>6, <1>7, <1>11 DEF CuttingInv
  <1>14. CuttingInv'
    BY <1>1, <1>2, <1>10, <1>12, <1>13 DEF CuttingInv
  <1> QED BY <1>1, <1>2, <1>14, NotYet DEF JInv, Ordering

-----------------------------------------------------------------------------
(* BuildDepthLimitedOrder *)

LEMMA ListChildrenKeepsCuts == ASSUME IInv, JInv, ListChildren PROVE JInv'
  <1>1. /\ CutInv /\ CuttingInv /\ preferred \in [Nodes -> Nodes] /\ start = N
        /\ phase' = "roots"
        /\ UNCHANGED <<preferred, parent, cycle_cuts, depth_cuts>>
    BY DEF IInv, JInv, ListChildren
  <1>2. Finished = Nodes
    <2>1. \A v \in Nodes : v \in Finished
      BY <1>1, NodeFacts DEF CutInv
    <2> QED BY <2>1 DEF Finished
  <1>3. FinishedCycles = Cycles
    BY <1>2, FiniteCycles DEF FinishedCycles
  <1>4. Cycles' = Cycles /\ Cut' = Cut /\ Late' = Late
    BY <1>1, SameCycles
  <1>5. \A v \in Nodes : parent[v] = NoNode <=> v \in Cut
    BY <1>1, <1>2, <1>3 DEF CuttingInv, Cut
  <1>6. Cut \subseteq Nodes
    BY SmallestIs, FiniteCycles DEF Cut, Leads
  <1>7. CycleCutsInv'
    BY <1>1, <1>3, <1>4, <1>5, <1>6 DEF CycleCutsInv, CuttingInv
  <1>8. ListedInv'
    BY <1>1, <1>4, <1>5 DEF ListedInv, Late, CuttingInv
  <1> QED BY <1>1, <1>7, <1>8, NotYet DEF JInv, Ordering

\* The steps that neither give up a reference nor move a vertex.
LEMMA OrderingStays ==
    ASSUME IInv, JInv, Ordering, phase' = phase,
           UNCHANGED <<preferred, parent, cycle_cuts, depth_cuts, limit, depth>>,
           \A v : InLine(v) => InLine(v)'
    PROVE  JInv'
  <1>1. Cycles' = Cycles /\ Cut' = Cut /\ Late' = Late
    BY SameCycles
  <1>2. CycleCutsInv'
    BY <1>1 DEF JInv, CycleCutsInv
  <1>3. phase = "roots" => ListedInv'
    BY <1>1 DEF JInv, ListedInv
  <1>4. phase = "order" => LateInv'
    <2> SUFFICES ASSUME phase = "order" PROVE LateInv'
      OBVIOUS
    <2>1. \A v \in Late : InLine(preferred[v]) /\ depth[preferred[v]] = limit
      BY DEF JInv, LateInv
    <2>2. \A v \in Late : InLine(preferred[v])'
      <3> SUFFICES ASSUME NEW v \in Late PROVE InLine(preferred[v])'
        OBVIOUS
      <3>1. \A w : w = preferred[v] => InLine(w)'
        BY <2>1
      <3>2. PICK w : w = preferred[v]
        OBVIOUS
      <3>3. InLine(w)'
        BY <3>1, <3>2
      <3> QED BY <3>2, <3>3 DEF InLine
    <2>3. depth_cuts' = Cardinality(Late')
      BY <1>1 DEF JInv, LateInv
    <2> QED BY <1>1, <2>1, <2>2, <2>3 DEF LateInv
  <1>5. preferred' \in [Nodes -> Nodes]
    BY DEF JInv, Ordering
  <1> QED BY <1>2, <1>3, <1>4, <1>5, NotYet DEF JInv, Ordering

LEMMA QueueKeepsCuts ==
    ASSUME IInv, JInv, QueueRoot \/ Pop
    PROVE  JInv'
  <1>1. CASE QueueRoot
    <2>1. ForestTypeOK /\ start \in Nodes
      <3>1. ForestTypeOK /\ start < N
        BY <1>1 DEF IInv, QueueRoot
      <3>2. start \in Nat
        BY <3>1, NodeFacts DEF ForestTypeOK
      <3> QED BY <3>1, <3>2, NodeFacts
    <2>2. \A v : InLine(v) => InLine(v)'
      <3>1. CASE line' = line
        BY <3>1 DEF InLine
      <3>2. CASE line' = Append(line, start)
        <4>1. /\ Len(line') = Len(line) + 1 /\ Len(line) \in Nat
              /\ \A k \in 1 .. Len(line) : line'[k] = line[k]
          BY <2>1, <3>2 DEF ForestTypeOK
        <4> QED BY <4>1 DEF InLine
      <3> QED BY <1>1, <3>1, <3>2 DEF QueueRoot
    <2> QED BY <1>1, <2>2, OrderingStays DEF QueueRoot, Ordering
  <1>2. CASE Pop
    <2>1. \A v : InLine(v) => InLine(v)'
      BY <1>2 DEF Pop, InLine
    <2> QED BY <1>2, <2>1, OrderingStays DEF Pop, Ordering
  <1> QED BY <1>1, <1>2

LEMMA StartOrderKeepsCuts == ASSUME IInv, JInv, StartOrder PROVE JInv'
  <1>1. /\ CycleCutsInv /\ ListedInv /\ preferred \in [Nodes -> Nodes]
        /\ phase' = "order"
        /\ UNCHANGED <<preferred, parent, cycle_cuts, depth_cuts>>
    BY DEF JInv, StartOrder, Ordering
  <1>2. Cycles' = Cycles /\ Cut' = Cut /\ Late' = {}
    BY <1>1, SameCycles DEF ListedInv
  <1>3. CycleCutsInv'
    BY <1>1, <1>2 DEF CycleCutsInv
  <1>4. LateInv'
    BY <1>1, <1>2, FS_EmptySet DEF LateInv, ListedInv
  <1> QED BY <1>1, <1>3, <1>4, NotYet DEF JInv, Ordering

(* A child is queued: if its reference is at the limit, it gives it up. *)
LEMMA QueueChildKeepsCuts == ASSUME IInv, JInv, QueueChild PROVE JInv'
  <1>0. PICK u : u = line[popped]
    OBVIOUS
  <1> DEFINE d == depth[u] + 1
  <1>1. /\ ForestTypeOK /\ OrderInv /\ Keeps /\ CycleCutsInv /\ LateInv
        /\ preferred \in [Nodes -> Nodes] /\ phase' = "order"
        /\ UNCHANGED <<limit, preferred, cycle_cuts>>
    BY DEF IInv, JInv, QueueChild, Ordering
  <1>2. PICK c \in rest :
          /\ line' = Append(line, c)
          /\ \/ /\ d > limit
                /\ parent' = [parent EXCEPT ![c] = NoNode]
                /\ depth' = [depth EXCEPT ![c] = 0]
                /\ depth_cuts' = depth_cuts + 1
             \/ /\ ~(d > limit)
                /\ depth' = [depth EXCEPT ![c] = d]
                /\ UNCHANGED <<parent, depth_cuts>>
    BY <1>0 DEF QueueChild, TooDeep
  <1>3. /\ popped \in 1 .. Len(line) /\ u \in Nodes /\ c \in Nodes /\ c \in children[u]
        /\ limit \in Nat /\ depth[u] \in Nat
    <2>1. popped > 0 /\ c \in children[u]
      BY <1>0, <1>1 DEF OrderInv
    <2>2. popped \in 1 .. Len(line)
      BY <1>1, <2>1 DEF ForestTypeOK
    <2>3. u \in Nodes
      BY <1>0, <1>1, <2>2 DEF ForestTypeOK
    <2> QED BY <1>1, <2>1, <2>2, <2>3 DEF ForestTypeOK
  <1>4. ~InLine(c) /\ parent[c] = u /\ InLine(u) /\ depth[u] <= limit
    <2>1. ~InLine(c) /\ parent[c] = u
      BY <1>1, <1>3 DEF OrderInv
    <2>2. InLine(u)
      BY <1>0, <1>3 DEF InLine
    <2> QED BY <1>1, <1>3, <2>1, <2>2 DEF OrderInv, Placed
  <1>5. preferred[c] = u /\ c \notin Cut /\ c \notin Late
    <2>1. parent[c] # NoNode
      BY <1>3, <1>4, NodeFacts
    <2>2. parent[c] = preferred[c]
      BY <1>1, <1>3, <2>1 DEF Keeps
    <2> QED BY <1>1, <1>4, <2>1, <2>2 DEF CycleCutsInv, Late
  <1>6. \A v : InLine(v) => InLine(v)'
    <2>1. /\ Len(line') = Len(line) + 1 /\ Len(line) \in Nat
          /\ \A k \in 1 .. Len(line) : line'[k] = line[k]
      BY <1>1, <1>2, <1>3 DEF ForestTypeOK
    <2> QED BY <2>1 DEF InLine
  <1>7. \A v \in Nodes : v # c => parent'[v] = parent[v] /\ depth'[v] = depth[v]
    BY <1>1, <1>2 DEF ForestTypeOK
  <1>8. Cycles' = Cycles /\ Cut' = Cut
    BY <1>1, SameCycles
  <1>9. CycleCutsInv'
    <2>1. Cut \subseteq Nodes
      BY SmallestIs, FiniteCycles DEF Cut, Leads
    <2>2. \A v \in Cut : parent'[v] = NoNode
      BY <1>1, <1>5, <1>7, <2>1 DEF CycleCutsInv
    <2> QED BY <1>1, <1>8, <2>2 DEF CycleCutsInv
  <1>10. ASSUME NEW v \in Late
         PROVE  InLine(preferred[v])' /\ depth'[preferred'[v]] = limit'
    <2>1. /\ v \in Nodes /\ preferred[v] \in Nodes
          /\ InLine(preferred[v]) /\ depth[preferred[v]] = limit
      BY <1>1 DEF LateInv, Late
    <2>2. preferred[v] # c
      BY <1>4, <2>1
    <2>3. PICK w : w = preferred[v]
      OBVIOUS
    <2>4. InLine(w)'
      BY <1>6, <2>1, <2>3
    <2>5. InLine(preferred[v])'
      BY <1>1, <2>3, <2>4 DEF InLine
    <2>6. depth'[preferred'[v]] = limit'
      BY <1>1, <1>7, <2>1, <2>2
    <2> QED BY <2>5, <2>6
  <1>11. CASE d > limit
    <2>1. parent'[c] = NoNode /\ depth_cuts' = depth_cuts + 1
      BY <1>1, <1>2, <1>3, <1>11 DEF ForestTypeOK
    <2>2. depth[u] = limit
      BY <1>3, <1>4, <1>11
    <2>3. Late' = Late \cup {c}
      <3>1. \A v \in Nodes : v \in Late' <=> v \in Late \/ v = c
        BY <1>5, <1>7, <1>8, <2>1 DEF Late
      <3>2. Late \subseteq Nodes /\ Late' \subseteq Nodes
        BY DEF Late
      <3> QED BY <1>3, <3>1, <3>2
    <2>4. InLine(preferred[c])' /\ depth'[preferred'[c]] = limit'
      <3>1. u # c
        BY <1>4
      <3>2. InLine(u)'
        BY <1>4, <1>6
      <3>3. preferred'[c] = u
        BY <1>1, <1>5
      <3>4. InLine(preferred[c])'
        BY <3>2, <3>3 DEF InLine
      <3>5. depth'[u] = limit'
        BY <1>1, <1>3, <1>7, <2>2, <3>1
      <3> QED BY <3>3, <3>4, <3>5
    <2>5. depth_cuts' = Cardinality(Late')
      <3>1. IsFiniteSet(Late)
        <4>1. Late \subseteq Nodes
          BY DEF Late
        <4> QED BY <4>1, FiniteCycles, FS_Subset
      <3>2. Cardinality(Late \cup {c}) = Cardinality(Late) + 1
        BY <1>5, <3>1, FS_AddElement
      <3>3. depth_cuts = Cardinality(Late)
        BY <1>1 DEF LateInv
      <3> QED BY <2>1, <2>3, <3>2, <3>3
    <2>6. LateInv'
      BY <1>10, <2>3, <2>4, <2>5 DEF LateInv
    <2> QED BY <1>1, <1>9, <2>6, NotYet DEF JInv, Ordering
  <1>12. CASE ~(d > limit)
    <2>1. parent' = parent /\ depth_cuts' = depth_cuts
      BY <1>2, <1>12
    <2>2. Late' = Late
      BY <1>1, <2>1, SameCycles
    <2>3. LateInv'
      BY <1>1, <1>10, <2>1, <2>2 DEF LateInv
    <2> QED BY <1>1, <1>9, <2>3, NotYet DEF JInv, Ordering
  <1> QED BY <1>11, <1>12

LEMMA EndOrderKeepsCuts == ASSUME IInv, JInv, EndOrder PROVE JInv'
  <1>1. /\ phase = "order" /\ rest = {} /\ popped = Len(line)
        /\ UNCHANGED <<limit, preferred, parent, cycle_cuts, depth, depth_cuts>>
    BY DEF EndOrder
  <1>2. phase' = "done"
    BY <1>1, Complete DEF EndOrder
  <1>3. CycleCutsInv /\ LateInv
    BY <1>1 DEF JInv, Ordering
  <1>4. Cycles' = Cycles /\ Cut' = Cut /\ Late' = Late
    BY <1>1, SameCycles
  <1>5. CyclesLoseOneEdge'
    BY <1>1, <1>3, <1>4 DEF CyclesLoseOneEdge, CycleCutsInv, LateInv
  <1> QED BY <1>2, <1>5 DEF JInv, Ordering

LEMMA StutterKeepsCuts == ASSUME JInv, UNCHANGED forest PROVE JInv'
  <1>1. /\ preferred' = preferred /\ parent' = parent /\ phase' = phase /\ limit' = limit
        /\ cycle_cuts' = cycle_cuts /\ depth_cuts' = depth_cuts /\ depth' = depth
    BY DEF forest
  <1>2. Cycles' = Cycles /\ Cut' = Cut /\ Late' = Late
    BY <1>1, SameCycles
  <1>3. Finished' = Finished /\ FinishedCycles' = FinishedCycles
    BY <1>2 DEF forest, Finished, FinishedCycles
  <1>4. CuttingInv => CuttingInv'
    BY <1>1, <1>3 DEF CuttingInv
  <1>5. (CycleCutsInv => CycleCutsInv') /\ (ListedInv => ListedInv')
    BY <1>1, <1>2 DEF CycleCutsInv, ListedInv
  <1>6. LateInv => LateInv'
    BY <1>1, <1>2 DEF forest, LateInv, InLine
  <1>7. CyclesLoseOneEdge => CyclesLoseOneEdge'
    BY <1>1, <1>2 DEF CyclesLoseOneEdge
  <1> QED BY <1>1, <1>4, <1>5, <1>6, <1>7 DEF JInv, Ordering

(* A cluster of any size, any preferences and any depth limit: each cycle of
   preferences loses the edge of its smallest vertex and no other, a reference
   given up later is one to a vertex at the limit, and the two counters
   BuildReferenceForest returns count exactly these edges. *)
THEOREM CutsAreRight == ForestSpec => []CyclesLoseOneEdge
  <1>1. ForestInit => IInv /\ JInv
    BY InitHolds, InitCuts
  <1>2. IInv /\ JInv /\ [ForestNext]_forest => JInv'
    BY LookKeepsCuts, CutCycleKeepsCuts, EndPathKeepsCuts, ListChildrenKeepsCuts,
       QueueKeepsCuts, StartOrderKeepsCuts, QueueChildKeepsCuts, EndOrderKeepsCuts,
       StutterKeepsCuts
       DEF ForestNext
  <1>3. JInv => CyclesLoseOneEdge
    BY DEF JInv
  <1> QED BY <1>1, <1>2, <1>3, Inductive, PTL DEF ForestSpec

=============================================================================
