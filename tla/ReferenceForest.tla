--------------------------- MODULE ReferenceForest ---------------------------
(***************************************************************************)
(* BuildReferenceForest of src/src/linkage/reference_forest.cpp: every     *)
(* vector of a cluster prefers one other vector as its reference; the      *)
(* preferences are made into a forest of bounded depth.  CutCycles walks   *)
(* from every unvisited vertex and removes one edge of each cycle it       *)
(* closes; BuildDepthLimitedOrder then visits the forest breadth first,    *)
(* makes a root of every vertex that would be too deep, and leaves the     *)
(* order in which the builder encodes the vectors.                         *)
(*                                                                         *)
(* One action per turn of each loop.  The deque and the output order are   *)
(* one sequence, `line', with the number of vertices popped so far: what   *)
(* is popped is exactly what has been appended to `order'.                 *)
(***************************************************************************)
EXTENDS Integers, Sequences, FiniteSets

CONSTANTS
    N,          \* number of vectors of the cluster
    MaxDepths   \* values of linkage.max_depth to consider

ASSUME SizeAssumption == N \in Nat \ {0}
ASSUME DepthAssumption == MaxDepths \subseteq Int

Nodes == 0 .. N - 1
NoNode == -1

VARIABLES
    phase,      \* "scan", "walk", "roots", "order", "done" or "error"
    limit,      \* max(1, max_depth)
    preferred,  \* the references the policy chose (history)
    parent,
    state,      \* CutCycles: 0 unvisited, 1 on the path, 2 finished
    path,
    node,
    start,      \* the index of the loops over all vertices
    cycle_cuts,
    children,   \* the lists BuildDepthLimitedOrder makes before it starts
    line,       \* vertices in the order they entered the queue
    popped,     \* how many of them have left it
    rest,       \* children of the last one popped still to be queued
    depth,
    depth_cuts

forest == <<phase, limit, preferred, parent, state, path, node, start, cycle_cuts,
            children, line, popped, rest, depth, depth_cuts>>

ForestInit ==
    /\ limit \in {IF d < 1 THEN 1 ELSE d : d \in MaxDepths}
    /\ state = [v \in Nodes |-> 0] /\ path = <<>> /\ node = NoNode /\ start = 0
    /\ children = [v \in Nodes |-> {}] /\ rest = {}
    /\ depth = [v \in Nodes |-> 0] /\ cycle_cuts = 0 /\ depth_cuts = 0
    /\ \/ /\ preferred = [v \in Nodes |-> NoNode]   \* n <= 1, or all_roots
          /\ line = [k \in 1 .. N |-> k - 1] /\ popped = N
          /\ phase = "done"
       \/ /\ N > 1                                  \* nn_forest, random_forest
          /\ preferred \in [Nodes -> Nodes]
          /\ \A v \in Nodes : preferred[v] # v
          /\ line = <<>> /\ popped = 0
          /\ phase = "scan"
    /\ parent = preferred

(***************************************************************************)
(* CutCycles.                                                              *)
(***************************************************************************)
SkipVisited ==
    /\ phase = "scan" /\ start < N /\ state[start] # 0
    /\ start' = start + 1
    /\ UNCHANGED <<phase, limit, preferred, parent, state, path, node, cycle_cuts,
                   children, line, popped, rest, depth, depth_cuts>>

StartPath ==
    /\ phase = "scan" /\ start < N /\ state[start] = 0
    /\ path' = <<>> /\ node' = start /\ phase' = "walk"
    /\ UNCHANGED <<limit, preferred, parent, state, start, cycle_cuts,
                   children, line, popped, rest, depth, depth_cuts>>

Unvisited == node # NoNode /\ state[node] = 0

Walk ==
    /\ phase = "walk" /\ Unvisited
    /\ state' = [state EXCEPT ![node] = 1]
    /\ path' = Append(path, node)
    /\ node' = parent[node]
    /\ UNCHANGED <<phase, limit, preferred, parent, start, cycle_cuts,
                   children, line, popped, rest, depth, depth_cuts>>

Closed == node # NoNode /\ state[node] = 1      \* the walk met its own path

OnPath(v) == \E k \in 1 .. Len(path) : path[k] = v

\* The part of the path from the vertex the walk came back to.
Cycle == {path[k] : k \in {k \in 1 .. Len(path) :
                              \E j \in 1 .. k : path[j] = node}}

\* Seeded bug: the vertex where the walk came back is cut, whichever it is.
CutAtFirst(v) == v = node

\* Seeded bug: the vertex where the walk started is cut, on the cycle or not.
CutAtStart(v) == v = start

\* Which vertex of the cycle loses its parent: the smallest.
CutAt(v) == v \in Cycle /\ \A u \in Cycle : v <= u

\* The loop over `path' that marks it finished.
FinishPath ==
    /\ state' = [v \in Nodes |-> IF OnPath(v) THEN 2 ELSE state[v]]
    /\ start' = start + 1
    /\ phase' = "scan"

CutCycle ==
    /\ phase = "walk" /\ Closed
    /\ \E v \in Nodes : CutAt(v) /\ parent' = [parent EXCEPT ![v] = NoNode]
    /\ cycle_cuts' = cycle_cuts + 1
    /\ FinishPath
    /\ UNCHANGED <<limit, preferred, path, node, children, line, popped, rest,
                   depth, depth_cuts>>

EndPath ==
    /\ phase = "walk" /\ ~Unvisited /\ ~Closed
    /\ FinishPath
    /\ UNCHANGED <<limit, preferred, parent, path, node, cycle_cuts,
                   children, line, popped, rest, depth, depth_cuts>>

(***************************************************************************)
(* BuildDepthLimitedOrder.                                                 *)
(***************************************************************************)
ListChildren ==
    /\ phase = "scan" /\ start = N
    /\ children' = [v \in Nodes |-> {c \in Nodes : parent[c] = v}]
    /\ start' = 0 /\ phase' = "roots"
    /\ UNCHANGED <<limit, preferred, parent, state, path, node, cycle_cuts,
                   line, popped, rest, depth, depth_cuts>>

QueueRoot ==
    /\ phase = "roots" /\ start < N
    /\ line' = IF parent[start] = NoNode THEN Append(line, start) ELSE line
    /\ start' = start + 1
    /\ UNCHANGED <<phase, limit, preferred, parent, state, path, node, cycle_cuts,
                   children, popped, rest, depth, depth_cuts>>

StartOrder ==
    /\ phase = "roots" /\ start = N
    /\ phase' = "order"
    /\ UNCHANGED <<limit, preferred, parent, state, path, node, start, cycle_cuts,
                   children, line, popped, rest, depth, depth_cuts>>

Pop ==
    /\ phase = "order" /\ rest = {} /\ popped < Len(line)
    /\ popped' = popped + 1
    /\ rest' = children[line[popped + 1]]
    /\ UNCHANGED <<phase, limit, preferred, parent, state, path, node, start, cycle_cuts,
                   children, line, depth, depth_cuts>>

\* Seeded bug: a vertex exactly at the limit is still given children.
TooDeepLate(d) == d > limit + 1

TooDeep(d) == d > limit

QueueChild ==
    /\ phase = "order"
    /\ LET next_depth == depth[line[popped]] + 1 IN
       \E c \in rest :
          /\ \A b \in rest : c <= b
          /\ rest' = rest \ {c}
          /\ line' = Append(line, c)
          /\ \/ /\ TooDeep(next_depth)
                /\ parent' = [parent EXCEPT ![c] = NoNode]
                /\ depth' = [depth EXCEPT ![c] = 0]
                /\ depth_cuts' = depth_cuts + 1
             \/ /\ ~TooDeep(next_depth)
                /\ depth' = [depth EXCEPT ![c] = next_depth]
                /\ UNCHANGED <<parent, depth_cuts>>
    /\ UNCHANGED <<phase, limit, preferred, state, path, node, start, cycle_cuts,
                   children, popped>>

EndOrder ==
    /\ phase = "order" /\ rest = {} /\ popped = Len(line)
    /\ phase' = IF Len(line) = N THEN "done" ELSE "error"
    /\ UNCHANGED <<limit, preferred, parent, state, path, node, start, cycle_cuts,
                   children, line, popped, rest, depth, depth_cuts>>

ForestNext ==
    \/ SkipVisited \/ StartPath \/ Walk \/ CutCycle \/ EndPath
    \/ ListChildren \/ QueueRoot \/ StartOrder \/ Pop \/ QueueChild \/ EndOrder

ForestSpec == ForestInit /\ [][ForestNext]_forest

-----------------------------------------------------------------------------
ForestTypeOK ==
    /\ phase \in {"scan", "walk", "roots", "order", "done", "error"}
    /\ limit \in Nat \ {0}
    /\ preferred \in [Nodes -> Nodes \cup {NoNode}]
    /\ parent \in [Nodes -> Nodes \cup {NoNode}]
    /\ state \in [Nodes -> 0 .. 2] /\ path \in Seq(Nodes)
    /\ node \in Nodes \cup {NoNode} /\ start \in 0 .. N
    /\ cycle_cuts \in Nat /\ depth_cuts \in Nat
    /\ children \in [Nodes -> SUBSET Nodes]
    /\ line \in Seq(Nodes) /\ popped \in 0 .. Len(line)
    /\ rest \in SUBSET Nodes
    /\ depth \in [Nodes -> Nat]

Before(u, v) ==
    \E j, k \in 1 .. Len(line) : j < k /\ line[j] = u /\ line[k] = v

(***************************************************************************)
(* What the builder relies on when it walks `order': a vertex comes after  *)
(* its parent, is one deeper than it and never deeper than the limit; a    *)
(* root has depth 0; a vertex keeps the reference the policy chose or has  *)
(* none.                                                                   *)
(***************************************************************************)
ParentsFirst ==
    phase = "done" =>
        \A v \in Nodes :
            /\ parent[v] \in {preferred[v], NoNode}
            /\ depth[v] <= limit
            /\ parent[v] = NoNode => depth[v] = 0
            /\ parent[v] # NoNode => /\ Before(parent[v], v)
                                     /\ depth[v] = depth[parent[v]] + 1

(***************************************************************************)
(* Every vector is in the order once: the "internal forest ordering        *)
(* failure" at the end of BuildReferenceForest never happens, so no cycle  *)
(* is left after CutCycles.                                                *)
(***************************************************************************)
EveryVectorOrdered ==
    /\ phase # "error"
    /\ phase = "done" => /\ Len(line) = N
                         /\ \A v \in Nodes : \E k \in 1 .. Len(line) : line[k] = v

(***************************************************************************)
(* A cycle of preferences: a set closed under `preferred' that no smaller  *)
(* one is part of.                                                         *)
(***************************************************************************)
Leads(C) == C # {} /\ \A v \in C : preferred[v] \in C
Cycles == {C \in SUBSET Nodes : Leads(C) /\ \A D \in SUBSET C : Leads(D) => D = C}
Smallest(C) == CHOOSE v \in C : \A u \in C : v <= u

(***************************************************************************)
(* Each cycle of preferences loses the edge of its smallest vertex and no  *)
(* other; a reference given up later is one at the depth limit; both are   *)
(* counted.                                                                *)
(***************************************************************************)
Cut == {Smallest(C) : C \in Cycles}
Late == {v \in Nodes \ Cut : parent[v] = NoNode}

CyclesLoseOneEdge ==
    (phase = "done" /\ \E v \in Nodes : preferred[v] # NoNode) =>
        /\ \A v \in Cut : parent[v] = NoNode
        /\ \A v \in Late : depth[preferred[v]] = limit
        /\ cycle_cuts = Cardinality(Cycles)
        /\ depth_cuts = Cardinality(Late)

=============================================================================
