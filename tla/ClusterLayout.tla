--------------------------- MODULE ClusterLayout ---------------------------
(***************************************************************************)
(* FinalizeLinkageClusterBfsVirtualFrontInPlace of                         *)
(* src/include/stlq/linkage/linkage_finalize.h: the last step of every     *)
(* cluster builder.  It renumbers the vertices of a cluster level by level *)
(* with the virtual ones in front, which is the layout the parent LOUDS    *)
(* and the coefficient streams assume.                                     *)
(*                                                                         *)
(* A cluster is a record: nv virtual vertices, numbered first; nr real     *)
(* ones; parent, the 1-based parent of each vertex (0: a root); indices,   *)
(* the vector each real vertex stands for.                                 *)
(*                                                                         *)
(* One action per turn of the loops over the levels.  The vectors bfs_old, *)
(* cur and next are one sequence, `bfs': its first `visited' vertices are  *)
(* in bfs_old, those up to `level' make up cur, the others next.  A vertex *)
(* is in one list of children, so `seen' never holds one back.             *)
(***************************************************************************)
EXTENDS Integers, Sequences, FiniteSets, SortedSets

Total(c) == c.nv + c.nr
Locals(c) == 0 .. Total(c) - 1
Virtual(c, u) == u < c.nv
RealsOf(c) == {u \in Locals(c) : ~Virtual(c, u)}

VARIABLES
    stage,      \* "forest", "built", "layout" or "final"
    cluster,    \* LinkageStructure::Cluster
    built,      \* the cluster before its layout (history)
    bfs,        \* vertices in the order of the levels
    visited,
    level,
    dep,
    depth_old   \* the level a vertex was visited at

layout == <<stage, cluster, built, bfs, visited, level, dep, depth_old>>

StableKeyForLocal(c, u) == IF Virtual(c, u) THEN u ELSE c.indices[u - c.nv]

\* Seeded bug: the sort forgets that virtual vertices come first.
ChildLessByKey(c, a, b) ==
    \/ StableKeyForLocal(c, a) < StableKeyForLocal(c, b)
    \/ StableKeyForLocal(c, a) = StableKeyForLocal(c, b) /\ a < b

ChildLess(c, a, b) ==
    \/ Virtual(c, a) /\ ~Virtual(c, b)
    \/ /\ Virtual(c, a) <=> Virtual(c, b)
       /\ \/ StableKeyForLocal(c, a) < StableKeyForLocal(c, b)
          \/ StableKeyForLocal(c, a) = StableKeyForLocal(c, b) /\ a < b

Sorted(c, T) == SortedBy(T, LAMBDA a, b : ChildLess(c, a, b))

\* The vertices under p (1-based); a parent that does not exist means root.
ChildrenOf(c, p) ==
    {u \in Locals(c) : (IF c.parent[u] \in 0 .. Total(c) THEN c.parent[u] ELSE 0) = p}

(***************************************************************************)
(* What a cluster builder hands over: virtual vertices are roots, and      *)
(* following parents ends at a root, so every set of vertices has one      *)
(* whose parent is outside.                                                *)
(***************************************************************************)
Rooted(c) ==
    \A T \in SUBSET Locals(c) : T # {} =>
        \E u \in T : c.parent[u] = 0 \/ c.parent[u] - 1 \notin T

IsForest(c) ==
    /\ c.nv \in Nat /\ c.nr \in Nat /\ Total(c) > 0
    /\ c.parent \in [Locals(c) -> 0 .. Total(c)]
    /\ c.indices \in [0 .. c.nr - 1 -> Nat]
    /\ \A u \in Locals(c) : Virtual(c, u) => c.parent[u] = 0
    /\ Rooted(c)

Nothing == [nv |-> 0, nr |-> 0]

NotStarted ==
    /\ built = Nothing /\ bfs = <<>> /\ depth_old = <<>>
    /\ visited = 0 /\ level = 0 /\ dep = 0

LayoutInit == stage = "built" /\ IsForest(cluster) /\ NotStarted

StartLayout ==
    /\ stage = "built"
    /\ stage' = "layout"
    /\ built' = cluster
    /\ bfs' = Sorted(cluster, ChildrenOf(cluster, 0))
    /\ level' = Len(bfs')
    /\ depth_old' = [u \in Locals(cluster) |-> 0]
    /\ UNCHANGED <<cluster, visited, dep>>

\* A vertex of cur gets its number and its depth; its children go to next.
Visit ==
    /\ stage = "layout" /\ visited < level
    /\ LET u == bfs[visited + 1]
       IN  /\ bfs' = bfs \o Sorted(cluster, ChildrenOf(cluster, u + 1))
           /\ depth_old' = [depth_old EXCEPT ![u] = dep]
    /\ visited' = visited + 1
    /\ UNCHANGED <<stage, cluster, built, level, dep>>

NextLevel ==
    /\ stage = "layout" /\ visited = level /\ level < Len(bfs)
    /\ level' = Len(bfs)
    /\ dep' = dep + 1
    /\ UNCHANGED <<stage, cluster, built, bfs, visited, depth_old>>

\* What no root reaches is appended; its depth_old stays 0.
BfsOld == bfs \o Sorted(cluster, Locals(cluster) \ {bfs[k] : k \in 1 .. Len(bfs)})

\* Finalized below for the order `b' of the old vertices.
OldLocal(b, u) == b[u + 1]
Old2New(b, v) == (CHOOSE k \in 1 .. Len(b) : b[k] = v) - 1
DepthsOf(b) == {0} \cup {depth_old[OldLocal(b, u)] : u \in RealsOf(cluster)}
MaxDepthReal(b) == CHOOSE d \in DepthsOf(b) : \A e \in DepthsOf(b) : e <= d

ParentNew(b, p) == IF p \in 1 .. Total(cluster) THEN Old2New(b, p - 1) + 1 ELSE 0

Renumbered(b) ==
    [nv |-> cluster.nv, nr |-> cluster.nr,
     parent |-> [u \in Locals(cluster) |-> ParentNew(b, cluster.parent[OldLocal(b, u)])],
     indices |-> [k \in 0 .. cluster.nr - 1 |->
                    LET old == OldLocal(b, k + cluster.nv)
                    IN  IF old \in RealsOf(cluster) THEN cluster.indices[old - cluster.nv]
                        ELSE 0],
     depth_offsets |-> [d \in 0 .. MaxDepthReal(b) + 1 |->
                          Cardinality({u \in RealsOf(cluster) :
                                         depth_old[OldLocal(b, u)] < d})]]

Renumber ==
    /\ stage = "layout" /\ visited = level /\ level = Len(bfs)
    /\ stage' = "final"
    /\ cluster' = Renumbered(BfsOld)
    /\ UNCHANGED <<built, bfs, visited, level, dep, depth_old>>

LayoutNext == StartLayout \/ Visit \/ NextLevel \/ Renumber

LayoutSpec == LayoutInit /\ [][LayoutNext]_layout

-----------------------------------------------------------------------------
(***************************************************************************)
(* The depth of a vertex: how many vertices are above it.  Those are in    *)
(* every set that it is in and that holds the parents of its members.      *)
(***************************************************************************)
Upward(c, T) == \A v \in T : c.parent[v] # 0 => c.parent[v] - 1 \in T
Above(c, u) ==
    {v \in Locals(c) \ {u} :
        \A T \in SUBSET Locals(c) : (u \in T /\ Upward(c, T)) => v \in T}
Depth(c, u) == Cardinality(Above(c, u))

Name(c, u) == IF Virtual(c, u) THEN <<"virtual", u>> ELSE <<"real", c.indices[u - c.nv]>>
Root == <<"root", 0>>
Edge(c, u) == <<Name(c, u), IF c.parent[u] = 0 THEN Root ELSE Name(c, c.parent[u] - 1)>>
Edges(c) == {Edge(c, u) : u \in Locals(c)}

(***************************************************************************)
(* A builder hands over a forest, and the layout is the same one           *)
(* renumbered: virtual vertices in front and in their order, parents       *)
(* before children, parents never decreasing (the order LOUDS can store),  *)
(* and depth_offsets bounding the real vertices of each depth, up to the   *)
(* last one.                                                               *)
(***************************************************************************)
InLevels(c) ==
    /\ \A u \in Locals(c) : /\ c.parent[u] <= u
                            /\ u > 0 => c.parent[u - 1] <= c.parent[u]
    /\ \A k \in 0 .. c.nr - 1 :
          LET d == Depth(c, c.nv + k)
          IN /\ d + 1 \in DOMAIN c.depth_offsets
             /\ \A e \in DOMAIN c.depth_offsets : d < e <=> k < c.depth_offsets[e]

SameForestInLevels ==
    /\ stage \in {"built", "layout"} => IsForest(cluster)
    /\ stage = "final" =>
        /\ cluster.nv = built.nv /\ cluster.nr = built.nr
        /\ Edges(cluster) = Edges(built)
        /\ InLevels(cluster)

=============================================================================
