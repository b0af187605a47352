---------------------------- MODULE ClusterRecord ----------------------------
(***************************************************************************)
(* One cluster from its references to its record on disk and back: the     *)
(* reference-forest builder                                                *)
(* (src/src/linkage/linkage_reference_forest_builder.inc) or another       *)
(* cluster builder, the final layout, the parents as a LOUDS, and the      *)
(* coefficient streams the streaming builder stores                        *)
(* (src/src/linkage/linkage_base_streaming_builder.cpp).                   *)
(*                                                                         *)
(* The pieces agree only through conventions: the layout puts the roots in *)
(* front, the coefficient writer splits vertices by their parent and the   *)
(* reader by two counts.  The properties are about those conventions.      *)
(***************************************************************************)
EXTENDS ReferenceForest, ParentLouds, CoefficientCodec

CONSTANTS
    MaxVirtual,   \* most virtual vertices of a cluster of another builder
    FewVertices   \* up to this size every assignment of coefficients is tried

ASSUME RecordAssumption == MaxVirtual \in Nat /\ FewVertices \in Nat

VARIABLE
    next      \* the reference builder's place in forest.order

vars == <<forest, layout, louds, coefficients, next>>

(***************************************************************************)
(* Any forest the other builders can hand over.  The streaming builders    *)
(* list the vectors of a cluster in ascending order; the evaluation in     *)
(* memory rebuilds clusters whose lists are in another                     *)
(* (recall_linkage.cpp:758).                                               *)
(***************************************************************************)
Indices(nr) == {[k \in 0 .. nr - 1 |-> k], [k \in 0 .. nr - 1 |-> nr - 1 - k]}

Clusters(nv, nr) ==
    {c \in [nv : {nv}, nr : {nr}, indices : Indices(nr),
            parent : {[u \in 0 .. nv + nr - 1 |-> IF u < nv THEN 0 ELSE p[u]] :
                        p \in [nv .. nv + nr - 1 -> 0 .. nv + nr]}] : Rooted(c)}

Init ==
    /\ ForestInit
    /\ next = 0 /\ NotStarted /\ LoudsIdle /\ CodecIdle
    /\ \/ /\ stage = "forest"
          /\ cluster = [nv |-> 0, nr |-> N, indices |-> [k \in Nodes |-> k],
                        parent |-> [u \in Nodes |-> 0]]
       \/ /\ stage = "built" /\ phase = "done" /\ limit = 1
          /\ \E nv \in 0 .. MaxVirtual, nr \in 0 .. N :
                nv + nr > 0 /\ cluster \in Clusters(nv, nr)

BuildForest ==
    /\ stage = "forest" /\ ForestNext
    /\ UNCHANGED <<layout, louds, coefficients, next>>

(***************************************************************************)
(* The builder's loop over forest.order.  A vertex keeps its reference     *)
(* unless least squares fails or the encoding against it is no better than *)
(* that of a root.                                                         *)
(***************************************************************************)
EncodeVertex ==
    /\ stage = "forest" /\ phase = "done" /\ next < Len(line)
    /\ next' = next + 1
    /\ LET v == line[next'] IN
       \/ /\ parent[v] # NoNode
          /\ cluster' = [cluster EXCEPT !.parent[v] = parent[v] + 1]
       \/ UNCHANGED cluster
    /\ UNCHANGED <<forest, stage, built, bfs, visited, level, dep, depth_old, louds,
                   coefficients>>

ForestBuilt ==
    /\ stage = "forest" /\ phase = "done" /\ next = Len(line)
    /\ stage' = "built"
    /\ UNCHANGED <<forest, cluster, built, bfs, visited, level, dep, depth_old, louds,
                   coefficients, next>>

Layout == LayoutNext /\ UNCHANGED <<forest, louds, coefficients, next>>

(***************************************************************************)
(* The record: the parents and the coefficients, and the ways they are     *)
(* read back.  Both depend on the finished cluster and not on each other,  *)
(* so a behaviour goes on with one of them.  The layout keeps the numbers  *)
(* of a cluster that is in levels already, so each vector of parents is    *)
(* tried once, for the cluster that had it from the start.                 *)
(***************************************************************************)
EachParentsOnce ==
    /\ next = 0
    /\ built.parent = cluster.parent
    /\ built.indices = [k \in 0 .. built.nr - 1 |-> k]

Louds ==
    /\ stage = "final" /\ EachParentsOnce /\ codec = "idle"
    /\ LoudsStep
    /\ UNCHANGED <<forest, layout, coefficients, next>>

(***************************************************************************)
(* Larger clusters get three assignments of coefficients: one in which     *)
(* neighbours differ, one whose frequencies halve, and one whose           *)
(* frequencies are Fibonacci numbers, which makes codes as long as they    *)
(* get.                                                                    *)
(***************************************************************************)
Assignment(Value(_)) ==
    [l \in 1 .. Layers |->
        [u \in Locals(cluster) |-> Value((l - 1) * Total(cluster) + u) - QMax]]

Halving(k) ==
    Cardinality({e \in 1 .. S - 1 : \A d \in 1 .. e : (k \div 2 ^ (d - 1)) % 2 = 1})

Fibonacci(k) == Cardinality({e \in {5, 8, 10, 11} : e <= k})

Coefficients ==
    IF Total(cluster) <= FewVertices THEN Quantised
    ELSE {Assignment(LAMBDA k : k % S), Assignment(Halving), Assignment(Fibonacci)}

Coded ==
    /\ stage = "final" /\ EachParentsOnce /\ step = "idle"
    /\ \/ \E values \in Coefficients \cap Quantised : StartStream(values)
       \/ CodecStep
    /\ UNCHANGED <<forest, layout, louds, next>>

Next == BuildForest \/ EncodeVertex \/ ForestBuilt \/ Layout \/ Louds \/ Coded

Spec == Init /\ [][Next]_vars

=============================================================================
