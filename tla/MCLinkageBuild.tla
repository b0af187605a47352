---------------------------- MODULE MCLinkageBuild ----------------------------
(* A small instance of LinkageBuild: two workers, one empty cluster, streams
   of zero, one and two bytes. *)
EXTENDS LinkageBuild, TLC

MCNReal == [c \in Cids |-> c]

MCPayloadBytes ==
    [x \in Knobs \X Cids \X Streams |-> IF x[2] = 0 /\ x[3] = 1 THEN 0 ELSE x[2] + 1]

MCSymmetry == Permutations(Workers)
=============================================================================
