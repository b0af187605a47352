----------------------------- MODULE MCBaseStores -----------------------------
(***************************************************************************)
(* A small instance of BaseStores: six vectors in blocks of two, shards of *)
(* four, three clusters in two buckets.  Every block writes to the first   *)
(* bucket, and the last block alone to the second: no checkpoint but the   *)
(* last one covers a record of it.                                         *)
(***************************************************************************)
EXTENDS BaseStores, TLC

MCCluster == 0 :> 0 @@ 1 :> 1 @@ 2 :> 1 @@ 3 :> 0 @@ 4 :> 2 @@ 5 :> 1

\* The cleanup presets none, dev_all and eval_both.
All == {"basic", "cid", "ivf", "list", "raw"}
Presets == {All, {"ivf", "list", "raw"}, {}}

\* Encoding with and without a checkpoint or protection, for the linkage build;
\* and runs that only use what is there.
MCSettings ==
    {[encode |-> e, ckpt |-> c, protect |-> p, use |-> u, keep |-> k] :
        e \in BOOLEAN, c \in BOOLEAN, p \in BOOLEAN,
        u \in {"eval", "link"}, k \in Presets}
=============================================================================
