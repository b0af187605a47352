----------------------------- MODULE ClusterLedger -----------------------------
(***************************************************************************)
(* What the checkpointed linkage build promises a reader of its directory, *)
(* without workers, files, failures or restarts: clusters are published    *)
(* one at a time, each once and for all with the settings that encoded it, *)
(* and the store is sealed when nothing is missing.                        *)
(***************************************************************************)
CONSTANTS Cids, Knobs, None

VARIABLES
    published,      \* the settings a readable cluster was encoded with
    sealed          \* the store is announced as complete

vars == <<published, sealed>>

Init ==
    /\ published = [c \in Cids |-> None]
    /\ sealed = FALSE

Publish(c) ==
    /\ published[c] = None
    /\ \E q \in Knobs : published' = [published EXCEPT ![c] = q]
    /\ UNCHANGED sealed

Seal ==
    /\ \A c \in Cids : published[c] # None
    /\ sealed' = TRUE
    /\ UNCHANGED published

Next == (\E c \in Cids : Publish(c)) \/ Seal

Spec == Init /\ [][Next]_vars
=============================================================================
