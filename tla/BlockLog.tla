------------------------------- MODULE BlockLog -------------------------------
(***************************************************************************)
(* What EncodeBaseStreaming promises whoever reads the base_basic store:   *)
(* an ordered log.  The tiles of the vectors are appended one after the    *)
(* other, from the first tile the run is asked for; a commit covers what   *)
(* has been appended and never moves back; a run that returns true has     *)
(* appended every tile, and committed them all if it commits.              *)
(*                                                                         *)
(* The threads, queues and buffers of the encoder are in                   *)
(* EncodeBaseStreaming, which implements this module.                      *)
(***************************************************************************)
EXTENDS Integers

CONSTANT End        \* number of tiles of the data set

VARIABLES
    start,          \* first tile of this run
    appended,       \* the tiles before this one are in the store
    committed,      \* the tiles before this one are covered by a commit
    commits,        \* whether this run commits
    status          \* "running", "true" or "false": what the call returned

ledger == <<start, appended, committed, commits, status>>

Init ==
    /\ start \in 0 .. End
    /\ appended = start
    /\ committed = start
    /\ commits \in BOOLEAN
    /\ status = "running"

\* AppendBlock, of a tile or of a whole block.
Extend ==
    /\ status = "running"
    /\ appended' \in appended + 1 .. End
    /\ UNCHANGED <<start, committed, commits, status>>

\* The commit hook, which runs only over what has been appended.
Commit ==
    /\ status = "running" /\ commits
    /\ committed' \in committed .. appended
    /\ UNCHANGED <<start, appended, commits, status>>

\* The hybrid path commits a block as part of writing it out.
ExtendAndCommit ==
    /\ status = "running" /\ commits
    /\ appended' \in appended + 1 .. End
    /\ committed' = appended'
    /\ UNCHANGED <<start, commits, status>>

Return ==
    /\ status = "running"
    /\ \/ status' = "false"
       \/ /\ status' = "true"
          /\ appended = End
          /\ commits => committed = End
    /\ UNCHANGED <<start, appended, committed, commits>>

Next == Extend \/ Commit \/ ExtendAndCommit \/ Return

Spec == Init /\ [][Next]_ledger
===============================================================================
