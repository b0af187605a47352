---------------------------- MODULE ClusterPrefetch ----------------------------
(***************************************************************************)
(* AsyncClusterPrefetcher: one thread reads the clusters ahead of the      *)
(* OpenMP team into a bounded queue, the workers of the team pop them, and *)
(* the thread that opened the parallel region stops the prefetcher when    *)
(* the team has drained.                                                   *)
(*                                                                         *)
(* The grain is that of the mutex and the condition variables: a waiting   *)
(* consumer evaluates its predicate under mu_ and then blocks, in two      *)
(* steps, because done_ and ok change without mu_ and the final notify_all *)
(* is issued without it.  The predicate of the producer is evaluated and   *)
(* the producer blocked in one step: who notifies it holds mu_.  Spurious  *)
(* wake-ups, which only re-evaluate a predicate, are left out.             *)
(*                                                                         *)
(* Source: src/linkage/linkage_streaming_support.cpp, and the head of the  *)
(* worker loop in src/linkage/linkage_base_streaming_builder.cpp.          *)
(***************************************************************************)
EXTENDS Integers, Sequences, FiniteSets

CONSTANTS
    NList,      \* number of clusters
    Workers,    \* the OpenMP team
    Depths      \* the depths of the queue runs are started with

Cids == 0 .. NList - 1

ASSUME PrefetchAssumption ==
    /\ NList \in Nat \ {0}
    /\ Depths \subseteq Nat \ {0}      \* depth_ = max(1, depth)
    /\ IsFiniteSet(Workers) /\ Workers # {}

VARIABLES
    skip,       \* resume_done_snapshot: the clusters done before this run
    depth,      \* depth_: cfg.runtime.linkage_async_io_depth
    next,       \* cid of the prefetcher's loop
    queue,      \* queue_
    stop,       \* stop_
    done,       \* done_
    ok,         \* the team's failure flag
    published,  \* clusters marked done in this run
    producer,   \* control point of the prefetch thread
    pc, cid,    \* control point and cluster of a worker
    master      \* control point of the thread that opened the region

team == <<published, pc, cid>>
vars == <<skip, depth, next, queue, stop, done, ok, published, producer, pc, cid, master>>

TypeOK ==
    /\ skip \subseteq Cids
    /\ depth \in Depths
    /\ next \in 0 .. NList
    /\ queue \in Seq(Cids) /\ Len(queue) <= depth
    /\ stop \in BOOLEAN /\ done \in BOOLEAN /\ ok \in BOOLEAN
    /\ published \subseteq Cids
    /\ producer \in {"open", "loop", "push", "full", "finish", "notify", "exit"}
    /\ pc \in [Workers -> {"top", "pop", "blocking", "waiting", "busy", "exit"}]
    /\ cid \in [Workers -> Cids]
    /\ master \in {"region", "stopping", "joining", "returned"}

Init ==
    /\ skip \in SUBSET Cids
    /\ depth \in Depths
    /\ next = 0
    /\ queue = <<>>
    /\ stop = FALSE /\ done = FALSE /\ ok = TRUE
    /\ published = {}
    /\ producer = "open"
    /\ pc = [w \in Workers |-> "top"]
    /\ cid = [w \in Workers |-> 0]
    /\ master = "region"

\* A consumer between its predicate and its wait holds mu_.
MutexFree == \A w \in Workers : pc[w] # "blocking"

Goto(w, point) == pc' = [pc EXCEPT ![w] = point]

\* notify_one and notify_all on cv_not_empty_: they reach those who wait now.
Waiting == {w \in Workers : pc[w] = "waiting"}

NotifyOneConsumer ==
    IF Waiting = {} THEN UNCHANGED pc ELSE \E w \in Waiting : Goto(w, "pop")

NotifyAllConsumers ==
    pc' = [w \in Workers |-> IF w \in Waiting THEN "pop" ELSE pc[w]]

-----------------------------------------------------------------------------
(* AsyncClusterPrefetcher::Run *)

\* Fail, then done_ and the notification: the readers do not open.
OpenReaders ==
    /\ producer = "open"
    /\ \/ producer' = "loop" /\ UNCHANGED ok
       \/ producer' = "finish" /\ ok' = FALSE
    /\ UNCHANGED <<skip, depth, next, queue, stop, done, team, master>>

\* Seeded bug: the last cluster is not read.
ReadAllButLast ==
    /\ producer = "loop"
    /\ \/ /\ stop \/ ~ok \/ next >= NList - 1
          /\ producer' = "finish"
          /\ UNCHANGED <<next, ok>>
       \/ /\ ~stop /\ ok /\ next < NList - 1 /\ next \in skip
          /\ next' = next + 1
          /\ UNCHANGED <<producer, ok>>
       \/ /\ ~stop /\ ok /\ next < NList - 1 /\ next \notin skip
          /\ \/ producer' = "push" /\ UNCHANGED ok
             \/ producer' = "finish" /\ ok' = FALSE
          /\ UNCHANGED next
    /\ UNCHANGED <<skip, depth, queue, stop, done, team, master>>

\* Seeded bug: the clusters done before are read again.
ReadIgnoresSkip ==
    /\ producer = "loop"
    /\ \/ /\ stop \/ ~ok \/ next = NList
          /\ producer' = "finish"
          /\ UNCHANGED ok
       \/ /\ ~stop /\ ok /\ next \in Cids
          /\ \/ producer' = "push" /\ UNCHANGED ok
             \/ producer' = "finish" /\ ok' = FALSE
    /\ UNCHANGED <<skip, depth, next, queue, stop, done, team, master>>

\* One turn of the loop up to the lock: leave, skip a done cluster, or read.
ReadCluster ==
    /\ producer = "loop"
    /\ \/ /\ stop \/ ~ok \/ next = NList
          /\ producer' = "finish"
          /\ UNCHANGED <<next, ok>>
       \/ /\ ~stop /\ ok /\ next \in skip
          /\ next' = next + 1
          /\ UNCHANGED <<producer, ok>>
       \/ /\ ~stop /\ ok /\ next \in Cids \ skip
          /\ \/ producer' = "push" /\ UNCHANGED ok
             \/ producer' = "finish" /\ ok' = FALSE     \* a read failed
          /\ UNCHANGED next
    /\ UNCHANGED <<skip, depth, queue, stop, done, team, master>>

\* Seeded bug: the queue holds one cluster more than its depth.
PushOneTooMany ==
    /\ producer = "push"
    /\ MutexFree
    /\ \/ /\ stop \/ ~ok
          /\ producer' = "finish"
          /\ UNCHANGED <<next, queue, pc>>
       \/ /\ ~stop /\ ok /\ Len(queue) <= depth
          /\ queue' = Append(queue, next)
          /\ next' = next + 1
          /\ producer' = "loop"
          /\ NotifyOneConsumer
       \/ /\ ~stop /\ ok /\ Len(queue) > depth
          /\ producer' = "full"
          /\ UNCHANGED <<next, queue, pc>>
    /\ UNCHANGED <<skip, depth, stop, done, ok, published, cid, master>>

\* Under mu_: give up, push and notify one consumer, or wait on cv_not_full_.
PushCluster ==
    /\ producer = "push"
    /\ MutexFree
    /\ \/ /\ stop \/ ~ok
          /\ producer' = "finish"
          /\ UNCHANGED <<next, queue, pc>>
       \/ /\ ~stop /\ ok /\ Len(queue) < depth
          /\ queue' = Append(queue, next)
          /\ next' = next + 1
          /\ producer' = "loop"
          /\ NotifyOneConsumer
       \/ /\ ~stop /\ ok /\ Len(queue) >= depth
          /\ producer' = "full"
          /\ UNCHANGED <<next, queue, pc>>
    /\ UNCHANGED <<skip, depth, stop, done, ok, published, cid, master>>

\* done_.store(true), without mu_.
SetDone ==
    /\ producer = "finish"
    /\ done' = TRUE
    /\ producer' = "notify"
    /\ UNCHANGED <<skip, depth, next, queue, stop, ok, team, master>>

\* cv_not_empty_.notify_all(), without mu_; the thread returns.
NotifyDone ==
    /\ producer = "notify"
    /\ NotifyAllConsumers
    /\ producer' = "exit"
    /\ UNCHANGED <<skip, depth, next, queue, stop, done, ok, published, cid, master>>

Producer == OpenReaders \/ ReadCluster \/ PushCluster \/ SetDone \/ NotifyDone

-----------------------------------------------------------------------------
(* The workers *)

\* The head of the worker's loop.
LoopHead(w) ==
    /\ pc[w] = "top"
    /\ Goto(w, IF ok THEN "pop" ELSE "exit")
    /\ UNCHANGED <<skip, depth, next, queue, stop, done, ok, published, producer, cid, master>>

\* Seeded bug: a consumer leaves when the prefetcher is done, not when the
\* queue is empty too.
PopLeavesWhenDone(w) ==
    /\ pc[w] = "pop"
    /\ MutexFree
    /\ \/ /\ ~stop /\ ok /\ ~done /\ queue # <<>>
          /\ cid' = [cid EXCEPT ![w] = Head(queue)]
          /\ queue' = Tail(queue)
          /\ producer' = IF producer = "full" THEN "push" ELSE producer
          /\ Goto(w, "busy")
       \/ /\ stop \/ ~ok \/ done
          /\ Goto(w, "exit")
          /\ UNCHANGED <<queue, producer, cid>>
    /\ UNCHANGED <<skip, depth, next, stop, done, ok, published, master>>

\* Seeded bug: the consumer that makes room does not notify cv_not_full_.
PopDoesNotNotify(w) ==
    /\ pc[w] = "pop"
    /\ MutexFree
    /\ \/ /\ ~stop /\ ok /\ queue # <<>>
          /\ cid' = [cid EXCEPT ![w] = Head(queue)]
          /\ queue' = Tail(queue)
          /\ Goto(w, "busy")
       \/ /\ stop \/ ~ok \/ (queue = <<>> /\ done)
          /\ Goto(w, "exit")
          /\ UNCHANGED <<queue, cid>>
       \/ /\ ~stop /\ ok /\ queue = <<>> /\ ~done
          /\ Goto(w, "blocking")
          /\ UNCHANGED <<queue, cid>>
    /\ UNCHANGED <<skip, depth, next, stop, done, ok, published, producer, master>>

\* Seeded bug: the queue is served from its new end.
PopNewest(w) ==
    /\ pc[w] = "pop"
    /\ MutexFree
    /\ \/ /\ ~stop /\ ok /\ queue # <<>>
          /\ cid' = [cid EXCEPT ![w] = queue[Len(queue)]]
          /\ queue' = SubSeq(queue, 1, Len(queue) - 1)
          /\ producer' = IF producer = "full" THEN "push" ELSE producer
          /\ Goto(w, "busy")
       \/ /\ stop \/ ~ok \/ (queue = <<>> /\ done)
          /\ Goto(w, "exit")
          /\ UNCHANGED <<queue, producer, cid>>
       \/ /\ ~stop /\ ok /\ queue = <<>> /\ ~done
          /\ Goto(w, "blocking")
          /\ UNCHANGED <<queue, producer, cid>>
    /\ UNCHANGED <<skip, depth, next, stop, done, ok, published, master>>

\* Pop under mu_, from the predicate of the wait to the return.
Pop(w) ==
    /\ pc[w] = "pop"
    /\ MutexFree
    /\ \/ /\ ~stop /\ ok /\ queue # <<>>
          /\ cid' = [cid EXCEPT ![w] = Head(queue)]
          /\ queue' = Tail(queue)
          /\ producer' = IF producer = "full" THEN "push" ELSE producer
          /\ Goto(w, "busy")
       \/ /\ stop \/ ~ok \/ (queue = <<>> /\ done)
          /\ Goto(w, "exit")
          /\ UNCHANGED <<queue, producer, cid>>
       \/ /\ ~stop /\ ok /\ queue = <<>> /\ ~done
          /\ Goto(w, "blocking")
          /\ UNCHANGED <<queue, producer, cid>>
    /\ UNCHANGED <<skip, depth, next, stop, done, ok, published, master>>

\* The consumer joins the wait set and releases mu_.
Block(w) ==
    /\ pc[w] = "blocking"
    /\ Goto(w, "waiting")
    /\ UNCHANGED <<skip, depth, next, queue, stop, done, ok, published, producer, cid, master>>

\* The cluster is built and marked done, or fail() is called, which notifies nobody.
ProcessCluster(w) ==
    /\ pc[w] = "busy"
    /\ \/ published' = published \cup {cid[w]} /\ UNCHANGED ok
       \/ ok' = FALSE /\ UNCHANGED published
    /\ Goto(w, "top")
    /\ UNCHANGED <<skip, depth, next, queue, stop, done, producer, cid, master>>

Worker(w) == LoopHead(w) \/ Pop(w) \/ Block(w) \/ ProcessCluster(w)

-----------------------------------------------------------------------------
(* Stop, called after the barrier of the parallel region *)

StopFlag ==
    /\ master = "region"
    /\ \A w \in Workers : pc[w] = "exit"
    /\ stop' = TRUE
    /\ master' = "stopping"
    /\ UNCHANGED <<skip, depth, next, queue, done, ok, team, producer>>

StopNotify ==
    /\ master = "stopping"
    /\ MutexFree
    /\ NotifyAllConsumers
    /\ producer' = IF producer = "full" THEN "push" ELSE producer
    /\ master' = "joining"
    /\ UNCHANGED <<skip, depth, next, queue, stop, done, ok, published, cid>>

Join ==
    /\ master = "joining"
    /\ producer = "exit"
    /\ master' = "returned"
    /\ UNCHANGED <<skip, depth, next, queue, stop, done, ok, team, producer>>

Master == StopFlag \/ StopNotify \/ Join

Next == Producer \/ (\E w \in Workers : Worker(w)) \/ Master

Spec == Init /\ [][Next]_vars

\* Every thread that can run is run; a mutex that is free is granted.
Fairness ==
    /\ WF_vars(Producer)
    /\ \A w \in Workers : WF_vars(Worker(w))
    /\ WF_vars(Master)

FairSpec == Spec /\ Fairness

-----------------------------------------------------------------------------
Holders(c) == {w \in Workers : pc[w] = "busy" /\ cid[w] = c}
Queued(c) == {i \in DOMAIN queue : queue[i] = c}

(* While nothing failed, every cluster the prefetcher has passed is in
   exactly one place: published, with one worker, or in the queue once; a
   cluster it has not passed, or that an earlier run finished, is in none. *)
EveryClusterOnce ==
    ok => \A c \in Cids :
        Cardinality(Holders(c)) + Cardinality(Queued(c))
          + (IF c \in published THEN 1 ELSE 0)
        = IF c < next /\ c \notin skip THEN 1 ELSE 0

(* The answer "no more clusters" is never given early: a build that returns
   without an error has published or skipped every cluster. *)
NothingLost == master = "returned" /\ ok => published = Cids \ skip

(* The queue is served in order: a worker is handed a cluster only after all
   lower ones of this run were handed out, as with the shared counter that
   replaces the prefetcher when it is switched off. *)
HandedInOrder ==
    [][\A w \in Workers : pc[w] = "pop" /\ pc'[w] = "busy" =>
          \A c \in Cids \ skip : c < cid'[w] => c \in published \/ Holders(c) # {}]_vars

(* A worker sleeps and nobody is left to wake it: either the prefetcher's
   only notification went by between the worker's predicate and its wait, or a
   sibling failed while the prefetcher waits for room in the queue, and the
   consumer that would have made room left instead. *)
Stranded ==
    /\ Waiting # {}
    /\ \A w \in Workers \ Waiting : pc[w] = "exit"
    /\ \/ producer = "exit"
       \/ producer = "full" /\ ~ok

(* Those two are the only ways in which the build can hang: from any other
   course of events the region ends and Stop joins the prefetcher. *)
EndsUnlessStranded == <>(master = "returned" \/ Stranded)

(* Without a failure only the lost final notification is left, and it can
   strand a worker only after all the work was handed out. *)
StrandedWorkIsDone == Stranded /\ ok => published = Cids \ skip
=============================================================================
