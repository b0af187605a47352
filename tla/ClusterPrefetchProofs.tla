------------------------ MODULE ClusterPrefetchProofs ------------------------
(***************************************************************************)
(* ClusterPrefetch's invariants, for any number of clusters and workers    *)
(* and any depth of the queue.  The counting in EveryClusterOnce is proved *)
(* last, from an invariant that only speaks of places.  StrandedWorkIsDone *)
(* needs the third conjunct of Progress: as long as the queue holds a      *)
(* cluster and nothing failed, somebody is awake to take it, because every *)
(* push wakes one of the sleepers and the mutex keeps a worker from going  *)
(* to sleep between its look at the queue and the wait.                    *)
(***************************************************************************)
EXTENDS ClusterPrefetch, FiniteSetTheorems, TLAPS

Held(c) == \E w \in Workers : pc[w] = "busy" /\ cid[w] = c
Waits(c) == \E i \in 1 .. Len(queue) : queue[i] = c
Handed(c) == c \in published \/ Held(c)

(* Who may be where: the region ends only when the team has left it, and the
   prefetcher says it is done after its last push. *)
Control ==
    /\ stop <=> master # "region"
    /\ master # "region" => \A w \in Workers : pc[w] = "exit"
    /\ done <=> producer \in {"notify", "exit"}
    /\ producer \in {"push", "full"} => next \in Cids \ skip

(* EveryClusterOnce without its counting: each cluster the prefetcher passed
   is published, held or queued, and nothing is in two places. *)
Places ==
    /\ \A c \in Cids : Handed(c) \/ Waits(c) <=> c < next /\ c \notin skip
    /\ \A c \in Cids : ~(c \in published /\ Held(c)) /\ ~(Handed(c) /\ Waits(c))
    /\ \A v, w \in Workers : pc[v] = "busy" /\ pc[w] = "busy" /\ cid[v] = cid[w] => v = w
    /\ \A i, j \in 1 .. Len(queue) : i < j => queue[i] < queue[j]

(* What makes an exit or a sleep harmless while nothing failed. *)
Progress ==
    /\ \A w \in Workers : pc[w] = "exit" => queue = <<>> /\ done
    /\ producer \in {"finish", "notify", "exit"} => next = NList
    /\ queue # <<>> => \E w \in Workers : pc[w] \in {"top", "pop", "busy"}

IInv == TypeOK /\ Control /\ (ok => Places /\ Progress)

-----------------------------------------------------------------------------
LEMMA ConstFacts ==
    /\ NList \in Nat /\ NList > 0 /\ Depths \subseteq Nat \ {0}
    /\ Workers # {} /\ IsFiniteSet(Workers)
    /\ Cids \subseteq Nat
    /\ \A c : c \in Cids <=> c \in Nat /\ c < NList
  BY PrefetchAssumption DEF Cids

LEMMA InitHolds == Init => IInv
  <1> SUFFICES ASSUME Init PROVE IInv
    OBVIOUS
  <1>1. queue = <<>> /\ Len(queue) = 0 /\ next = 0 /\ 0 \in Cids /\ 0 \in 0 .. NList
    BY ConstFacts DEF Init
  <1>2. TypeOK
    <2>1. cid \in [Workers -> Cids]
      BY <1>1 DEF Init
    <2>2. skip \subseteq Cids /\ published \subseteq Cids
      BY DEF Init
    <2>3. queue \in Seq(Cids) /\ Len(queue) <= depth
      BY <1>1, ConstFacts DEF Init
    <2> QED BY <1>1, <2>1, <2>2, <2>3 DEF Init, TypeOK
  <1>3. Control
    BY DEF Init, Control
  <1>4. \A c : ~Held(c) /\ ~Waits(c) /\ c \notin published
    BY <1>1 DEF Init, Held, Waits
  <1>5. Places
    BY <1>1, <1>4, ConstFacts DEF Init, Places, Handed
  <1>6. Progress
    BY <1>1 DEF Init, Progress
  <1> QED BY <1>2, <1>3, <1>5, <1>6 DEF IInv

\* A step that hands nothing over leaves every cluster in its place.
LEMMA PlacesKept ==
    ASSUME Places,
           UNCHANGED <<skip, depth, next, queue, published, cid>>,
           \A w \in Workers : pc'[w] = "busy" <=> pc[w] = "busy"
    PROVE  Places'
  BY DEF Places, Handed, Held, Waits

\* A notification moves waiting workers to the predicate, and only those.
LEMMA NotifyFacts ==
    ASSUME TypeOK, NotifyOneConsumer \/ NotifyAllConsumers
    PROVE  /\ pc' \in [Workers -> {"top", "pop", "blocking", "waiting", "busy", "exit"}]
           /\ \A w \in Workers : pc'[w] = pc[w] \/ (pc[w] = "waiting" /\ pc'[w] = "pop")
           /\ NotifyOneConsumer /\ Waiting # {} => \E w \in Workers : pc'[w] = "pop"
  <1>1. pc \in [Workers -> {"top", "pop", "blocking", "waiting", "busy", "exit"}]
    BY DEF TypeOK
  <1>2. CASE NotifyAllConsumers
    <2>1. pc' = [w \in Workers |-> IF w \in Waiting THEN "pop" ELSE pc[w]]
      BY <1>2 DEF NotifyAllConsumers
    <2>2. \A w \in Waiting : w \in Workers /\ pc[w] = "waiting"
      BY DEF Waiting
    <2>3. NotifyOneConsumer /\ Waiting # {} => \E w \in Workers : pc'[w] = "pop"
      BY <2>1, <2>2
    <2> QED BY <1>1, <2>1, <2>2, <2>3
  <1>3. CASE NotifyOneConsumer /\ Waiting = {}
    BY <1>1, <1>3 DEF NotifyOneConsumer
  <1>4. CASE NotifyOneConsumer /\ Waiting # {}
    <2>1. PICK w \in Waiting : pc' = [pc EXCEPT ![w] = "pop"]
      BY <1>4 DEF NotifyOneConsumer, Goto
    <2>2. w \in Workers /\ pc[w] = "waiting"
      BY DEF Waiting
    <2> QED BY <1>1, <2>1, <2>2
  <1> QED BY <1>2, <1>3, <1>4

-----------------------------------------------------------------------------
(* The prefetch thread *)

LEMMA OpenReadersKeeps == ASSUME IInv, OpenReaders PROVE IInv'
  <1>1. TypeOK'
    BY DEF IInv, OpenReaders, TypeOK, team
  <1>2. Control'
    BY DEF IInv, OpenReaders, Control, team
  <1>3. ok' => Places'
    BY PlacesKept DEF IInv, OpenReaders, team
  <1>4. ok' => Progress'
    BY DEF IInv, OpenReaders, Progress, team
  <1> QED BY <1>1, <1>2, <1>3, <1>4 DEF IInv

\* While nothing failed the prefetcher is not stopped before it is done.
LEMMA NotStopped ==
    ASSUME IInv, ok, producer \notin {"notify", "exit"}
    PROVE  ~stop
  <1>1. PICK w \in Workers : TRUE
    BY ConstFacts
  <1> QED BY <1>1 DEF IInv, Control, Progress

LEMMA ReadClusterKeeps == ASSUME IInv, ReadCluster PROVE IInv'
  <1>1. TypeOK /\ Control /\ UNCHANGED <<skip, depth, queue, stop, done, published, pc, cid, master>>
        /\ producer = "loop"
    BY DEF IInv, ReadCluster, team
  <1>2. CASE (stop \/ ~ok \/ next = NList) /\ producer' = "finish" /\ UNCHANGED <<next, ok>>
    <2>1. TypeOK' /\ Control'
      BY <1>1, <1>2 DEF TypeOK, Control
    <2>2. ok' => Places'
      BY <1>1, <1>2, PlacesKept DEF IInv
    <2>3. ok' => Progress'
      BY <1>1, <1>2, NotStopped DEF IInv, Progress
    <2> QED BY <2>1, <2>2, <2>3 DEF IInv
  <1>3. CASE ok /\ next \in skip /\ next' = next + 1 /\ UNCHANGED <<producer, ok>>
    <2>1. next \in Cids
      BY <1>1, <1>3 DEF TypeOK
    <2>2. next' \in 0 .. NList
      BY <1>3, <2>1, ConstFacts
    <2>3. TypeOK' /\ Control'
      BY <1>1, <1>3, <2>2 DEF TypeOK, Control
    <2>4. \A c \in Cids : c < next' /\ c \notin skip <=> c < next /\ c \notin skip
      BY <1>3, <2>1, ConstFacts
    <2>5. Places'
      BY <1>1, <1>3, <2>4 DEF IInv, Places, Handed, Held, Waits
    <2>6. Progress'
      BY <1>1, <1>3 DEF IInv, Progress
    <2> QED BY <2>3, <2>5, <2>6 DEF IInv
  <1>4. CASE next \in Cids \ skip /\ producer' = "push" /\ UNCHANGED <<next, ok>>
    <2>1. TypeOK' /\ Control'
      BY <1>1, <1>4 DEF TypeOK, Control
    <2>2. ok' => Places'
      BY <1>1, <1>4, PlacesKept DEF IInv
    <2>3. ok' => Progress'
      BY <1>1, <1>4 DEF IInv, Progress
    <2> QED BY <2>1, <2>2, <2>3 DEF IInv
  <1>5. CASE producer' = "finish" /\ ok' = FALSE /\ UNCHANGED next
    BY <1>1, <1>5 DEF IInv, TypeOK, Control
  <1> QED BY <1>2, <1>3, <1>4, <1>5 DEF ReadCluster

LEMMA PushKeeps ==
    ASSUME IInv, producer = "push", MutexFree, ok, Len(queue) < depth,
           queue' = Append(queue, next), next' = next + 1, producer' = "loop",
           NotifyOneConsumer, UNCHANGED <<skip, depth, stop, done, ok, published, cid, master>>
    PROVE  IInv'
  <1>1. TypeOK /\ Control /\ Places /\ Progress /\ next \in Cids \ skip
    BY DEF IInv, Control
  <1>2. /\ queue \in Seq(Cids) /\ Len(queue) \in Nat
        /\ queue' \in Seq(Cids) /\ Len(queue') = Len(queue) + 1
        /\ \A i \in 1 .. Len(queue) : queue'[i] = queue[i] /\ queue[i] \in Cids
        /\ queue'[Len(queue) + 1] = next
    BY <1>1 DEF TypeOK
  <1>3. \A i \in 1 .. Len(queue') : i \in 1 .. Len(queue) \/ i = Len(queue) + 1
    BY <1>2
  <1>4. TypeOK'
    <2>0. depth \in Nat
      BY <1>1, ConstFacts DEF TypeOK
    <2>1. Len(queue') <= depth /\ next' \in 0 .. NList
      BY <1>1, <1>2, <2>0, ConstFacts
    <2> QED BY <1>1, <1>2, <2>1, NotifyFacts DEF TypeOK
  <1>5. \A w \in Workers : (pc'[w] = "busy" <=> pc[w] = "busy") /\ (pc'[w] = "exit" <=> pc[w] = "exit")
    BY <1>1, NotifyFacts
  <1>6. Control'
    BY <1>1, <1>5 DEF Control
  <1>7. \A c : (Held(c)' <=> Held(c)) /\ (Handed(c)' <=> Handed(c))
    BY <1>5 DEF Held, Handed
  <1>8. \A c : Waits(c)' <=> Waits(c) \/ c = next
    BY <1>2, <1>3 DEF Waits
  <1>9. ~Handed(next) /\ ~Waits(next)
    BY <1>1, ConstFacts DEF Places
  <1>10. \A c \in Cids : c < next' /\ c \notin skip <=> (c < next /\ c \notin skip) \/ c = next
    BY <1>1, ConstFacts
  <1>11. Places'
    <2>1. \A c \in Cids : Handed(c)' \/ Waits(c)' <=> c < next' /\ c \notin skip
      BY <1>1, <1>7, <1>8, <1>10 DEF Places
    <2>2. \A c \in Cids : ~(c \in published /\ Held(c)') /\ ~(Handed(c)' /\ Waits(c)')
      BY <1>1, <1>7, <1>8, <1>9 DEF Places
    <2>3. \A v, w \in Workers : pc'[v] = "busy" /\ pc'[w] = "busy" /\ cid[v] = cid[w] => v = w
      BY <1>1, <1>5 DEF Places
    <2>4. \A i \in 1 .. Len(queue) : queue[i] < next
      BY <1>1, <1>2 DEF Places, Waits
    <2>5. \A i, j \in 1 .. Len(queue') : i < j => queue'[i] < queue'[j]
      <3> SUFFICES ASSUME NEW i \in 1 .. Len(queue'), NEW j \in 1 .. Len(queue'), i < j
                   PROVE  queue'[i] < queue'[j]
        OBVIOUS
      <3>1. i \in 1 .. Len(queue)
        BY <1>2
      <3>2. CASE j \in 1 .. Len(queue)
        BY <1>1, <1>2, <3>1, <3>2 DEF Places
      <3>3. CASE j = Len(queue) + 1
        BY <1>2, <2>4, <3>1, <3>3
      <3> QED BY <1>3, <3>2, <3>3
    <2> QED BY <2>1, <2>2, <2>3, <2>5 DEF Places
  <1>12. Progress'
    <2>1. ~done
      BY <1>1 DEF Control
    <2>2. \A w \in Workers : pc[w] # "exit"
      BY <1>1, <2>1 DEF Progress
    <2>3. \E w \in Workers : pc'[w] \in {"top", "pop", "busy"}
      <3>1. CASE Waiting # {}
        BY <1>1, <3>1, NotifyFacts
      <3>2. CASE Waiting = {}
        <4>1. PICK w \in Workers : TRUE
          BY ConstFacts
        <4>2. pc[w] \in {"top", "pop", "busy"} /\ pc' = pc
          BY <1>1, <2>2, <3>2 DEF Waiting, MutexFree, TypeOK, NotifyOneConsumer
        <4> QED BY <4>2
      <3> QED BY <3>1, <3>2
    <2> QED BY <1>5, <2>2, <2>3 DEF Progress
  <1> QED BY <1>4, <1>6, <1>11, <1>12 DEF IInv

LEMMA PushClusterKeeps == ASSUME IInv, PushCluster PROVE IInv'
  <1>1. TypeOK /\ Control /\ UNCHANGED <<skip, depth, stop, done, ok, published, cid, master>>
        /\ producer = "push" /\ MutexFree
    BY DEF IInv, PushCluster
  <1>2. CASE (stop \/ ~ok) /\ producer' = "finish" /\ UNCHANGED <<next, queue, pc>>
    <2>1. TypeOK' /\ Control'
      BY <1>1, <1>2 DEF TypeOK, Control
    <2>2. ~ok
      BY <1>1, <1>2, NotStopped
    <2> QED BY <1>1, <2>1, <2>2 DEF IInv
  <1>3. CASE /\ ok /\ Len(queue) < depth /\ queue' = Append(queue, next)
             /\ next' = next + 1 /\ producer' = "loop" /\ NotifyOneConsumer
    BY <1>1, <1>3, PushKeeps
  <1>4. CASE producer' = "full" /\ UNCHANGED <<next, queue, pc>>
    <2>1. TypeOK' /\ Control'
      BY <1>1, <1>4 DEF TypeOK, Control
    <2>2. ok' => Places'
      BY <1>1, <1>4, PlacesKept DEF IInv
    <2>3. ok' => Progress'
      BY <1>1, <1>4 DEF IInv, Progress
    <2> QED BY <2>1, <2>2, <2>3 DEF IInv
  <1> QED BY <1>2, <1>3, <1>4 DEF PushCluster

LEMMA SetDoneKeeps == ASSUME IInv, SetDone PROVE IInv'
  <1>1. TypeOK' /\ Control'
    BY DEF IInv, SetDone, TypeOK, Control, team
  <1>2. ok' => Places'
    BY PlacesKept DEF IInv, SetDone, team
  <1>3. ok' => Progress'
    BY DEF IInv, SetDone, Progress, team
  <1> QED BY <1>1, <1>2, <1>3 DEF IInv

\* A step that does nothing but wake every sleeper, and perhaps the prefetcher.
LEMMA NotifyAllKeeps ==
    ASSUME IInv, NotifyAllConsumers,
           UNCHANGED <<skip, depth, next, queue, stop, done, ok, published, cid>>,
           TypeOK', Control',
           producer' \in {"finish", "notify", "exit"} => producer \in {"finish", "notify", "exit"}
    PROVE  IInv'
  <1>1. TypeOK
    BY DEF IInv
  <1>2. \A w \in Workers : pc'[w] = pc[w] \/ (pc[w] = "waiting" /\ pc'[w] = "pop")
    BY <1>1, NotifyFacts
  <1>3. ok' => Places'
    BY <1>2, PlacesKept DEF IInv
  <1>4. ok' => Progress'
    BY <1>2 DEF IInv, Progress
  <1> QED BY <1>3, <1>4 DEF IInv

LEMMA NotifyDoneKeeps == ASSUME IInv, NotifyDone PROVE IInv'
  <1>1. TypeOK' /\ Control'
    BY NotifyFacts DEF IInv, NotifyDone, TypeOK, Control
  <1> QED BY <1>1, NotifyAllKeeps DEF NotifyDone

-----------------------------------------------------------------------------
(* The workers *)

\* A worker that goes to its predicate, or with an empty queue towards the wait.
LEMMA MoveKeeps ==
    ASSUME IInv, NEW w \in Workers, NEW point \in {"pop", "blocking"},
           pc[w] \in {"top", "pop"}, Goto(w, point), point = "blocking" => queue = <<>>,
           UNCHANGED <<skip, depth, next, queue, stop, done, ok, published, producer, cid, master>>
    PROVE  IInv'
  <1>1. TypeOK /\ Control
    BY DEF IInv
  <1>2. \A v \in Workers : pc'[v] = IF v = w THEN point ELSE pc[v]
    BY <1>1 DEF Goto, TypeOK
  <1>3. pc' \in [Workers -> {"top", "pop", "blocking", "waiting", "busy", "exit"}]
    BY <1>1 DEF Goto, TypeOK
  <1>4. TypeOK'
    BY <1>1, <1>3 DEF TypeOK
  <1>5. Control'
    BY <1>1, <1>2 DEF Control
  <1>6. ok' => Places'
    BY <1>2, PlacesKept DEF IInv
  <1>7. ok' => Progress'
    BY <1>2 DEF IInv, Progress
  <1> QED BY <1>4, <1>5, <1>6, <1>7 DEF IInv

\* A worker that leaves the loop.
LEMMA ExitKeeps ==
    ASSUME IInv, NEW w \in Workers, pc[w] \in {"top", "pop"}, Goto(w, "exit"),
           ok => queue = <<>> /\ done,
           UNCHANGED <<skip, depth, next, queue, stop, done, ok, published, producer, cid, master>>
    PROVE  IInv'
  <1>1. TypeOK /\ Control
    BY DEF IInv
  <1>2. \A v \in Workers : pc'[v] = IF v = w THEN "exit" ELSE pc[v]
    BY <1>1 DEF Goto, TypeOK
  <1>3. pc' \in [Workers -> {"top", "pop", "blocking", "waiting", "busy", "exit"}]
    BY <1>1 DEF Goto, TypeOK
  <1>4. TypeOK' /\ Control'
    BY <1>1, <1>2, <1>3 DEF TypeOK, Control
  <1>5. ok' => Places'
    BY <1>2, PlacesKept DEF IInv
  <1>6. ok' => Progress'
    BY <1>2 DEF IInv, Progress
  <1> QED BY <1>4, <1>5, <1>6 DEF IInv

LEMMA LoopHeadKeeps == ASSUME IInv, NEW w \in Workers, LoopHead(w) PROVE IInv'
  <1>1. CASE ok
    BY <1>1, MoveKeeps DEF LoopHead
  <1>2. CASE ~ok
    BY <1>2, ExitKeeps DEF LoopHead
  <1> QED BY <1>1, <1>2

\* The head of the queue goes from the queue to the worker.
LEMMA TakeKeeps ==
    ASSUME IInv, NEW w \in Workers, pc[w] = "pop", ~stop, ok, queue # <<>>,
           cid' = [cid EXCEPT ![w] = Head(queue)], queue' = Tail(queue),
           producer' = IF producer = "full" THEN "push" ELSE producer,
           Goto(w, "busy"), UNCHANGED <<skip, depth, next, stop, done, ok, published, master>>
    PROVE  /\ IInv'
           /\ \A c \in Cids \ skip : c < cid'[w] => Handed(c)
  <1>0. PICK h : h = Head(queue)
    OBVIOUS
  <1>1. TypeOK /\ Control /\ Places /\ Progress
    BY DEF IInv
  <1>2. /\ queue \in Seq(Cids) /\ Len(queue) \in Nat \ {0} /\ h = queue[1] /\ h \in Cids
        /\ queue' \in Seq(Cids) /\ Len(queue') = Len(queue) - 1
        /\ \A i \in 1 .. Len(queue') : queue'[i] = queue[i + 1] /\ i + 1 \in 1 .. Len(queue)
    BY <1>0, <1>1 DEF TypeOK
  <1>3. /\ \A v \in Workers : pc'[v] = IF v = w THEN "busy" ELSE pc[v]
        /\ \A v \in Workers : cid'[v] = IF v = w THEN h ELSE cid[v]
    BY <1>0, <1>1 DEF Goto, TypeOK
  <1>4. TypeOK'
    <2>1. Len(queue') <= depth
      BY <1>1, <1>2, ConstFacts DEF TypeOK
    <2>2. pc' \in [Workers -> {"top", "pop", "blocking", "waiting", "busy", "exit"}]
      BY <1>1 DEF Goto, TypeOK
    <2>3. cid' \in [Workers -> Cids]
      BY <1>0, <1>1, <1>2 DEF TypeOK
    <2>4. producer' \in {"open", "loop", "push", "full", "finish", "notify", "exit"}
      BY <1>1 DEF TypeOK
    <2> QED BY <1>1, <1>2, <2>1, <2>2, <2>3, <2>4 DEF TypeOK
  <1>5. Control'
    BY <1>1 DEF Control
  <1>6. \A i \in 1 .. Len(queue) : i = 1 \/ (i - 1 \in 1 .. Len(queue') /\ queue'[i - 1] = queue[i])
    <2> SUFFICES ASSUME NEW i \in 1 .. Len(queue), i # 1
                 PROVE  i - 1 \in 1 .. Len(queue') /\ queue'[i - 1] = queue[i]
      OBVIOUS
    <2>1. i - 1 \in 1 .. Len(queue') /\ (i - 1) + 1 = i
      BY <1>2
    <2> QED BY <1>2, <2>1
  <1>7. \A c : Waits(c) <=> Waits(c)' \/ c = h
    <2>1. 1 \in 1 .. Len(queue)
      BY <1>2
    <2> QED BY <1>2, <1>6, <2>1 DEF Waits
  <1>8. ~Waits(h)'
    <2> SUFFICES ASSUME NEW i \in 1 .. Len(queue'), queue'[i] = h PROVE FALSE
      BY DEF Waits
    <2>1. 1 \in 1 .. Len(queue) /\ i + 1 \in 1 .. Len(queue) /\ 1 < i + 1
      BY <1>2
    <2>2. queue[1] < queue[i + 1]
      BY <1>1, <2>1 DEF Places
    <2> QED BY <1>2, <2>2, ConstFacts
  <1>9. \A c : Held(c)' <=> Held(c) \/ c = h
    BY <1>3 DEF Held
  <1>10. ~Handed(h)
    BY <1>1, <1>2, <1>7 DEF Places
  <1>11. Places'
    <2>1. \A c \in Cids : Handed(c)' \/ Waits(c)' <=> c < next' /\ c \notin skip'
      BY <1>1, <1>7, <1>9 DEF Places, Handed
    <2>2. \A c \in Cids : ~(c \in published' /\ Held(c)') /\ ~(Handed(c)' /\ Waits(c)')
      BY <1>1, <1>7, <1>8, <1>9, <1>10 DEF Places, Handed
    <2>3. \A v, u \in Workers : pc'[v] = "busy" /\ pc'[u] = "busy" /\ cid'[v] = cid'[u] => v = u
      BY <1>1, <1>3, <1>10 DEF Places, Handed, Held
    <2>4. \A i, j \in 1 .. Len(queue') : i < j => queue'[i] < queue'[j]
      <3> SUFFICES ASSUME NEW i \in 1 .. Len(queue'), NEW j \in 1 .. Len(queue'), i < j
                   PROVE  queue'[i] < queue'[j]
        OBVIOUS
      <3>1. i + 1 < j + 1 /\ i + 1 \in 1 .. Len(queue) /\ j + 1 \in 1 .. Len(queue)
        BY <1>2
      <3>2. queue[i + 1] < queue[j + 1]
        BY <1>1, <3>1 DEF Places
      <3> QED BY <1>2, <3>2
    <2> QED BY <2>1, <2>2, <2>3, <2>4 DEF Places
  <1>12. Progress'
    <2>1. \A v \in Workers : pc[v] # "exit"
      BY <1>1 DEF Progress
    <2>2. \A v \in Workers : pc'[v] # "exit"
      BY <1>3, <2>1
    <2>3. pc'[w] = "busy"
      BY <1>3
    <2> QED BY <1>1, <2>2, <2>3 DEF Progress
  <1>13. ASSUME NEW c \in Cids \ skip, c < cid'[w] PROVE Handed(c)
    <2>1. cid'[w] = h /\ Waits(h) /\ c < h /\ h < next
      <3>1. cid'[w] = h /\ Waits(h)
        BY <1>3, <1>7
      <3>2. h < next
        BY <1>1, <1>2, <3>1 DEF Places
      <3> QED BY <1>13, <3>1, <3>2
    <2>2. c < next
      BY <1>1, <1>2, <2>1, ConstFacts DEF TypeOK
    <2>3. ~Waits(c)
      <3> SUFFICES ASSUME NEW i \in 1 .. Len(queue), queue[i] = c PROVE FALSE
        BY DEF Waits
      <3>1. 1 \in 1 .. Len(queue) /\ (i = 1 \/ 1 < i)
        BY <1>2
      <3>2. queue[1] <= queue[i]
        BY <1>1, <1>2, <3>1, ConstFacts DEF Places
      <3> QED BY <1>2, <2>1, <3>2, ConstFacts
    <2> QED BY <1>1, <2>2, <2>3 DEF Places
  <1> QED BY <1>4, <1>5, <1>11, <1>12, <1>13 DEF IInv

LEMMA PopKeeps ==
    ASSUME IInv, NEW w \in Workers, Pop(w)
    PROVE  /\ IInv'
           /\ pc'[w] = "busy" => \A c \in Cids \ skip : c < cid'[w] => Handed(c)
  <1>1. TypeOK /\ pc[w] = "pop" /\ UNCHANGED <<skip, depth, next, stop, done, ok, published, master>>
    BY DEF IInv, Pop
  <1>2. CASE /\ ~stop /\ ok /\ queue # <<>>
             /\ cid' = [cid EXCEPT ![w] = Head(queue)] /\ queue' = Tail(queue)
             /\ producer' = IF producer = "full" THEN "push" ELSE producer
             /\ Goto(w, "busy")
    BY <1>1, <1>2, TakeKeeps
  <1>3. CASE /\ stop \/ ~ok \/ (queue = <<>> /\ done)
             /\ Goto(w, "exit") /\ UNCHANGED <<queue, producer, cid>>
    <2>1. ~stop
      BY <1>1 DEF IInv, Control
    <2>2. IInv'
      BY <1>1, <1>3, <2>1, ExitKeeps
    <2>3. pc'[w] = "exit"
      BY <1>1, <1>3 DEF Goto, TypeOK
    <2> QED BY <2>2, <2>3
  <1>4. CASE /\ queue = <<>> /\ Goto(w, "blocking") /\ UNCHANGED <<queue, producer, cid>>
    <2>1. IInv'
      BY <1>1, <1>4, MoveKeeps
    <2>2. pc'[w] = "blocking"
      BY <1>1, <1>4 DEF Goto, TypeOK
    <2> QED BY <2>1, <2>2
  <1> QED BY <1>2, <1>3, <1>4 DEF Pop

LEMMA BlockKeeps == ASSUME IInv, NEW w \in Workers, Block(w) PROVE IInv'
  <1>1. /\ pc[w] = "blocking" /\ Goto(w, "waiting") /\ TypeOK /\ Control
        /\ UNCHANGED <<skip, depth, next, queue, stop, done, ok, published, producer, cid, master>>
    BY DEF IInv, Block
  <1>2. \A v \in Workers : pc'[v] = IF v = w THEN "waiting" ELSE pc[v]
    BY <1>1 DEF Goto, TypeOK
  <1>3. pc' \in [Workers -> {"top", "pop", "blocking", "waiting", "busy", "exit"}]
    BY <1>1 DEF Goto, TypeOK
  <1>4. TypeOK' /\ Control'
    BY <1>1, <1>2, <1>3 DEF TypeOK, Control
  <1>5. ok' => Places'
    BY <1>1, <1>2, PlacesKept DEF IInv
  <1>6. ok' => Progress'
    BY <1>1, <1>2 DEF IInv, Progress
  <1> QED BY <1>4, <1>5, <1>6 DEF IInv

LEMMA ProcessClusterKeeps == ASSUME IInv, NEW w \in Workers, ProcessCluster(w) PROVE IInv'
  <1>1. /\ pc[w] = "busy" /\ Goto(w, "top") /\ TypeOK /\ Control /\ cid[w] \in Cids
        /\ UNCHANGED <<skip, depth, next, queue, stop, done, producer, cid, master>>
    BY DEF IInv, ProcessCluster, TypeOK
  <1>2. \A v \in Workers : pc'[v] = IF v = w THEN "top" ELSE pc[v]
    BY <1>1 DEF Goto, TypeOK
  <1>3. pc' \in [Workers -> {"top", "pop", "blocking", "waiting", "busy", "exit"}]
    BY <1>1 DEF Goto, TypeOK
  <1>4. TypeOK'
    BY <1>1, <1>3 DEF ProcessCluster, TypeOK
  <1>5. Control'
    BY <1>1, <1>2 DEF Control
  <1>6. ASSUME ok' PROVE Places' /\ Progress'
    <2>1. published' = published \cup {cid[w]} /\ ok /\ Places /\ Progress
      BY <1>6 DEF ProcessCluster, IInv
    <2>2. \A c : Held(c)' => Held(c) /\ c # cid[w]
      BY <1>1, <1>2, <2>1 DEF Held, Places
    <2>3. \A c : Held(c) => Held(c)' \/ c = cid[w]
      BY <1>1, <1>2 DEF Held
    <2>4. Held(cid[w])
      BY <1>1 DEF Held
    <2>5. \A c : Handed(c)' <=> Handed(c)
      BY <2>1, <2>2, <2>3, <2>4 DEF Handed
    <2>6. \A c : Waits(c)' <=> Waits(c)
      BY <1>1 DEF Waits
    <2>7. Places'
      <3>1. \A c \in Cids : Handed(c)' \/ Waits(c)' <=> c < next' /\ c \notin skip'
        BY <1>1, <2>1, <2>5, <2>6 DEF Places
      <3>2. \A c \in Cids : ~(c \in published' /\ Held(c)') /\ ~(Handed(c)' /\ Waits(c)')
        BY <2>1, <2>2, <2>5, <2>6 DEF Places
      <3>3. \A u, v \in Workers : pc'[u] = "busy" /\ pc'[v] = "busy" /\ cid'[u] = cid'[v] => u = v
        BY <1>1, <1>2, <2>1 DEF Places
      <3> QED BY <1>1, <2>1, <3>1, <3>2, <3>3 DEF Places
    <2>8. Progress'
      BY <1>1, <1>2, <2>1 DEF Progress
    <2> QED BY <2>7, <2>8
  <1> QED BY <1>4, <1>5, <1>6 DEF IInv

-----------------------------------------------------------------------------
(* The thread that opened the region *)

LEMMA MasterKeeps == ASSUME IInv, Master PROVE IInv'
  <1>1. CASE StopFlag
    <2>1. TypeOK' /\ Control'
      BY <1>1 DEF IInv, StopFlag, TypeOK, Control, team
    <2>2. ok' => Places'
      BY <1>1, PlacesKept DEF IInv, StopFlag, team
    <2>3. ok' => Progress'
      BY <1>1 DEF IInv, StopFlag, Progress, team
    <2> QED BY <2>1, <2>2, <2>3 DEF IInv
  <1>2. CASE StopNotify
    <2>1. TypeOK'
      BY <1>2, NotifyFacts DEF IInv, StopNotify, TypeOK
    <2>2. Control'
      <3>1. \A w \in Workers : pc[w] = "exit" => pc'[w] = "exit"
        BY <1>2, NotifyFacts DEF IInv, StopNotify
      <3> QED BY <1>2, <3>1 DEF IInv, StopNotify, Control
    <2> QED BY <1>2, <2>1, <2>2, NotifyAllKeeps DEF StopNotify
  <1>3. CASE Join
    <2>1. TypeOK' /\ Control'
      BY <1>3 DEF IInv, Join, TypeOK, Control, team
    <2>2. ok' => Places'
      BY <1>3, PlacesKept DEF IInv, Join, team
    <2>3. ok' => Progress'
      BY <1>3 DEF IInv, Join, Progress, team
    <2> QED BY <2>1, <2>2, <2>3 DEF IInv
  <1> QED BY <1>1, <1>2, <1>3 DEF Master

LEMMA StutterKeeps == ASSUME IInv, UNCHANGED vars PROVE IInv'
  <1>1. TypeOK' /\ Control'
    BY DEF IInv, vars, team, TypeOK, Control
  <1>2. ok' => Places' /\ Progress'
    BY PlacesKept DEF IInv, vars, team, Progress
  <1> QED BY <1>1, <1>2 DEF IInv

LEMMA NextKeeps == ASSUME IInv, [Next]_vars PROVE IInv'
  <1>1. CASE Producer
    BY <1>1, OpenReadersKeeps, ReadClusterKeeps, PushClusterKeeps, SetDoneKeeps, NotifyDoneKeeps
       DEF Producer
  <1>2. CASE \E w \in Workers : Worker(w)
    BY <1>2, LoopHeadKeeps, PopKeeps, BlockKeeps, ProcessClusterKeeps DEF Worker
  <1>3. CASE Master
    BY <1>3, MasterKeeps
  <1>4. CASE UNCHANGED vars
    BY <1>4, StutterKeeps
  <1> QED BY <1>1, <1>2, <1>3, <1>4 DEF Next

-----------------------------------------------------------------------------
(* From places to the properties *)

\* A set that holds all it holds once has no element or one.
LEMMA NoneOrOne ==
    ASSUME NEW S, \A x, y \in S : x = y
    PROVE  Cardinality(S) = IF S = {} THEN 0 ELSE 1
  <1>1. CASE S = {}
    BY <1>1, FS_EmptySet
  <1>2. CASE S # {}
    <2>1. PICK x \in S : TRUE
      BY <1>2
    <2>2. S = {x}
      BY <2>1
    <2>3. Cardinality({x}) = 1
      BY FS_Singleton
    <2> QED BY <1>2, <2>2, <2>3
  <1> QED BY <1>1, <1>2

LEMMA OnceFromPlaces == IInv => EveryClusterOnce
  <1> SUFFICES ASSUME IInv, ok, NEW c \in Cids
               PROVE  Cardinality(Holders(c)) + Cardinality(Queued(c))
                        + (IF c \in published THEN 1 ELSE 0)
                      = IF c < next /\ c \notin skip THEN 1 ELSE 0
    BY DEF EveryClusterOnce
  <1>1. Places /\ queue \in Seq(Cids)
    BY DEF IInv, TypeOK
  <1>2. Cardinality(Holders(c)) = IF Held(c) THEN 1 ELSE 0
    <2>1. \A v, w \in Holders(c) : v = w
      BY <1>1 DEF Places, Holders
    <2>2. Held(c) <=> Holders(c) # {}
      BY DEF Held, Holders
    <2> QED BY <2>1, <2>2, NoneOrOne
  <1>3. Cardinality(Queued(c)) = IF Waits(c) THEN 1 ELSE 0
    <2>1. DOMAIN queue = 1 .. Len(queue) /\ Len(queue) \in Nat
      BY <1>1
    <2>2. ASSUME NEW i \in Queued(c), NEW j \in Queued(c) PROVE i = j
      <3>1. i \in 1 .. Len(queue) /\ j \in 1 .. Len(queue) /\ queue[i] = c /\ queue[j] = c
        BY <2>1 DEF Queued
      <3>2. ~(i < j) /\ ~(j < i)
        BY <1>1, <3>1, ConstFacts DEF Places
      <3> QED BY <2>1, <3>1, <3>2
    <2>3. Waits(c) <=> Queued(c) # {}
      BY <2>1 DEF Waits, Queued
    <2> QED BY <2>2, <2>3, NoneOrOne
  <1>4. /\ (c \in published \/ Held(c)) \/ Waits(c) <=> c < next /\ c \notin skip
        /\ ~(c \in published /\ Held(c))
        /\ ~((c \in published \/ Held(c)) /\ Waits(c))
    BY <1>1 DEF Places, Handed
  <1>5. CASE c \in published
    BY <1>2, <1>3, <1>4, <1>5
  <1>6. CASE Held(c)
    BY <1>2, <1>3, <1>4, <1>6
  <1>7. CASE Waits(c)
    BY <1>2, <1>3, <1>4, <1>7
  <1>8. CASE c \notin published /\ ~Held(c) /\ ~Waits(c)
    BY <1>2, <1>3, <1>4, <1>8
  <1> QED BY <1>5, <1>6, <1>7, <1>8

\* Nothing is left when the prefetcher is past its loop, the queue is empty and
\* no worker holds a cluster.
LEMMA AllPublished ==
    ASSUME IInv, ok, next = NList, queue = <<>>, \A w \in Workers : pc[w] # "busy"
    PROVE  published = Cids \ skip
  <1>1. Places /\ published \subseteq Cids
    BY DEF IInv, TypeOK
  <1>2. \A c \in Cids : ~Held(c) /\ ~Waits(c)
    BY DEF Held, Waits
  <1>3. \A c \in Cids : c \in published <=> c \notin skip
    BY <1>1, <1>2, ConstFacts DEF Places, Handed
  <1> QED BY <1>1, <1>3

LEMMA NothingLostFromPlaces == IInv => NothingLost
  <1> SUFFICES ASSUME IInv, master = "returned", ok PROVE published = Cids \ skip
    BY DEF NothingLost
  <1>1. PICK w \in Workers : TRUE
    BY ConstFacts
  <1>2. \A v \in Workers : pc[v] = "exit"
    BY DEF IInv, Control
  <1>3. queue = <<>> /\ next = NList
    BY <1>1, <1>2 DEF IInv, Control, Progress
  <1> QED BY <1>2, <1>3, AllPublished

LEMMA StrandedFromPlaces == IInv => StrandedWorkIsDone
  <1> SUFFICES ASSUME IInv, Stranded, ok PROVE published = Cids \ skip
    BY DEF StrandedWorkIsDone
  <1>1. \A w \in Workers : pc[w] \in {"waiting", "exit"}
    BY DEF Stranded, Waiting
  <1>2. queue = <<>> /\ next = NList
    BY <1>1 DEF IInv, Progress, Stranded
  <1> QED BY <1>1, <1>2, AllPublished

LEMMA Inductive == Spec => []IInv
  <1> QED BY InitHolds, NextKeeps, PTL DEF Spec

(* Types: the queue never holds more clusters than its depth. *)
THEOREM TypesHold == Spec => []TypeOK
  <1>1. IInv => TypeOK
    BY DEF IInv
  <1> QED BY <1>1, Inductive, PTL

(* While nothing failed, every cluster the prefetcher passed is published, held
   by one worker or in the queue once, whatever the workers' interleaving. *)
THEOREM EveryClusterOnceHolds == Spec => []EveryClusterOnce
  <1> QED BY OnceFromPlaces, Inductive, PTL

(* Stop and the join return without an error only when every cluster of this
   run was published: Pop never says "no more" early. *)
THEOREM NothingIsLost == Spec => []NothingLost
  <1> QED BY NothingLostFromPlaces, Inductive, PTL

(* A worker that the lost last notification leaves asleep sleeps over no work. *)
THEOREM StrandedAfterTheWork == Spec => []StrandedWorkIsDone
  <1> QED BY StrandedFromPlaces, Inductive, PTL

(* A worker is handed a cluster only after all lower ones were handed out. *)
THEOREM ServedInOrder == Spec => HandedInOrder
  <1> DEFINE Order == \A w \in Workers : pc[w] = "pop" /\ pc'[w] = "busy" =>
                         \A c \in Cids \ skip : c < cid'[w] => c \in published \/ Holders(c) # {}
  <1>1. IInv /\ [Next]_vars => [Order]_vars
    <2> SUFFICES ASSUME IInv, Next, NEW w \in Workers, pc[w] = "pop", pc'[w] = "busy",
                        NEW c \in Cids \ skip, c < cid'[w]
                 PROVE  c \in published \/ Holders(c) # {}
      BY DEF vars
    <2>1. TypeOK
      BY DEF IInv
    <2>2. CASE Pop(w)
      <3>1. Handed(c)
        BY <2>2, PopKeeps
      <3> QED BY <3>1 DEF Handed, Held, Holders
    <2>3. CASE Producer
      <3>1. pc'[w] = "pop"
        BY <2>1, <2>3, NotifyFacts
           DEF Producer, OpenReaders, ReadCluster, PushCluster, SetDone, NotifyDone, team
      <3> QED BY <3>1
    <2>4. CASE Master
      <3>1. pc'[w] = "pop"
        BY <2>1, <2>4, NotifyFacts DEF Master, StopFlag, StopNotify, Join, team
      <3> QED BY <3>1
    <2>5. ASSUME NEW v \in Workers, v # w, Worker(v) PROVE FALSE
      <3>1. PICK point : Goto(v, point)
        BY <2>5 DEF Worker, LoopHead, Pop, Block, ProcessCluster
      <3>2. pc'[w] = pc[w]
        BY <2>1, <2>5, <3>1 DEF Goto, TypeOK
      <3> QED BY <3>2
    <2>6. CASE Worker(w)
      <3>1. Pop(w)
        BY <2>6 DEF Worker, LoopHead, Block, ProcessCluster
      <3> QED BY <2>2, <3>1
    <2> QED BY <2>3, <2>4, <2>5, <2>6 DEF Next
  <1> QED BY <1>1, Inductive, PTL DEF Spec, HandedInOrder

=============================================================================
