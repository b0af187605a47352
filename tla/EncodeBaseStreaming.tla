-------------------------- MODULE EncodeBaseStreaming --------------------------
(***************************************************************************)
(* EncodeBaseStreaming: the base vectors are read in blocks, encoded, and  *)
(* appended to the base_basic store in order.                              *)
(*                                                                         *)
(*   - "io", AsyncBasicBlockPrefetcher, reads blocks ahead of the caller;  *)
(*   - hybrid path: the caller hands the blocks to a GPU lane and a CPU    *)
(*     lane through bounded queues, takes their results from a third one   *)
(*     in any order and puts them back in order in a ring of Depth slots;  *)
(*   - plain path: the caller encodes the tiles of a block itself and      *)
(*     appends them, or hands them to "writer", AsyncBasicTileWriter.      *)
(*                                                                         *)
(* A condition variable is a set of sleeping threads.  BoundedQueue        *)
(* changes its state under its mutex, so testing a predicate and falling   *)
(* asleep is one step; only the prefetcher's done_ changes without its     *)
(* mutex, and there a caller that found nothing falls asleep in a second   *)
(* step.  A spurious wake-up only tests a predicate again and is left out. *)
(*                                                                         *)
(* Encoding, rotation, timing, messages and the two element types, whose   *)
(* code is the same, are abstracted; any read, encode, append or commit    *)
(* may fail.                                                               *)
(*                                                                         *)
(* Source: src/quantizer/encode_base_streaming.cpp                         *)
(***************************************************************************)
EXTENDS Integers, Sequences, FiniteSets

CONSTANTS
    Blocks,     \* blocks_total
    Tiles,      \* compute tiles in a block
    Depth,      \* depth of the hybrid path: its queues and its ring
    CpuStride,  \* cfg.runtime.basic_hybrid_cpu_stride
    IoDepth,    \* eff_depth_ of the prefetcher
    WriteDepth, \* capacity of the tile writer's queue
    None        \* an empty slot

ASSUME EncodeAssumption ==
    /\ Blocks \in Nat \ {0}
    /\ Tiles \in Nat \ {0}
    /\ Depth \in Nat /\ Depth >= 2
    /\ CpuStride \in Nat \ {0}
    /\ IoDepth \in Nat \ {0}
    /\ WriteDepth \in Nat \ {0}
    /\ None \notin Int

Block == 0 .. Blocks - 1
Lanes == {"gpu", "cpu"}
Threads == {"main", "io", "writer"} \cup Lanes
Queues == Lanes \cup {"res", "tile"}
Capacity(q) == IF q = "tile" THEN WriteDepth ELSE Depth

VARIABLES
    opt,        \* the settings: which path, which helpers, whether it commits
    first,      \* first_block
    pc,         \* control point of each thread
    asleep,     \* the threads that wait on a condition variable
    queue,      \* the deques of the bounded queues
    closed,     \* the queues whose closed_ is set
    held,       \* the block or tile a lane or the tile writer works on
    failed,     \* failed: the call will return false
    bid,        \* block_id of the caller's loop
    tile,       \* the tile of the block the plain path is at
    next,       \* next_block, and blocks_written
    inflight,   \* blocks handed to the lanes and not yet written
    ring,       \* ring
    resume,     \* where the caller goes on after writing out or failing
    ahead,      \* queue_ of the prefetcher
    ioNext,     \* the block the prefetcher is at
    stop, done, \* stop_ and done_ of the prefetcher
    writerFailed, \* failed_ of the tile writer
    log,        \* the tiles appended to the store, in order
    committed,  \* the tiles before this one are covered by the checkpoint
    fault       \* history: some read, encode, append or commit has failed

settings == <<opt, first>>
sync == <<asleep, queue, closed>>
order == <<bid, tile, next, inflight, ring>>
prefetch == <<ahead, ioNext, stop, done>>
store == <<log, committed>>
vars == <<settings, pc, sync, held, failed, order, resume, prefetch,
          writerFailed, store, fault>>

\* The control points of the five threads.
Points == {"top", "dispatch", "drain", "read", "blocking", "push", "try", "tried",
           "write", "fail", "close", "final", "closeres", "join", "encode",
           "append", "pushed", "appended", "commit", "finish", "closetile",
           "jointile", "stopio", "wakeio", "joinio", "ended", "check", "pop",
           "loop", "done", "notify", "exit"}

TilesOf(b) == [t \in 1 .. Tiles |-> b * Tiles + t - 1]

TypeOK ==
    /\ opt \in [hybrid : BOOLEAN, read : BOOLEAN, write : BOOLEAN, commit : BOOLEAN]
    /\ first \in 0 .. Blocks
    /\ pc \in [Threads -> Points]
    /\ asleep \subseteq Threads
    /\ queue \in [Queues -> Seq(Nat)]
    /\ \A q \in Queues : Len(queue[q]) <= Capacity(q)
    /\ closed \subseteq Queues
    /\ held \in [Lanes \cup {"writer"} -> Nat \cup {None}]
    /\ bid \in 0 .. Blocks /\ next \in 0 .. Blocks
    /\ tile \in 0 .. Tiles
    /\ inflight \in 0 .. Depth
    /\ ring \in [0 .. Depth - 1 -> Block \cup {None}]
    /\ resume \in {"top", "try", "final", "stopio", "ended"}
    /\ ahead \in Seq(Block) /\ Len(ahead) <= IoDepth
    /\ ioNext \in 0 .. Blocks
    /\ {failed, stop, done, writerFailed, fault} \subseteq BOOLEAN
    /\ log \in Seq(Nat)
    /\ committed \in 0 .. Blocks * Tiles

\* basic_async_write is refused with a commit hook; the tile writer belongs to
\* the plain path.
Settings ==
    {o \in [hybrid : BOOLEAN, read : BOOLEAN, write : BOOLEAN, commit : BOOLEAN] :
        o.write => ~o.hybrid /\ ~o.commit}

Init ==
    /\ opt \in Settings
    /\ first \in 0 .. Blocks
    /\ pc = [t \in Threads |->
                CASE t = "main" -> "top"
                  [] t = "io" -> IF opt.read THEN "loop" ELSE "exit"
                  [] t = "writer" -> IF opt.write THEN "pop" ELSE "exit"
                  [] OTHER -> IF opt.hybrid THEN "check" ELSE "exit"]
    /\ asleep = {} /\ closed = {}
    /\ queue = [q \in Queues |-> <<>>]
    /\ held = [t \in Lanes \cup {"writer"} |-> None]
    /\ failed = FALSE
    /\ bid = first /\ tile = 0 /\ next = first /\ inflight = 0
    /\ ring = [s \in 0 .. Depth - 1 |-> None]
    /\ resume = "top"
    /\ ahead = <<>> /\ ioNext = first /\ stop = FALSE /\ done = FALSE
    /\ writerFailed = FALSE
    /\ log = <<>> /\ committed = first * Tiles
    /\ fault = FALSE

Goto(t, point) == pc' = [pc EXCEPT ![t] = point]
At(t, point) == pc[t] = point /\ t \notin asleep

-----------------------------------------------------------------------------
(* BoundedQueue *)

\* Who sleeps on cv_not_empty_ and who on cv_not_full_ of a queue.
Consumer(q) == CASE q = "res" -> "main" [] q = "tile" -> "writer" [] OTHER -> q
Lane(b) == IF b % CpuStride = CpuStride - 1 THEN "cpu" ELSE "gpu"
PushesTo(t) ==
    IF t = "main" THEN IF opt.hybrid THEN Lane(bid) ELSE "tile" ELSE "res"

NotEmpty(q) == {t \in asleep \cap {Consumer(q)} : pc[t] \in {"pop", "drain"}}
NotFull(q) == {t \in asleep : pc[t] = "push" /\ t # "io" /\ PushesTo(t) = q}

NotifyOne(waiting) ==
    IF waiting = {} THEN UNCHANGED asleep
                    ELSE \E t \in waiting : asleep' = asleep \ {t}

\* Push: t goes to "pushed", to "shut" if the queue is closed, or to sleep.
Push(t, q, item, pushed, shut) ==
    \/ /\ q \in closed
       /\ Goto(t, shut)
       /\ UNCHANGED <<queue, asleep>>
    \/ /\ q \notin closed /\ Len(queue[q]) < Capacity(q)
       /\ queue' = [queue EXCEPT ![q] = Append(@, item)]
       /\ Goto(t, pushed)
       /\ NotifyOne(NotEmpty(q))
    \/ /\ q \notin closed /\ Len(queue[q]) >= Capacity(q)
       /\ asleep' = asleep \cup {t}
       /\ UNCHANGED <<queue, pc>>

\* Pop: a closed queue is still emptied; then the caller is told it is closed.
PopItem(t, q, popped) ==
    /\ queue[q] # <<>>
    /\ queue' = [queue EXCEPT ![q] = Tail(@)]
    /\ Goto(t, popped)
    /\ NotifyOne(NotFull(q))

PopClosed(t, q, shut) ==
    /\ queue[q] = <<>> /\ q \in closed
    /\ Goto(t, shut)
    /\ UNCHANGED <<queue, asleep>>

PopSleep(t, q) ==
    /\ queue[q] = <<>> /\ q \notin closed
    /\ asleep' = asleep \cup {t}
    /\ UNCHANGED <<queue, pc>>

\* Close, of several queues at once.
Close(qs) ==
    /\ closed' = closed \cup qs
    /\ asleep' = asleep \ UNION {NotEmpty(q) \cup NotFull(q) : q \in qs}

-----------------------------------------------------------------------------
(* AsyncBasicBlockPrefetcher::Run.  The caller holds mu_ at "blocking". *)

MutexFree == pc["main"] # "blocking"

\* The loop up to the lock: leave, or read a block, or fail to.
IoRead ==
    /\ At("io", "loop")
    /\ \/ /\ stop \/ ioNext = Blocks
          /\ Goto("io", "done")
          /\ UNCHANGED <<stop, fault>>
       \/ /\ ~stop /\ ioNext < Blocks
          /\ Goto("io", "push")
          /\ UNCHANGED <<stop, fault>>
       \/ /\ ~stop /\ ioNext < Blocks
          /\ stop' = TRUE /\ fault' = TRUE
          /\ Goto("io", "fail")
    /\ UNCHANGED <<settings, sync, held, failed, order, resume, ahead, ioNext,
                   done, writerFailed, store>>

\* Under mu_: leave, queue the block and notify, or sleep on cv_not_full_.
IoPush ==
    /\ At("io", "push") /\ MutexFree
    /\ \/ /\ stop
          /\ Goto("io", "done")
          /\ UNCHANGED <<ahead, ioNext, asleep>>
       \/ /\ ~stop /\ Len(ahead) < IoDepth
          /\ ahead' = Append(ahead, ioNext)
          /\ ioNext' = ioNext + 1
          /\ Goto("io", "loop")
          /\ NotifyOne({t \in asleep : t = "main" /\ pc[t] = "read"})
       \/ /\ ~stop /\ Len(ahead) >= IoDepth
          /\ asleep' = asleep \cup {"io"}
          /\ UNCHANGED <<pc, ahead, ioNext>>
    /\ UNCHANGED <<settings, queue, closed, held, failed, order, resume, stop,
                   done, writerFailed, store, fault>>

\* Fail, after stop_: the message is set under mu_, then everyone is notified.
IoFail ==
    /\ At("io", "fail") /\ MutexFree
    /\ Goto("io", "done")
    /\ asleep' = asleep \ {t \in asleep : t = "main" /\ pc[t] = "read"}
    /\ UNCHANGED <<settings, queue, closed, held, failed, order, resume,
                   prefetch, writerFailed, store, fault>>

\* done_ is set and notified without mu_.
IoDone ==
    /\ At("io", "done")
    /\ done' = TRUE
    /\ Goto("io", "notify")
    /\ UNCHANGED <<settings, sync, held, failed, order, resume, ahead, ioNext,
                   stop, writerFailed, store, fault>>

IoExit ==
    /\ At("io", "notify")
    /\ Goto("io", "exit")
    /\ asleep' = asleep \ {t \in asleep : t = "main" /\ pc[t] = "read"}
    /\ UNCHANGED <<settings, queue, closed, held, failed, order, resume,
                   prefetch, writerFailed, store, fault>>

Io == IoRead \/ IoPush \/ IoFail \/ IoDone \/ IoExit

-----------------------------------------------------------------------------
(* The caller: reading a block, shared by both paths *)

\* Where the caller goes when its loop over the blocks is over or broken off.
AfterIo == IF opt.hybrid THEN "close" ELSE IF failed THEN "ended" ELSE "finish"
Leave == IF opt.read THEN "stopio" ELSE AfterIo
Broken == CASE resume = "top" -> "dispatch"
            [] resume = "try" -> "tried"
            [] OTHER -> "closeres"

\* Something failed: the hybrid path runs Fail, the plain path returns false
\* and leaves its helpers to their destructors.
GiveUp ==
    /\ failed' = TRUE
    /\ Goto("main", IF opt.hybrid THEN "fail"
                    ELSE IF opt.write THEN "closetile"
                    ELSE IF opt.read THEN "stopio" ELSE "ended")

\* ReadBlock without the prefetcher.
ReadBlock ==
    /\ At("main", "read") /\ ~opt.read
    /\ \/ /\ Goto("main", IF opt.hybrid THEN "push" ELSE "encode")
          /\ UNCHANGED <<failed, fault>>
       \/ /\ GiveUp
          /\ fault' = TRUE
    /\ UNCHANGED <<settings, sync, held, order, resume, prefetch, writerFailed, store>>

\* Pop of the prefetcher, its predicate already true.
PopBlock ==
    /\ At("main", "read") /\ opt.read
    /\ stop \/ ahead # <<>> \/ done
    /\ \/ /\ stop \/ ahead = <<>>
          /\ GiveUp
          /\ UNCHANGED <<ahead, asleep>>
       \/ /\ ~stop /\ ahead # <<>>
          /\ ahead' = Tail(ahead)
          /\ Goto("main", IF opt.hybrid THEN "push" ELSE "encode")
          /\ NotifyOne({t \in asleep : t = "io"})
          /\ UNCHANGED failed
    /\ UNCHANGED <<settings, queue, closed, held, order, resume, ioNext, stop,
                   done, writerFailed, store, fault>>

\* Its predicate is false: the caller is about to wait, mu_ held.
PopBlockWaits ==
    /\ At("main", "read") /\ opt.read
    /\ ~stop /\ ahead = <<>> /\ ~done
    /\ Goto("main", "blocking")
    /\ UNCHANGED <<settings, sync, held, failed, order, resume, prefetch,
                   writerFailed, store, fault>>

PopBlockSleeps ==
    /\ At("main", "blocking")
    /\ Goto("main", "read")
    /\ asleep' = asleep \cup {"main"}
    /\ UNCHANGED <<settings, queue, closed, held, failed, order, resume,
                   prefetch, writerFailed, store, fault>>

\* Stop: stop_, then the notification under mu_, then the join.
StopIo ==
    /\ At("main", "stopio")
    /\ stop' = TRUE
    /\ Goto("main", "wakeio")
    /\ UNCHANGED <<settings, sync, held, failed, order, resume, ahead, ioNext,
                   done, writerFailed, store, fault>>

WakeIo ==
    /\ At("main", "wakeio")
    /\ Goto("main", "joinio")
    /\ asleep' = asleep \ {"io"}
    /\ UNCHANGED <<settings, queue, closed, held, failed, order, resume,
                   prefetch, writerFailed, store, fault>>

JoinIo ==
    /\ At("main", "joinio")
    /\ pc["io"] = "exit"
    /\ Goto("main", AfterIo)
    /\ UNCHANGED <<settings, sync, held, failed, order, resume, prefetch,
                   writerFailed, store, fault>>

Reading == \/ ReadBlock \/ PopBlock \/ PopBlockWaits \/ PopBlockSleeps
           \/ StopIo \/ WakeIo \/ JoinIo

-----------------------------------------------------------------------------
(* The caller: the hybrid path *)

\* Seeded bug: one block more than the depth may be in flight.
TopOneTooMany ==
    /\ At("main", "top") /\ opt.hybrid
    /\ Goto("main", IF bid = Blocks THEN Leave
                    ELSE IF ~failed /\ inflight > Depth THEN "drain"
                    ELSE "dispatch")
    /\ resume' = "top"
    /\ UNCHANGED <<settings, sync, held, failed, order, prefetch, writerFailed,
                   store, fault>>

\* The head of the loop: drain a result while Depth blocks are in flight.
Top ==
    /\ At("main", "top") /\ opt.hybrid
    /\ Goto("main", IF bid = Blocks THEN Leave
                    ELSE IF ~failed /\ inflight >= Depth THEN "drain"
                    ELSE "dispatch")
    /\ resume' = "top"
    /\ UNCHANGED <<settings, sync, held, failed, order, prefetch, writerFailed,
                   store, fault>>

Dispatch ==
    /\ At("main", "dispatch")
    /\ Goto("main", IF failed THEN Leave ELSE "read")
    /\ UNCHANGED <<settings, sync, held, failed, order, resume, prefetch,
                   writerFailed, store, fault>>

\* q_gpu.Push or q_cpu.Push, and ++inflight; a closed queue ends the loop.
PushTask ==
    /\ At("main", "push") /\ opt.hybrid
    /\ Push("main", Lane(bid), bid, "try", Leave)
    /\ inflight' = IF pc'["main"] = "try" THEN inflight + 1 ELSE inflight
    /\ resume' = "try"
    /\ UNCHANGED <<settings, closed, held, failed, bid, tile, next, ring,
                   prefetch, writerFailed, store, fault>>

\* Seeded bug: the block number is taken as the slot.
SlotOfBlock(b) == IF b < Depth THEN b ELSE Depth - 1

\* The slot of the ring a block has.
Slot(b) == b % Depth
Window == next .. next + Depth - 1

\* A result has been popped: into the ring, unless it is out of the window or
\* its slot is taken.
Arrive(b) ==
    \/ /\ b \in Window /\ ring[Slot(b)] = None
       /\ ring' = [ring EXCEPT ![Slot(b)] = b]
       /\ PopItem("main", "res", "write")
       /\ UNCHANGED failed
    \/ /\ b \notin Window \/ ring[Slot(b)] # None
       /\ failed' = TRUE
       /\ PopItem("main", "res", "fail")
       /\ UNCHANGED ring

\* DrainOneResultBlocking: a result, a closed queue, or sleep.
Drain ==
    /\ At("main", "drain")
    /\ \/ queue["res"] # <<>> /\ Arrive(Head(queue["res"]))
       \/ PopClosed("main", "res", Broken) /\ UNCHANGED <<ring, failed>>
       \/ PopSleep("main", "res") /\ UNCHANGED <<ring, failed>>
    /\ UNCHANGED <<settings, closed, held, bid, tile, next, inflight, resume,
                   prefetch, writerFailed, store, fault>>

\* TryPop: the results that are there are taken without waiting.
TryDrain ==
    /\ At("main", "try")
    /\ \/ queue["res"] # <<>> /\ Arrive(Head(queue["res"]))
       \/ /\ queue["res"] = <<>>
          /\ Goto("main", "tried")
          /\ UNCHANGED <<queue, asleep, ring, failed>>
    /\ UNCHANGED <<settings, closed, held, bid, tile, next, inflight, resume,
                   prefetch, writerFailed, store, fault>>

Tried ==
    /\ At("main", "tried")
    /\ IF failed THEN Goto("main", Leave) /\ UNCHANGED bid
                 ELSE Goto("main", "top") /\ bid' = bid + 1
    /\ UNCHANGED <<settings, sync, held, failed, tile, next, inflight, ring,
                   resume, prefetch, writerFailed, store, fault>>

\* AppendBlock and CommitBlock of the next block in order.
Written(b) ==
    /\ log' = log \o TilesOf(b)
    /\ committed' = IF opt.commit THEN (b + 1) * Tiles ELSE committed

\* Seeded bug: whatever is in the ring is written first.
WriteAnyBlock ==
    /\ At("main", "write")
    /\ \E s \in DOMAIN ring :
        /\ ring[s] # None
        /\ Written(ring[s])
        /\ ring' = [ring EXCEPT ![s] = None]
    /\ next' = next + 1
    /\ inflight' = inflight - 1
    /\ UNCHANGED <<settings, pc, sync, held, failed, bid, tile, resume,
                   prefetch, writerFailed, fault>>

\* Seeded bug: the slot is not released.
WriteKeepsSlot ==
    /\ At("main", "write")
    /\ next < Blocks /\ ring[Slot(next)] # None
    /\ Written(ring[Slot(next)])
    /\ next' = next + 1
    /\ inflight' = inflight - 1
    /\ UNCHANGED <<settings, pc, sync, held, failed, bid, tile, ring, resume,
                   prefetch, writerFailed, fault>>

\* The ring holds the next block: append it, commit, release the slot.
WriteBlock ==
    /\ At("main", "write")
    /\ next < Blocks /\ ring[Slot(next)] # None
    /\ Written(ring[Slot(next)])
    /\ ring' = [ring EXCEPT ![Slot(next)] = None]
    /\ next' = next + 1
    /\ inflight' = inflight - 1
    /\ UNCHANGED <<settings, pc, sync, held, failed, bid, tile, resume,
                   prefetch, writerFailed, fault>>

\* The append fails, or the commit after it.
WriteBlockFails ==
    /\ At("main", "write")
    /\ next < Blocks /\ ring[Slot(next)] # None
    /\ \/ UNCHANGED log
       \/ opt.commit /\ log' = log \o TilesOf(ring[Slot(next)])
    /\ failed' = TRUE /\ fault' = TRUE
    /\ Goto("main", "fail")
    /\ UNCHANGED <<settings, sync, held, order, resume, prefetch, writerFailed,
                   committed>>

\* The next block has not arrived: back to who asked.
NothingToWrite ==
    /\ At("main", "write")
    /\ next = Blocks \/ ring[Slot(next)] = None
    /\ Goto("main", IF resume = "try" /\ failed THEN "tried" ELSE resume)
    /\ UNCHANGED <<settings, sync, held, failed, order, resume, prefetch,
                   writerFailed, store, fault>>

\* Fail, after failed: the three queues are closed.
CloseAll ==
    /\ At("main", "fail")
    /\ Close(Lanes \cup {"res"})
    /\ Goto("main", Broken)
    /\ UNCHANGED <<settings, queue, held, failed, order, resume, prefetch,
                   writerFailed, store, fault>>

\* The lanes' queues are closed, then the remaining results are drained.
CloseTasks ==
    /\ At("main", "close")
    /\ Close(Lanes)
    /\ Goto("main", "final")
    /\ resume' = "final"
    /\ UNCHANGED <<settings, queue, held, failed, order, prefetch,
                   writerFailed, store, fault>>

\* Seeded bug: what is still in the lanes is not waited for.
FinalReturnsEarly ==
    /\ At("main", "final")
    /\ Goto("main", IF ~failed /\ queue["res"] # <<>> THEN "drain" ELSE "closeres")
    /\ UNCHANGED <<settings, sync, held, failed, order, resume, prefetch,
                   writerFailed, store, fault>>

FinalDrain ==
    /\ At("main", "final")
    /\ Goto("main", IF ~failed /\ next < Blocks THEN "drain" ELSE "closeres")
    /\ UNCHANGED <<settings, sync, held, failed, order, resume, prefetch,
                   writerFailed, store, fault>>

CloseResults ==
    /\ At("main", "closeres")
    /\ Close({"res"})
    /\ Goto("main", "join")
    /\ UNCHANGED <<settings, queue, held, failed, order, resume, prefetch,
                   writerFailed, store, fault>>

JoinLanes ==
    /\ At("main", "join")
    /\ \A l \in Lanes : pc[l] = "exit"
    /\ Goto("main", "ended")
    /\ UNCHANGED <<settings, sync, held, failed, order, resume, prefetch,
                   writerFailed, store, fault>>

Hybrid == \/ Top \/ Dispatch \/ PushTask \/ Drain \/ TryDrain \/ Tried
          \/ WriteBlock \/ WriteBlockFails \/ NothingToWrite \/ CloseAll
          \/ CloseTasks \/ FinalDrain \/ CloseResults \/ JoinLanes

-----------------------------------------------------------------------------
(* The lanes: while (!failed && q.Pop(&task)) *)

LaneCheck(l) ==
    /\ At(l, "check")
    /\ Goto(l, IF failed THEN "exit" ELSE "pop")
    /\ UNCHANGED <<settings, sync, held, failed, order, resume, prefetch,
                   writerFailed, store, fault>>

LanePop(l) ==
    /\ At(l, "pop")
    /\ \/ /\ PopItem(l, l, "encode")
          /\ held' = [held EXCEPT ![l] = Head(queue[l])]
       \/ PopClosed(l, l, "exit") /\ UNCHANGED held
       \/ PopSleep(l, l) /\ UNCHANGED held
    /\ UNCHANGED <<settings, closed, failed, order, resume, prefetch,
                   writerFailed, store, fault>>

LaneEncode(l) ==
    /\ At(l, "encode")
    /\ \/ /\ Goto(l, "push")
          /\ UNCHANGED <<failed, fault>>
       \/ /\ Goto(l, "fail")
          /\ failed' = TRUE /\ fault' = TRUE
    /\ UNCHANGED <<settings, sync, held, order, resume, prefetch, writerFailed, store>>

\* Seeded bug: a lane that fails leaves without closing the queues.
LaneLeavesQueuesOpen(l) ==
    /\ At(l, "fail")
    /\ Goto(l, "exit")
    /\ UNCHANGED <<settings, sync, held, failed, order, resume, prefetch,
                   writerFailed, store, fault>>

\* Fail, after failed: the three queues are closed.
LaneFail(l) ==
    /\ At(l, "fail")
    /\ Close(Lanes \cup {"res"})
    /\ Goto(l, "exit")
    /\ UNCHANGED <<settings, queue, held, failed, order, resume, prefetch,
                   writerFailed, store, fault>>

LanePush(l) ==
    /\ At(l, "push")
    /\ Push(l, "res", held[l], "check", "exit")
    /\ held' = IF pc'[l] = "push" THEN held ELSE [held EXCEPT ![l] = None]
    /\ UNCHANGED <<settings, closed, failed, order, resume, prefetch,
                   writerFailed, store, fault>>

LaneStep(l) ==
    LaneCheck(l) \/ LanePop(l) \/ LaneEncode(l) \/ LaneFail(l) \/ LanePush(l)

-----------------------------------------------------------------------------
(* The plain path and the tile writer *)

PlainTop ==
    /\ At("main", "top") /\ ~opt.hybrid
    /\ Goto("main", IF bid = Blocks THEN Leave ELSE "read")
    /\ tile' = 0
    /\ UNCHANGED <<settings, sync, held, failed, bid, next, inflight, ring,
                   resume, prefetch, writerFailed, store, fault>>

\* A tile is encoded; AsyncBasicTileWriter::Push looks at failed_ first.
EncodeTile ==
    /\ At("main", "encode")
    /\ IF ~opt.write THEN Goto("main", "append") /\ UNCHANGED failed
       ELSE IF writerFailed THEN GiveUp
       ELSE Goto("main", "push") /\ UNCHANGED failed
    /\ UNCHANGED <<settings, sync, held, order, resume, prefetch, writerFailed,
                   store, fault>>

AppendTile ==
    /\ At("main", "append")
    /\ \/ /\ log' = Append(log, bid * Tiles + tile)
          /\ Goto("main", "appended")
          /\ UNCHANGED <<failed, fault>>
       \/ /\ GiveUp
          /\ fault' = TRUE
          /\ UNCHANGED log
    /\ UNCHANGED <<settings, sync, held, order, resume, prefetch, writerFailed, committed>>

PushTile ==
    /\ At("main", "push") /\ ~opt.hybrid
    /\ Push("main", "tile", bid * Tiles + tile, "pushed", "closetile")
    /\ failed' = (failed \/ pc'["main"] = "closetile")
    /\ UNCHANGED <<settings, closed, held, order, resume, prefetch,
                   writerFailed, store, fault>>

\* Push looks at failed_ again once the tile is queued.
TilePushed ==
    /\ At("main", "pushed")
    /\ IF writerFailed THEN GiveUp ELSE Goto("main", "appended") /\ UNCHANGED failed
    /\ UNCHANGED <<settings, sync, held, order, resume, prefetch, writerFailed,
                   store, fault>>

NextTile ==
    /\ At("main", "appended")
    /\ tile' = tile + 1
    /\ Goto("main", IF tile + 1 < Tiles THEN "encode" ELSE "commit")
    /\ UNCHANGED <<settings, sync, held, failed, bid, next, inflight, ring,
                   resume, prefetch, writerFailed, store, fault>>

\* CommitBlock at the end of a block.
CommitBlock ==
    /\ At("main", "commit")
    /\ \/ /\ committed' = IF opt.commit THEN (bid + 1) * Tiles ELSE committed
          /\ bid' = bid + 1
          /\ Goto("main", "top")
          /\ UNCHANGED <<failed, fault>>
       \/ /\ opt.commit
          /\ GiveUp
          /\ fault' = TRUE
          /\ UNCHANGED <<committed, bid>>
    /\ UNCHANGED <<settings, sync, held, tile, next, inflight, ring, resume,
                   prefetch, writerFailed, log>>

\* Finish, after the loop; without a tile writer there is nothing to do.
FinishWriter ==
    /\ At("main", "finish")
    /\ Goto("main", IF opt.write THEN "closetile" ELSE "ended")
    /\ UNCHANGED <<settings, sync, held, failed, order, resume, prefetch,
                   writerFailed, store, fault>>

\* Finish or Stop: the queue is closed and the writer joined.
CloseTiles ==
    /\ At("main", "closetile")
    /\ Close({"tile"})
    /\ Goto("main", "jointile")
    /\ UNCHANGED <<settings, queue, held, failed, order, resume, prefetch,
                   writerFailed, store, fault>>

\* After a failure the prefetcher is stopped next; after the loop it has been.
JoinWriter ==
    /\ At("main", "jointile")
    /\ pc["writer"] = "exit"
    /\ failed' = (failed \/ writerFailed)
    /\ Goto("main", IF failed /\ opt.read THEN "stopio" ELSE "ended")
    /\ UNCHANGED <<settings, sync, held, order, resume, prefetch, writerFailed,
                   store, fault>>

Plain == \/ PlainTop \/ EncodeTile \/ AppendTile \/ PushTile \/ TilePushed
         \/ NextTile \/ CommitBlock \/ FinishWriter \/ CloseTiles \/ JoinWriter

WriterPop ==
    /\ At("writer", "pop")
    /\ \/ /\ PopItem("writer", "tile", "append")
          /\ held' = [held EXCEPT !["writer"] = Head(queue["tile"])]
       \/ PopClosed("writer", "tile", "exit") /\ UNCHANGED held
       \/ PopSleep("writer", "tile") /\ UNCHANGED held
    /\ UNCHANGED <<settings, closed, failed, order, resume, prefetch,
                   writerFailed, store, fault>>

WriterAppend ==
    /\ At("writer", "append")
    /\ \/ /\ log' = Append(log, held["writer"])
          /\ Goto("writer", "pop")
          /\ UNCHANGED <<writerFailed, fault>>
       \/ /\ writerFailed' = TRUE /\ fault' = TRUE
          /\ Goto("writer", "fail")
          /\ UNCHANGED log
    /\ held' = [held EXCEPT !["writer"] = None]
    /\ UNCHANGED <<settings, sync, failed, order, resume, prefetch, committed>>

\* Fail closes the queue and the loop is left: what is queued is not appended.
WriterFail ==
    /\ At("writer", "fail")
    /\ Close({"tile"})
    /\ Goto("writer", "exit")
    /\ UNCHANGED <<settings, queue, held, failed, order, resume, prefetch,
                   writerFailed, store, fault>>

Writer == WriterPop \/ WriterAppend \/ WriterFail

-----------------------------------------------------------------------------
Main == Reading \/ Hybrid \/ Plain
Next == Main \/ Io \/ Writer \/ \E l \in Lanes : LaneStep(l)

Spec == Init /\ [][Next]_vars

\* Every thread is scheduled by the system and every call it makes returns.
FairSpec ==
    /\ Spec
    /\ WF_vars(Main) /\ WF_vars(Io) /\ WF_vars(Writer)
    /\ \A l \in Lanes : WF_vars(LaneStep(l))

-----------------------------------------------------------------------------
(* Properties *)

Ended == pc["main"] = "ended"

\* The store is an ordered log: whatever the lanes' order of finishing, tiles
\* are appended in order and each once, commits cover what is appended, and the
\* call returns true only when all of it is there.
appended == first * Tiles + Len(log)
status == IF ~Ended THEN "running" ELSE IF failed THEN "false" ELSE "true"
Ledger == INSTANCE BlockLog WITH
    End <- Blocks * Tiles, start <- first * Tiles, commits <- opt.commit
ImplementsLog == Ledger!Spec

TilesInOrder == \A i \in 1 .. Len(log) : log[i] = first * Tiles + i - 1

\* A result waiting for the caller has a place: it is in the window of the ring
\* and its slot is free, so "reorder depth too small" and "slot collision" are
\* never reported.  Depth bounds three queues, the ring and the blocks in
\* flight at once; only the last bound is tested before a block is handed out.
ResultsFit ==
    \A i \in 1 .. Len(queue["res"]) :
        /\ queue["res"][i] \in Window
        /\ ring[Slot(queue["res"][i])] = None

\* Handing out a block never waits, nor does handing in a result: the caller
\* and the lanes cannot wait for each other's queues.
HybridPushNeverWaits ==
    opt.hybrid => \A t \in {"main"} \cup Lanes : pc[t] = "push" => t \notin asleep

\* A block that was handed out and is not written is in exactly one place, and
\* inflight counts them; this holds as long as nothing has failed.
PlacesOf(b) ==
    {p \in (Lanes \cup {"res"}) \X (1 .. Depth) :
        p[2] <= Len(queue[p[1]]) /\ queue[p[1]][p[2]] = b}
    \cup {<<l, 0>> : l \in {l \in Lanes : held[l] = b}}
    \cup {<<"ring", s>> : s \in {s \in DOMAIN ring : ring[s] = b}}
HandedOut == IF pc["main"] \in {"try", "tried"} \/ (resume = "try" /\ pc["main"] = "write")
             THEN bid ELSE bid - 1
EveryBlockInOnePlace ==
    (opt.hybrid /\ ~failed) =>
        /\ inflight = HandedOut - next + 1
        /\ \A b \in Block :
            Cardinality(PlacesOf(b)) = (IF b \in next .. HandedOut THEN 1 ELSE 0)

\* The call returns false only because something failed: no order of the
\* threads makes a healthy run report an error.
NoFalseAlarm == failed => fault

\* Every call returns and leaves no thread behind.
EveryCallReturns == <>(Ended /\ \A t \in Threads \ {"main"} : pc[t] = "exit")
===============================================================================
