---------------------- MODULE EncodeBaseStreamingProofs ----------------------
(***************************************************************************)
(* EncodeBaseStreaming keeps the store an ordered log and implements       *)
(* BlockLog, for any number of blocks, tiles and slots, any mix of the     *)
(* helper threads and any failure.                                         *)
(*                                                                         *)
(* TilesInOrder says nothing of where the next tile comes from, so it is   *)
(* not inductive.  The hybrid path is in step when next counts what was    *)
(* appended, and the ring holds only blocks of the window in their slots,  *)
(* so that the slot of next can hold next alone.  The plain path is in     *)
(* step when what was appended, what the tile writer holds and what waits  *)
(* in its queue add up to what the caller has produced.  A failure of the  *)
(* caller may leave the log ahead of next; then the caller never comes     *)
(* back to where it appends, which is what Winding and PlainWinding say.   *)
(***************************************************************************)
EXTENDS EncodeBaseStreaming, FiniteSetTheorems, TLAPS

End == Blocks * Tiles
Hand == IF held["writer"] = None THEN 0 ELSE 1
Total == appended + (Hand + Len(queue["tile"]))

Types ==
    /\ opt \in Settings
    /\ first \in 0 .. Blocks /\ next \in 0 .. Blocks
    /\ pc \in [Threads -> Points]
    /\ queue \in [Queues -> Seq(Nat)]
    /\ \A q \in Lanes \cup {"res"} : queue[q] \in Seq(Block)
    /\ held \in [Lanes \cup {"writer"} -> Nat \cup {None}]
    /\ ring \in [0 .. Depth - 1 -> Block \cup {None}]
    /\ writerFailed \in BOOLEAN
    /\ log \in Seq(Nat) /\ committed \in Nat

Locals ==
    /\ bid \in 0 .. Blocks /\ tile \in 0 .. Tiles
    /\ failed \in BOOLEAN
    /\ resume \in {"top", "try", "final"}

-----------------------------------------------------------------------------
(* Who may be where *)

Winding == {"dispatch", "tried", "fail", "stopio", "wakeio", "joinio", "close",
            "final", "closeres", "join", "ended"}
HybridPoints == Winding \cup {"top", "drain", "read", "blocking", "push", "try", "write"}

InLoop == \/ pc["main"] \in {"dispatch", "read", "blocking", "push", "try", "tried"}
          \/ pc["main"] \in {"drain", "write", "fail"} /\ resume \in {"top", "try"}

HybridControl ==
    /\ pc["main"] \in HybridPoints
    /\ pc["main"] = "try" => resume = "try"
    /\ pc["main"] = "final" => resume = "final"
    /\ pc["main"] = "fail" => failed
    /\ "res" \in closed => failed \/ pc["main"] \in {"join", "ended"}
    /\ pc["main"] \in {"closeres", "join", "ended"} => failed \/ next = Blocks
    /\ pc["main"] = "ended" => \A l \in Lanes : pc[l] = "exit"
    /\ InLoop => bid < Blocks

PlainWinding == {"closetile", "jointile", "stopio", "wakeio", "joinio", "ended"}
InTile == {"encode", "append", "push", "pushed", "appended"}
PlainPoints == PlainWinding \cup InTile \cup {"top", "read", "blocking", "commit", "finish"}

PlainControl ==
    /\ pc["main"] \in PlainPoints
    /\ failed => pc["main"] \in PlainWinding
    /\ pc["main"] = "append" => ~opt.write
    /\ pc["main"] \in {"push", "pushed", "closetile", "jointile"} => opt.write
    /\ pc["main"] \in InTile \cup {"read", "blocking", "commit"} => bid < Blocks
    /\ pc["main"] \in PlainWinding \cup {"finish"} => failed \/ bid = Blocks
    /\ pc["main"] \in {"read", "blocking"} => tile = 0
    /\ pc["main"] \in InTile => tile < Tiles
    /\ pc["main"] \in {"stopio", "wakeio", "joinio"} /\ failed => pc["writer"] = "exit"
    /\ pc["main"] = "ended" => pc["writer"] = "exit" /\ (failed \/ ~writerFailed)

LaneControl == \A l \in Lanes :
    /\ pc[l] \in {"check", "pop", "encode", "push", "fail", "exit"}
    /\ pc[l] \in {"encode", "push"} => held[l] \in Block
    /\ pc[l] = "fail" => failed
    /\ ~opt.hybrid => pc[l] = "exit"

WriterControl ==
    /\ pc["writer"] \in {"pop", "append", "fail", "exit"}
    /\ pc["writer"] = "append" <=> held["writer"] # None
    /\ pc["writer"] \in {"pop", "append"} => ~writerFailed
    /\ pc["writer"] = "fail" => writerFailed
    /\ ~opt.write => pc["writer"] = "exit" /\ queue["tile"] = <<>> /\ ~writerFailed
    /\ pc["writer"] = "exit" /\ ~writerFailed /\ opt.write =>
            queue["tile"] = <<>> /\ "tile" \in closed

-----------------------------------------------------------------------------
(* What is appended, and what is on its way to be *)

RingInPlace == \A s \in 0 .. Depth - 1 :
    ring[s] # None => ring[s] \in Window /\ Slot(ring[s]) = s

HybridInStep ==
    \/ failed /\ pc["main"] \in Winding
    \/ appended = next * Tiles /\ (opt.commit => committed = next * Tiles)

Produced ==
    bid * Tiles + (CASE pc["main"] \in {"encode", "append", "push"} -> tile
                     [] pc["main"] \in {"pushed", "appended"} -> tile + 1
                     [] pc["main"] = "commit" -> Tiles
                     [] OTHER -> 0)

PlainInStep ==
    \/ failed /\ pc["main"] \in PlainWinding
    \/ /\ Total <= Produced
       /\ ~writerFailed => Total = Produced
       /\ opt.commit => committed = bid * Tiles

QueueInStep == pc["writer"] \in {"pop", "append"} =>
    /\ held["writer"] # None => held["writer"] = appended
    /\ \A i \in 1 .. Len(queue["tile"]) : queue["tile"][i] = appended + (Hand + i) - 1

Bounds == committed <= appended /\ Total <= End

Path == /\ Locals
        /\ opt.hybrid => HybridControl /\ HybridInStep
        /\ ~opt.hybrid => PlainControl /\ PlainInStep
Stored == TilesInOrder /\ RingInPlace /\ QueueInStep /\ Bounds
IInv == Types /\ Path /\ LaneControl /\ WriterControl /\ Stored

-----------------------------------------------------------------------------
(* Arithmetic of blocks and tiles *)

LEMMA ConstFacts ==
    /\ Blocks \in Nat /\ Blocks > 0 /\ Tiles \in Nat /\ Tiles > 0
    /\ Depth \in Nat /\ Depth >= 2 /\ None \notin Int
    /\ End \in Nat
  BY EncodeAssumption DEF End

LEMMA NextProduct ==
    ASSUME NEW b \in Nat
    PROVE  b * Tiles \in Nat /\ (b + 1) * Tiles = b * Tiles + Tiles
  BY ConstFacts

\* The tiles of a block that is not the last come before the end.
LEMMA BlockFits ==
    ASSUME NEW b \in Nat, b < Blocks
    PROVE  b * Tiles + Tiles <= End
  <1>1. PICK d \in Nat : Blocks = (b + 1) + d
    <2>1. Blocks - (b + 1) \in Nat /\ Blocks = (b + 1) + (Blocks - (b + 1))
      BY ConstFacts
    <2> QED BY <2>1
  <1>2. Blocks * Tiles = (b + 1) * Tiles + d * Tiles
    BY <1>1, ConstFacts
  <1>3. d * Tiles >= 0
    BY ConstFacts
  <1> QED BY <1>2, <1>3, NextProduct, ConstFacts DEF End

\* No two blocks of the window have the same slot.
LEMMA SlotsDiffer ==
    ASSUME NEW n \in Nat, NEW b \in n .. n + Depth - 1, Slot(b) = Slot(n)
    PROVE  b = n
  <1>1. b % Depth = n % Depth
    BY DEF Slot
  <1>2. b = Depth * (b \div Depth) + (b % Depth) /\ n = Depth * (n \div Depth) + (n % Depth)
    BY ConstFacts
  <1>3. PICK x \in Int, y \in Int : b = Depth * x + (b % Depth) /\ n = Depth * y + (n % Depth)
    <2>1. b \div Depth \in Int /\ n \div Depth \in Int
      BY ConstFacts
    <2>2. \E x \in Int : b = Depth * x + (b % Depth)
      BY <1>2, <2>1, Zenon
    <2>3. \E y \in Int : n = Depth * y + (n % Depth)
      BY <1>2, <2>1, Zenon
    <2> QED BY <2>2, <2>3
  <1>4. b - n = Depth * (x - y)
    BY <1>1, <1>3, ConstFacts
  <1>5. CASE x - y >= 1
    <2>1. Depth * (x - y) >= Depth
      BY <1>5, ConstFacts
    <2> QED BY <2>1, <1>4, ConstFacts
  <1>6. CASE x - y <= -1
    <2>1. Depth * (x - y) <= -Depth
      BY <1>6, ConstFacts
    <2> QED BY <2>1, <1>4, ConstFacts
  <1> QED BY <1>3, <1>4, <1>5, <1>6, ConstFacts

-----------------------------------------------------------------------------
(* The first state *)

LEMMA InitHolds == Init => IInv
  <1> SUFFICES ASSUME Init PROVE IInv
    OBVIOUS
  <1>0. opt.hybrid \in BOOLEAN /\ opt.read \in BOOLEAN /\ opt.write \in BOOLEAN
    BY DEF Init, Settings
  <1>1. Len(log) = 0 /\ log = <<>> /\ first \in Nat /\ first <= Blocks
    BY ConstFacts DEF Init
  <1>2. appended = first * Tiles /\ Hand = 0 /\ queue["tile"] = <<>> /\ Total = first * Tiles
    BY <1>1, NextProduct, ConstFacts DEF Init, appended, Hand, Total, Queues
  <1>3. first * Tiles \in Nat /\ first * Tiles <= End
    <2>1. CASE first = Blocks
      BY <2>1, ConstFacts DEF End
    <2>2. CASE first < Blocks
      BY <2>2, <1>1, BlockFits, NextProduct, ConstFacts
    <2> QED BY <2>1, <2>2, <1>1, ConstFacts
  <1>4. pc["main"] = "top" /\ pc["writer"] = (IF opt.write THEN "pop" ELSE "exit")
        /\ \A l \in Lanes : pc[l] = IF opt.hybrid THEN "check" ELSE "exit"
    BY DEF Init, Threads, Lanes
  <1>5. Types
    <2>1. pc \in [Threads -> Points]
      <3>1. \A t \in Threads : pc[t] \in Points
        <4>1. pc["io"] \in {"loop", "exit"}
          BY DEF Init, Threads
        <4>2. \A t \in Threads : pc[t] \in {"top", "loop", "pop", "check", "exit"}
          BY <4>1, <1>4 DEF Threads, Lanes
        <4> QED BY <4>2 DEF Points
      <3>2. pc = [t \in Threads |-> pc[t]]
        BY DEF Init
      <3> QED BY <3>1, <3>2
    <2>2. ring \in [0 .. Depth - 1 -> Block \cup {None}]
          /\ held \in [Lanes \cup {"writer"} -> Nat \cup {None}]
      BY DEF Init
    <2>3. queue \in [Queues -> Seq(Nat)] /\ \A q \in Lanes \cup {"res"} : queue[q] \in Seq(Block)
      BY DEF Init, Queues
    <2>4. opt \in Settings /\ next = first /\ log = <<>> /\ committed = first * Tiles
      BY DEF Init
    <2>5. writerFailed \in BOOLEAN
      BY DEF Init
    <2> QED BY <2>1, <2>2, <2>3, <2>4, <2>5, <1>1, <1>3 DEF Types
  <1>6. Path
    <2>1. Locals
      <3>1. bid = first /\ tile = 0 /\ resume = "top"
        BY DEF Init
      <3>2. failed \in BOOLEAN
        BY DEF Init
      <3> QED BY <3>1, <3>2, <1>1, ConstFacts DEF Locals
    <2>2. HybridControl
      BY <1>4 DEF Init, HybridControl, HybridPoints, InLoop
    <2>3. HybridInStep
      BY <1>2 DEF Init, HybridInStep
    <2>4. PlainControl
      BY <1>4 DEF Init, PlainControl, PlainPoints, InTile, PlainWinding
    <2>5. PlainInStep
      BY <1>2, <1>3, <1>4 DEF Init, PlainInStep, Produced
    <2> QED BY <2>1, <2>2, <2>3, <2>4, <2>5 DEF Path
  <1>7. LaneControl
    BY <1>0, <1>4 DEF LaneControl
  <1>8. WriterControl
    BY <1>2, <1>4 DEF Init, WriterControl
  <1>9. Stored
    <2>1. TilesInOrder
      BY <1>1 DEF TilesInOrder
    <2>2. RingInPlace
      BY DEF Init, RingInPlace
    <2>3. QueueInStep
      BY <1>2 DEF Init, QueueInStep
    <2>4. Bounds
      BY <1>2, <1>3 DEF Init, Bounds
    <2> QED BY <2>1, <2>2, <2>3, <2>4 DEF Stored
  <1> QED BY <1>5, <1>6, <1>7, <1>8, <1>9 DEF IInv

(* A step BlockLog does not see, unless it is the return. *)
Quiet ==
    /\ UNCHANGED <<opt, first, log, committed>>
    /\ Ended => Ended' /\ failed' = failed

Kept == UNCHANGED <<opt, first, queue, held, next, ring, writerFailed, log, committed>>

\* The prefetcher's steps.
LEMMA IoKeeps ==
    ASSUME IInv, Kept, UNCHANGED <<bid, tile, resume, failed, closed>>,
           pc' \in [Threads -> Points],
           \A t \in Threads \ {"io"} : pc'[t] = pc[t]
    PROVE  IInv' /\ Quiet
  <1>1. pc'["main"] = pc["main"] /\ pc'["writer"] = pc["writer"]
        /\ \A l \in Lanes : pc'[l] = pc[l]
    BY DEF Threads, Lanes
  <1>2. Types'
    BY DEF IInv, Types, Kept
  <1>3. Path'
    <2>1. Total' = Total /\ appended' = appended
      BY DEF Total, Hand, appended, Kept
    <2>2. Locals' /\ (opt.hybrid => HybridControl' /\ HybridInStep')
      BY <1>1, <2>1 DEF IInv, Path, Locals, HybridControl, InLoop, HybridInStep, Kept
    <2>3. ~opt.hybrid => PlainControl' /\ PlainInStep'
      BY <1>1, <2>1 DEF IInv, Path, PlainControl, PlainInStep, Produced, Kept
    <2> QED BY <2>2, <2>3 DEF Path, Kept
  <1>4. LaneControl' /\ WriterControl'
    BY <1>1 DEF IInv, LaneControl, WriterControl, Kept
  <1>5. Stored'
    BY <1>1 DEF IInv, Stored, TilesInOrder, RingInPlace, QueueInStep, Bounds, Window, Slot,
                Total, Hand, appended, Kept
  <1>6. Quiet
    BY <1>1 DEF Quiet, Kept, Ended
  <1> QED BY <1>2, <1>3, <1>4, <1>5, <1>6 DEF IInv

\* A step of the caller that appends nothing and moves no block: only its own
\* control is left to look at.
LEMMA MainKeeps ==
    ASSUME IInv, ~Ended, Kept, Path', closed \subseteq closed', failed => failed',
           pc' \in [Threads -> Points],
           \A t \in Threads \ {"main"} : pc'[t] = pc[t]
    PROVE  IInv' /\ Quiet
  <1>1. pc'["writer"] = pc["writer"] /\ \A l \in Lanes : pc'[l] = pc[l]
    BY DEF Threads, Lanes
  <1>2. Types'
    BY DEF IInv, Types, Kept
  <1>4. LaneControl' /\ WriterControl'
    BY <1>1 DEF IInv, LaneControl, WriterControl, Kept
  <1>5. Stored'
    BY <1>1 DEF IInv, Stored, TilesInOrder, RingInPlace, QueueInStep, Bounds, Window, Slot,
                Total, Hand, appended, Kept
  <1>6. Quiet
    BY DEF Quiet, Kept
  <1> QED BY <1>2, <1>4, <1>5, <1>6 DEF IInv

\* Moving the caller changes nobody else's control point.
LEMMA MainMoves ==
    ASSUME Types, NEW p \in Points, Goto("main", p)
    PROVE  /\ pc'["main"] = p
           /\ pc' \in [Threads -> Points]
           /\ \A t \in Threads \ {"main"} : pc'[t] = pc[t]
           /\ pc'["writer"] = pc["writer"] /\ \A l \in Lanes : pc'[l] = pc[l]
  <1>1. pc \in [Threads -> Points] /\ "main" \in Threads
    BY DEF Types, Threads
  <1>2. pc' = [pc EXCEPT !["main"] = p]
    BY DEF Goto
  <1> QED BY <1>1, <1>2 DEF Threads, Lanes

\* What a step of the caller that is not a helper's keeps of the path data.
LEMMA SameTotals ==
    ASSUME Kept
    PROVE  Total' = Total /\ appended' = appended /\ next' = next /\ committed' = committed
  BY DEF Kept, Total, Hand, appended

-----------------------------------------------------------------------------
(* The caller: the hybrid path *)

\* A step of the hybrid path that appends nothing and keeps step.
LEMMA HybridMoves ==
    ASSUME IInv, opt.hybrid, ~Ended, Kept, Locals', HybridControl',
           closed \subseteq closed', failed => failed',
           NEW p \in Points, Goto("main", p),
           pc["main"] \in Winding /\ failed => p \in Winding
    PROVE  IInv' /\ Quiet
  <1>1. /\ pc'["main"] = p /\ pc' \in [Threads -> Points]
        /\ \A t \in Threads \ {"main"} : pc'[t] = pc[t]
    BY MainMoves DEF IInv
  <1>2. HybridInStep'
    BY <1>1, SameTotals DEF IInv, Path, HybridInStep, Kept
  <1>3. Path'
    BY <1>2 DEF Path, Kept
  <1> QED BY <1>1, <1>3, MainKeeps

LEMMA TopKeeps == ASSUME IInv, Top PROVE IInv' /\ Quiet
  <1> DEFINE p == IF bid = Blocks THEN Leave
                  ELSE IF ~failed /\ inflight >= Depth THEN "drain" ELSE "dispatch"
  <1>1. /\ opt.hybrid /\ pc["main"] = "top" /\ Goto("main", p) /\ resume' = "top"
        /\ UNCHANGED <<closed, failed, bid, tile>> /\ Kept /\ ~Ended
    BY DEF Top, At, Ended, Kept, settings, sync, order, prefetch, store
  <1>2. Leave \in {"stopio", "close"}
    BY <1>1 DEF Leave, AfterIo
  <1>3. p \in {"stopio", "close", "drain", "dispatch"} /\ (p \in {"drain", "dispatch"} => bid # Blocks)
    BY <1>2
  <1>4. pc'["main"] = p /\ \A l \in Lanes : pc'[l] = pc[l]
    BY <1>1, <1>3, MainMoves DEF IInv, Points
  <1> HIDE DEF p
  <1>5. Locals'
    BY <1>1 DEF IInv, Path, Locals
  <1>6. HybridControl'
    BY <1>1, <1>3, <1>4, ConstFacts DEF IInv, Path, Locals, HybridControl, InLoop, HybridPoints, Winding, Kept
  <1> QED BY <1>1, <1>3, <1>4, <1>5, <1>6, HybridMoves DEF Points, Winding

LEMMA DispatchKeeps == ASSUME IInv, Dispatch, opt.hybrid PROVE IInv' /\ Quiet
  <1> DEFINE p == IF failed THEN Leave ELSE "read"
  <1>1. /\ pc["main"] = "dispatch" /\ Goto("main", p)
        /\ UNCHANGED <<closed, failed, bid, tile, resume>> /\ Kept /\ ~Ended
    BY DEF Dispatch, At, Ended, Kept, settings, sync, order, prefetch, store
  <1>2. p \in {"stopio", "close", "read"} /\ (failed => p # "read")
    BY DEF Leave, AfterIo
  <1>4. pc'["main"] = p /\ \A l \in Lanes : pc'[l] = pc[l]
    BY <1>1, <1>2, MainMoves DEF IInv, Points
  <1> HIDE DEF p
  <1>5. Locals'
    BY <1>1 DEF IInv, Path, Locals
  <1>6. HybridControl'
    BY <1>1, <1>2, <1>4, ConstFacts DEF IInv, Path, Locals, HybridControl, InLoop, HybridPoints, Winding, Kept
  <1> QED BY <1>1, <1>2, <1>4, <1>5, <1>6, HybridMoves DEF Points, Winding

LEMMA TriedKeeps == ASSUME IInv, Tried, opt.hybrid PROVE IInv' /\ Quiet
  <1> DEFINE p == IF failed THEN Leave ELSE "top"
  <1>1. /\ pc["main"] = "tried" /\ Goto("main", p)
        /\ UNCHANGED <<closed, failed, tile, resume>> /\ Kept /\ ~Ended
        /\ bid' = IF failed THEN bid ELSE bid + 1
    BY DEF Tried, At, Ended, Kept, settings, sync, order, prefetch, store
  <1>2. p \in {"stopio", "close", "top"} /\ (failed => p # "top")
    BY DEF Leave, AfterIo
  <1>4. pc'["main"] = p /\ \A l \in Lanes : pc'[l] = pc[l]
    BY <1>1, <1>2, MainMoves DEF IInv, Points
  <1> HIDE DEF p
  <1>5. Locals'
    BY <1>1, ConstFacts DEF IInv, Path, Locals, HybridControl, InLoop
  <1>6. HybridControl'
    BY <1>1, <1>2, <1>4, ConstFacts DEF IInv, Path, Locals, HybridControl, InLoop, HybridPoints, Winding, Kept
  <1> QED BY <1>1, <1>2, <1>4, <1>5, <1>6, HybridMoves DEF Points, Winding

LEMMA NothingToWriteKeeps == ASSUME IInv, NothingToWrite, opt.hybrid PROVE IInv' /\ Quiet
  <1> DEFINE p == IF resume = "try" /\ failed THEN "tried" ELSE resume
  <1>1. /\ pc["main"] = "write" /\ Goto("main", p)
        /\ UNCHANGED <<closed, failed, bid, tile, resume>> /\ Kept /\ ~Ended
    BY DEF NothingToWrite, At, Ended, Kept, settings, sync, order, prefetch, store
  <1>2. p \in {"tried", "top", "try", "final"} /\ (p = resume \/ (p = "tried" /\ resume = "try"))
    BY <1>1 DEF IInv, Path, Locals
  <1>4. pc'["main"] = p /\ \A l \in Lanes : pc'[l] = pc[l]
    BY <1>1, <1>2, MainMoves DEF IInv, Points
  <1> HIDE DEF p
  <1>5. Locals'
    BY <1>1 DEF IInv, Path, Locals
  <1>6. HybridControl'
    BY <1>1, <1>2, <1>4, ConstFacts DEF IInv, Path, Locals, HybridControl, InLoop, HybridPoints, Winding, Kept
  <1> QED BY <1>1, <1>2, <1>4, <1>5, <1>6, HybridMoves DEF Points, Winding

LEMMA CloseAllKeeps == ASSUME IInv, CloseAll, opt.hybrid PROVE IInv' /\ Quiet
  <1>1. /\ pc["main"] = "fail" /\ Goto("main", Broken)
        /\ UNCHANGED <<failed, bid, tile, resume>> /\ Kept /\ ~Ended
        /\ closed' = closed \cup (Lanes \cup {"res"})
    BY DEF CloseAll, Close, At, Ended, Kept, settings, order, prefetch, store
  <1>2. Broken \in {"dispatch", "tried", "closeres"} /\ (Broken # "closeres" => resume \in {"top", "try"})
    BY DEF Broken
  <1>4. pc'["main"] = Broken /\ \A l \in Lanes : pc'[l] = pc[l]
    BY <1>1, <1>2, MainMoves DEF IInv, Points
  <1>5. Locals'
    BY <1>1 DEF IInv, Path, Locals
  <1>6. HybridControl'
    BY <1>1, <1>2, <1>4, ConstFacts DEF IInv, Path, Locals, HybridControl, InLoop, HybridPoints, Winding, Kept
  <1> QED BY <1>1, <1>2, <1>4, <1>5, <1>6, HybridMoves DEF Points, Winding

LEMMA CloseTasksKeeps == ASSUME IInv, CloseTasks, opt.hybrid PROVE IInv' /\ Quiet
  <1>1. /\ pc["main"] = "close" /\ Goto("main", "final") /\ resume' = "final"
        /\ UNCHANGED <<failed, bid, tile>> /\ Kept /\ ~Ended
        /\ closed' = closed \cup Lanes
    BY DEF CloseTasks, Close, At, Ended, Kept, settings, order, prefetch, store
  <1>4. pc'["main"] = "final" /\ \A l \in Lanes : pc'[l] = pc[l]
    BY <1>1, MainMoves DEF IInv, Points
  <1>5. Locals'
    BY <1>1 DEF IInv, Path, Locals
  <1>6. HybridControl'
    BY <1>1, <1>4, ConstFacts DEF IInv, Path, Locals, HybridControl, InLoop, HybridPoints, Winding, Kept, Lanes
  <1> QED BY <1>1, <1>4, <1>5, <1>6, HybridMoves DEF Points, Winding

LEMMA FinalDrainKeeps == ASSUME IInv, FinalDrain, opt.hybrid PROVE IInv' /\ Quiet
  <1> DEFINE p == IF ~failed /\ next < Blocks THEN "drain" ELSE "closeres"
  <1>1. /\ pc["main"] = "final" /\ Goto("main", p)
        /\ UNCHANGED <<closed, failed, bid, tile, resume>> /\ Kept /\ ~Ended
    BY DEF FinalDrain, At, Ended, Kept, settings, sync, order, prefetch, store
  <1>2. p \in {"drain", "closeres"} /\ (failed => p # "drain") /\ (p = "closeres" => failed \/ next = Blocks)
    BY ConstFacts DEF IInv, Types
  <1>4. pc'["main"] = p /\ \A l \in Lanes : pc'[l] = pc[l]
    BY <1>1, <1>2, MainMoves DEF IInv, Points
  <1> HIDE DEF p
  <1>5. Locals'
    BY <1>1 DEF IInv, Path, Locals
  <1>6. HybridControl'
    BY <1>1, <1>2, <1>4, ConstFacts DEF IInv, Path, Locals, HybridControl, InLoop, HybridPoints, Winding, Kept
  <1> QED BY <1>1, <1>2, <1>4, <1>5, <1>6, HybridMoves DEF Points, Winding

LEMMA CloseResultsKeeps == ASSUME IInv, CloseResults, opt.hybrid PROVE IInv' /\ Quiet
  <1>1. /\ pc["main"] = "closeres" /\ Goto("main", "join")
        /\ UNCHANGED <<failed, bid, tile, resume>> /\ Kept /\ ~Ended
        /\ closed' = closed \cup {"res"}
    BY DEF CloseResults, Close, At, Ended, Kept, settings, order, prefetch, store
  <1>4. pc'["main"] = "join" /\ \A l \in Lanes : pc'[l] = pc[l]
    BY <1>1, MainMoves DEF IInv, Points
  <1>5. Locals'
    BY <1>1 DEF IInv, Path, Locals
  <1>6. HybridControl'
    BY <1>1, <1>4, ConstFacts DEF IInv, Path, Locals, HybridControl, InLoop, HybridPoints, Winding, Kept
  <1> QED BY <1>1, <1>4, <1>5, <1>6, HybridMoves DEF Points, Winding

LEMMA JoinLanesKeeps == ASSUME IInv, JoinLanes, opt.hybrid PROVE IInv' /\ Quiet
  <1>1. /\ pc["main"] = "join" /\ Goto("main", "ended") /\ \A l \in Lanes : pc[l] = "exit"
        /\ UNCHANGED <<closed, failed, bid, tile, resume>> /\ Kept /\ ~Ended
    BY DEF JoinLanes, At, Ended, Kept, settings, sync, order, prefetch, store
  <1>4. pc'["main"] = "ended" /\ \A l \in Lanes : pc'[l] = pc[l]
    BY <1>1, MainMoves DEF IInv, Points
  <1>5. Locals'
    BY <1>1 DEF IInv, Path, Locals
  <1>6. HybridControl'
    BY <1>1, <1>4, ConstFacts DEF IInv, Path, Locals, HybridControl, InLoop, HybridPoints, Winding, Kept
  <1> QED BY <1>1, <1>4, <1>5, <1>6, HybridMoves DEF Points, Winding

\* A step of the hybrid path that moves a block and keeps step.
LEMMA HybridHandsOver ==
    ASSUME IInv, opt.hybrid, ~Ended, Locals', HybridControl', Types', RingInPlace',
           UNCHANGED <<opt, first, held, next, writerFailed, log, committed>>,
           queue'["tile"] = queue["tile"],
           closed \subseteq closed', failed => failed',
           pc["main"] \notin Winding,
           \A t \in Threads \ {"main"} : pc'[t] = pc[t]
    PROVE  IInv' /\ Quiet
  <1>1. pc'["writer"] = pc["writer"] /\ \A l \in Lanes : pc'[l] = pc[l]
    BY DEF Threads, Lanes
  <1>2. Total' = Total /\ appended' = appended /\ Hand' = Hand
    BY DEF Total, Hand, appended
  <1>3. Path'
    BY <1>1, <1>2 DEF IInv, Path, HybridInStep
  <1>4. LaneControl' /\ WriterControl'
    BY <1>1 DEF IInv, LaneControl, WriterControl
  <1>5. Stored'
    BY <1>1, <1>2 DEF IInv, Stored, TilesInOrder, QueueInStep, Bounds
  <1>6. Quiet
    BY DEF Quiet
  <1> QED BY <1>3, <1>4, <1>5, <1>6 DEF IInv

\* What Push and PopItem do to the queue of blocks they are used on.
LEMMA PushFacts ==
    ASSUME Types, NEW q \in Lanes \cup {"res"}, NEW b \in Block, NEW t \in Threads,
           NEW p \in Points, NEW s \in Points, Push(t, q, b, p, s)
    PROVE  /\ queue' \in [Queues -> Seq(Nat)] /\ queue'["tile"] = queue["tile"]
           /\ \A r \in Lanes \cup {"res"} : queue'[r] \in Seq(Block)
           /\ pc' \in [Threads -> Points]
           /\ \A u \in Threads \ {t} : pc'[u] = pc[u]
           /\ \/ pc'[t] = p /\ q \notin closed
              \/ pc'[t] = s /\ q \in closed
              \/ pc' = pc /\ q \notin closed
           /\ pc'[t] \in {p, s, pc[t]}
  <1>1. pc \in [Threads -> Points] /\ queue \in [Queues -> Seq(Nat)] /\ q \in Queues /\ q # "tile"
        /\ queue[q] \in Seq(Block) /\ Block \subseteq Nat
    BY ConstFacts DEF Types, Queues, Lanes, Block
  <1>2. CASE queue' = queue /\ ((Goto(t, s) /\ q \in closed) \/ (pc' = pc /\ q \notin closed))
    BY <1>1, <1>2 DEF Goto, Types
  <1>3. CASE queue' = [queue EXCEPT ![q] = Append(@, b)] /\ Goto(t, p) /\ q \notin closed
    <2>1. Append(queue[q], b) \in Seq(Block) /\ Append(queue[q], b) \in Seq(Nat)
      BY <1>1
    <2>2. queue' \in [Queues -> Seq(Nat)] /\ queue'["tile"] = queue["tile"]
          /\ \A r \in Lanes \cup {"res"} : queue'[r] \in Seq(Block)
      BY <1>1, <1>3, <2>1 DEF Types, Queues, Lanes
    <2> QED BY <1>1, <1>3, <2>2 DEF Goto
  <1>4. \/ queue' = queue /\ ((Goto(t, s) /\ q \in closed) \/ (pc' = pc /\ q \notin closed))
        \/ queue' = [queue EXCEPT ![q] = Append(@, b)] /\ Goto(t, p) /\ q \notin closed
    BY DEF Push
  <1> QED BY <1>2, <1>3, <1>4

LEMMA PopFacts ==
    ASSUME Types, NEW q \in Lanes \cup {"res"}, NEW t \in Threads,
           NEW p \in Points, PopItem(t, q, p)
    PROVE  /\ queue' \in [Queues -> Seq(Nat)] /\ queue'["tile"] = queue["tile"]
           /\ \A r \in Lanes \cup {"res"} : queue'[r] \in Seq(Block)
           /\ pc' \in [Threads -> Points]
           /\ \A u \in Threads \ {t} : pc'[u] = pc[u]
           /\ pc'[t] = p
           /\ Head(queue[q]) \in Block
  <1>1. pc \in [Threads -> Points] /\ queue \in [Queues -> Seq(Nat)] /\ q \in Queues /\ q # "tile"
        /\ queue[q] \in Seq(Block) /\ queue[q] \in Seq(Nat)
    BY DEF Types, Queues, Lanes
  <1>2. queue[q] # <<>> /\ queue' = [queue EXCEPT ![q] = Tail(@)] /\ Goto(t, p)
    BY DEF PopItem
  <1>3. Tail(queue[q]) \in Seq(Block) /\ Tail(queue[q]) \in Seq(Nat) /\ Head(queue[q]) \in Block
    BY <1>1, <1>2
  <1>4. queue' \in [Queues -> Seq(Nat)] /\ queue'["tile"] = queue["tile"]
        /\ \A r \in Lanes \cup {"res"} : queue'[r] \in Seq(Block)
    BY <1>1, <1>2, <1>3 DEF Types, Queues, Lanes
  <1> QED BY <1>1, <1>2, <1>3, <1>4 DEF Goto

LEMMA PushTaskKeeps == ASSUME IInv, PushTask PROVE IInv' /\ Quiet
  <1>1. /\ opt.hybrid /\ pc["main"] = "push" /\ ~Ended /\ resume' = "try"
        /\ UNCHANGED <<opt, first, held, next, writerFailed, log, committed, ring>>
        /\ UNCHANGED <<closed, failed, bid, tile>>
        /\ Push("main", Lane(bid), bid, "try", Leave)
    BY DEF PushTask, At, Ended, settings, prefetch, store
  <1>2. Leave \in {"stopio", "close"} /\ Lane(bid) \in Lanes
    BY <1>1 DEF Leave, AfterIo, Lane, Lanes
  <1>3. bid \in Block
    BY <1>1, ConstFacts DEF IInv, Path, Locals, HybridControl, InLoop, Block
  <1>4. /\ queue' \in [Queues -> Seq(Nat)] /\ queue'["tile"] = queue["tile"]
        /\ \A r \in Lanes \cup {"res"} : queue'[r] \in Seq(Block)
        /\ pc' \in [Threads -> Points]
        /\ \A u \in Threads \ {"main"} : pc'[u] = pc[u]
        /\ pc'["main"] \in {"try", Leave, "push"}
    <2>1. "main" \in Threads /\ "try" \in Points /\ Leave \in Points /\ Types
      BY <1>2 DEF Threads, Points, IInv
    <2> QED BY <1>1, <1>2, <1>3, <2>1, PushFacts
  <1>5. Types'
    BY <1>1, <1>4 DEF IInv, Types
  <1>6. Locals' /\ RingInPlace'
    BY <1>1 DEF IInv, Path, Locals, Stored, RingInPlace, Window, Slot
  <1>7. HybridControl'
    BY <1>1, <1>2, <1>4 DEF IInv, Path, HybridControl, InLoop, HybridPoints, Winding
  <1> QED BY <1>1, <1>4, <1>5, <1>6, <1>7, HybridHandsOver DEF Winding

\* A result popped from the lanes goes to its slot of the ring.
LEMMA ArriveFacts ==
    ASSUME IInv, Arrive(Head(queue["res"])), UNCHANGED <<opt, first, held, next, writerFailed, log, committed>>
    PROVE  /\ Types' /\ RingInPlace' /\ queue'["tile"] = queue["tile"]
           /\ failed' \in BOOLEAN /\ (failed => failed')
           /\ \A u \in Threads \ {"main"} : pc'[u] = pc[u]
           /\ pc'["main"] = "write" \/ (pc'["main"] = "fail" /\ failed')
  <1> DEFINE b == Head(queue["res"])
  <1>1. PICK p \in {"write", "fail"} :
            /\ PopItem("main", "res", p)
            /\ \/ /\ p = "write" /\ failed' = failed
                  /\ b \in Window /\ ring' = [ring EXCEPT ![Slot(b)] = b]
               \/ p = "fail" /\ failed' = TRUE /\ ring' = ring
    BY DEF Arrive
  <1>2. /\ queue' \in [Queues -> Seq(Nat)] /\ queue'["tile"] = queue["tile"]
        /\ \A r \in Lanes \cup {"res"} : queue'[r] \in Seq(Block)
        /\ pc' \in [Threads -> Points]
        /\ \A u \in Threads \ {"main"} : pc'[u] = pc[u]
        /\ pc'["main"] = p
        /\ b \in Block
    <2>1. "main" \in Threads /\ p \in Points /\ Types
      BY <1>1 DEF Threads, Points, IInv
    <2> QED BY <1>1, <2>1, PopFacts
  <1> HIDE DEF b
  <1>3. b \in Nat /\ Slot(b) \in 0 .. Depth - 1
    BY <1>2, ConstFacts DEF Slot, Block
  <1>4. ring' \in [0 .. Depth - 1 -> Block \cup {None}]
    BY <1>1, <1>2, <1>3 DEF IInv, Types
  <1>5. Types'
    BY <1>2, <1>4 DEF IInv, Types
  <1>6. RingInPlace'
    <2>1. \A s \in 0 .. Depth - 1 : ring'[s] = ring[s] \/ (ring'[s] = b /\ s = Slot(b) /\ b \in Window)
      BY <1>1, <1>3 DEF IInv, Types
    <2>2. Window' = Window
      BY DEF Window
    <2> QED BY <2>1, <2>2 DEF IInv, Stored, RingInPlace, Slot
  <1>7. failed' \in BOOLEAN /\ (failed => failed')
    <2>1. failed \in BOOLEAN
      BY DEF IInv, Path, Locals
    <2>2. failed' = failed \/ failed' = TRUE
      BY <1>1
    <2> QED BY <2>1, <2>2, Zenon
  <1>8. pc'["main"] = "write" \/ (pc'["main"] = "fail" /\ failed')
    BY <1>1, <1>2
  <1> QED BY <1>2, <1>5, <1>6, <1>7, <1>8

LEMMA ResultKeeps ==
    ASSUME IInv, opt.hybrid, pc["main"] \in {"drain", "try"}, Arrive(Head(queue["res"])),
           UNCHANGED <<opt, first, held, next, writerFailed, log, committed>>,
           UNCHANGED <<closed, bid, tile, resume>>
    PROVE  IInv' /\ Quiet
  <1>1. /\ Types' /\ RingInPlace' /\ queue'["tile"] = queue["tile"]
        /\ failed' \in BOOLEAN /\ (failed => failed')
        /\ \A u \in Threads \ {"main"} : pc'[u] = pc[u]
        /\ pc'["main"] = "write" \/ (pc'["main"] = "fail" /\ failed')
    BY ArriveFacts
  <1>2. Locals'
    BY <1>1 DEF IInv, Path, Locals
  <1>3. HybridControl'
    BY <1>1 DEF IInv, Path, HybridControl, InLoop, HybridPoints, Winding
  <1> QED BY <1>1, <1>2, <1>3, HybridHandsOver DEF Winding, Ended

LEMMA DrainKeeps == ASSUME IInv, Drain, opt.hybrid PROVE IInv' /\ Quiet
  <1>1. /\ pc["main"] = "drain" /\ ~Ended
        /\ UNCHANGED <<opt, first, held, next, writerFailed, log, committed>>
        /\ UNCHANGED <<closed, bid, tile, resume>>
    BY DEF Drain, At, Ended, settings, prefetch, store
  <1>2. CASE queue["res"] # <<>> /\ Arrive(Head(queue["res"]))
    BY <1>1, <1>2, ResultKeeps
  <1>3. CASE PopClosed("main", "res", Broken) /\ UNCHANGED <<ring, failed>>
    <2>1. Kept /\ Goto("main", Broken) /\ "res" \in closed
      BY <1>1, <1>3 DEF PopClosed, Kept
    <2>2. Broken \in {"dispatch", "tried", "closeres"} /\ (Broken # "closeres" => resume \in {"top", "try"})
      BY DEF Broken
    <2>3. pc'["main"] = Broken /\ \A l \in Lanes : pc'[l] = pc[l]
      BY <2>1, <2>2, MainMoves DEF IInv, Points
    <2>4. Locals'
      BY <1>1, <1>3 DEF IInv, Path, Locals
    <2>5. HybridControl'
      BY <1>1, <1>3, <2>1, <2>2, <2>3 DEF IInv, Path, HybridControl, InLoop, HybridPoints, Winding, Kept
    <2> QED BY <1>1, <1>3, <2>1, <2>2, <2>4, <2>5, HybridMoves DEF Points, Winding
  <1>4. CASE PopSleep("main", "res") /\ UNCHANGED <<ring, failed>>
    <2>1. Kept /\ pc' = pc
      BY <1>1, <1>4 DEF PopSleep, Kept
    <2>2. Path'
      BY <1>1, <1>4, <2>1, SameTotals DEF IInv, Path, Locals, HybridControl, InLoop, HybridInStep, Kept
    <2> QED BY <1>1, <1>4, <2>1, <2>2, MainKeeps DEF IInv, Types
  <1> QED BY <1>2, <1>3, <1>4 DEF Drain

LEMMA TryDrainKeeps == ASSUME IInv, TryDrain, opt.hybrid PROVE IInv' /\ Quiet
  <1>1. /\ pc["main"] = "try" /\ ~Ended
        /\ UNCHANGED <<opt, first, held, next, writerFailed, log, committed>>
        /\ UNCHANGED <<closed, bid, tile, resume>>
    BY DEF TryDrain, At, Ended, settings, prefetch, store
  <1>2. CASE queue["res"] # <<>> /\ Arrive(Head(queue["res"]))
    BY <1>1, <1>2, ResultKeeps
  <1>3. CASE Goto("main", "tried") /\ UNCHANGED <<queue, asleep, ring, failed>>
    <2>1. Kept
      BY <1>1, <1>3 DEF Kept
    <2>3. pc'["main"] = "tried" /\ \A l \in Lanes : pc'[l] = pc[l]
      BY <1>3, MainMoves DEF IInv, Points
    <2>4. Locals'
      BY <1>1, <1>3 DEF IInv, Path, Locals
    <2>5. HybridControl'
      BY <1>1, <1>3, <2>1, <2>3 DEF IInv, Path, HybridControl, InLoop, HybridPoints, Winding, Kept
    <2> QED BY <1>1, <1>3, <2>1, <2>4, <2>5, HybridMoves DEF Points, Winding
  <1> QED BY <1>2, <1>3 DEF TryDrain

-----------------------------------------------------------------------------
(* Appending *)

\* A step that BlockLog sees as an extension, with a commit or without.
Extends ==
    /\ ~Ended /\ ~Ended'
    /\ UNCHANGED <<opt, first>>
    /\ appended' \in appended + 1 .. End
    /\ \/ committed' = committed
       \/ opt.commit /\ committed' = appended'

LEMMA BlockAppended ==
    ASSUME log \in Seq(Nat), TilesInOrder, first \in Nat, first' = first,
           NEW n \in Nat, appended = n * Tiles, log' = log \o TilesOf(n)
    PROVE  log' \in Seq(Nat) /\ TilesInOrder' /\ appended' = n * Tiles + Tiles
  <1>1. PICK x \in Nat, y \in Nat : x = n * Tiles /\ y = first * Tiles
    BY NextProduct
  <1>2. PICK s \in Seq(Nat) : s = TilesOf(n) /\ Len(s) = Tiles
                            /\ \A t \in 1 .. Tiles : s[t] = x + t - 1
    <2>1. TilesOf(n) = [t \in 1 .. Tiles |-> x + t - 1]
      BY <1>1 DEF TilesOf
    <2>2. \A t \in 1 .. Tiles : x + t - 1 \in Nat
      BY ConstFacts
    <2>3. TilesOf(n) \in Seq(Nat) /\ Len(TilesOf(n)) = Tiles
          /\ \A t \in 1 .. Tiles : TilesOf(n)[t] = x + t - 1
      BY <2>1, <2>2, ConstFacts
    <2> QED BY <2>3
  <1>3. log' = log \o s
    BY <1>2
  <1>4. /\ log' \in Seq(Nat) /\ Len(log') = Len(log) + Tiles
        /\ \A i \in 1 .. Len(log') :
                log'[i] = IF i <= Len(log) THEN log[i] ELSE s[i - Len(log)]
    <2>1. Len(log) \in Nat /\ Len(s) \in Nat
      OBVIOUS
    <2>2. log \o s \in Seq(Nat) /\ Len(log \o s) = Len(log) + Len(s)
      OBVIOUS
    <2>3. \A i \in 1 .. Len(log) + Len(s) :
            (log \o s)[i] = IF i <= Len(log) THEN log[i] ELSE s[i - Len(log)]
      OBVIOUS
    <2> QED BY <1>2, <1>3, <2>1, <2>2, <2>3
  <1>5. x = y + Len(log)
    BY <1>1 DEF appended
  <1>6. appended' = x + Tiles
    <2>1. appended' = y + Len(log')
      BY <1>1 DEF appended
    <2>2. Len(log) \in Nat
      OBVIOUS
    <2> QED BY <1>4, <1>5, <2>1, <2>2, ConstFacts
  <1>7. \A i \in 1 .. Len(log') : log'[i] = y + i - 1
    <2> TAKE i \in 1 .. Len(log')
    <2>1. CASE i <= Len(log)
      <3>1. log[i] = y + i - 1
        BY <2>1, <1>1, <1>4 DEF TilesInOrder
      <3> QED BY <2>1, <3>1, <1>4
    <2>2. CASE i > Len(log)
      <3>1. i - Len(log) \in 1 .. Tiles
        BY <2>2, <1>4, ConstFacts
      <3>2. log'[i] = x + (i - Len(log)) - 1
        BY <2>2, <3>1, <1>2, <1>4
      <3> QED BY <3>2, <1>5
    <2> QED BY <2>1, <2>2, <1>4
  <1>8. TilesInOrder'
    BY <1>1, <1>7 DEF TilesInOrder
  <1> QED BY <1>1, <1>4, <1>6, <1>8

\* The slot of next can hold next alone, and then the log is in step.
LEMMA SlotOfNext ==
    ASSUME IInv, opt.hybrid, pc["main"] = "write", next < Blocks, ring[Slot(next)] # None
    PROVE  /\ ring[Slot(next)] = next /\ next \in Nat /\ first \in Nat
           /\ appended = next * Tiles /\ Total = appended
           /\ opt.commit => committed = next * Tiles
           /\ next * Tiles \in Nat /\ next * Tiles + Tiles <= End
           /\ (next + 1) * Tiles = next * Tiles + Tiles
           /\ Slot(next) \in 0 .. Depth - 1
           /\ queue["tile"] = <<>> /\ held["writer"] = None /\ ~opt.write /\ pc["writer"] = "exit"
  <1>1. next \in Nat /\ first \in Nat
    BY ConstFacts DEF IInv, Types
  <1>2. Slot(next) \in 0 .. Depth - 1
    BY <1>1, ConstFacts DEF Slot
  <1>3. ring[Slot(next)] = next
    <2>1. ring[Slot(next)] \in Window /\ Slot(ring[Slot(next)]) = Slot(next)
      BY <1>2 DEF IInv, Stored, RingInPlace
    <2> QED BY <1>1, <2>1, SlotsDiffer DEF Window
  <1>4. appended = next * Tiles /\ (opt.commit => committed = next * Tiles)
    BY DEF IInv, Path, HybridInStep, Winding
  <1>5. next * Tiles \in Nat /\ (next + 1) * Tiles = next * Tiles + Tiles /\ next * Tiles + Tiles <= End
    BY <1>1, NextProduct, BlockFits
  <1>6. ~opt.write
    BY DEF IInv, Types, Settings
  <1>7. queue["tile"] = <<>> /\ held["writer"] = None /\ pc["writer"] = "exit"
    BY <1>6 DEF IInv, WriterControl
  <1>8. Total = appended
    BY <1>7, <1>4, <1>5 DEF Total, Hand
  <1> QED BY <1>1, <1>2, <1>3, <1>4, <1>5, <1>6, <1>7, <1>8

LEMMA WriteBlockKeeps == ASSUME IInv, WriteBlock, opt.hybrid PROVE IInv' /\ Extends
  <1>1. /\ pc["main"] = "write" /\ next < Blocks /\ ring[Slot(next)] # None
        /\ UNCHANGED <<opt, first, queue, held, writerFailed, pc>>
        /\ UNCHANGED <<closed, bid, tile, resume, failed>>
        /\ Written(ring[Slot(next)])
        /\ ring' = [ring EXCEPT ![Slot(next)] = None] /\ next' = next + 1
    BY DEF WriteBlock, At, settings, sync, prefetch
  <1>2. /\ ring[Slot(next)] = next /\ next \in Nat /\ first \in Nat
        /\ appended = next * Tiles /\ Total = appended
        /\ opt.commit => committed = next * Tiles
        /\ next * Tiles \in Nat /\ next * Tiles + Tiles <= End
        /\ (next + 1) * Tiles = next * Tiles + Tiles
        /\ Slot(next) \in 0 .. Depth - 1
        /\ queue["tile"] = <<>> /\ held["writer"] = None /\ ~opt.write /\ pc["writer"] = "exit"
    BY <1>1, SlotOfNext
  <1>3. /\ log' = log \o TilesOf(next)
        /\ committed' = IF opt.commit THEN (next + 1) * Tiles ELSE committed
    BY <1>1, <1>2 DEF Written
  <1>4. log' \in Seq(Nat) /\ TilesInOrder' /\ appended' = next * Tiles + Tiles
    BY <1>1, <1>2, <1>3, BlockAppended DEF IInv, Types, Stored
  <1>5. committed' \in Nat /\ committed' <= appended' /\ (opt.commit => committed' = next' * Tiles)
    BY <1>1, <1>2, <1>3, <1>4, ConstFacts DEF IInv, Types, Stored, Bounds
  <1>6. Total' = appended'
    BY <1>1, <1>2, <1>4, ConstFacts DEF Total, Hand
  <1>7. Types'
    <2>1. ring' \in [0 .. Depth - 1 -> Block \cup {None}]
      BY <1>1, <1>2 DEF IInv, Types
    <2>2. next' \in 0 .. Blocks
      BY <1>1, <1>2, ConstFacts
    <2> QED BY <1>1, <1>4, <1>5, <2>1, <2>2 DEF IInv, Types
  <1>8. Path'
    <2>1. Locals'
      BY <1>1 DEF IInv, Path, Locals
    <2>2. HybridControl'
      BY <1>1 DEF IInv, Path, HybridControl, InLoop
    <2>3. HybridInStep'
      BY <1>1, <1>2, <1>4, <1>5 DEF HybridInStep
    <2> QED BY <1>1, <2>1, <2>2, <2>3 DEF Path
  <1>9. LaneControl' /\ WriterControl'
    BY <1>1, <1>2 DEF IInv, LaneControl, WriterControl
  <1>10. RingInPlace'
    <2> SUFFICES ASSUME NEW s \in 0 .. Depth - 1, ring'[s] # None
                 PROVE  ring'[s] \in Window' /\ Slot(ring'[s]) = s
      BY DEF RingInPlace, Slot
    <2>1. s # Slot(next) /\ ring'[s] = ring[s]
      BY <1>1, <1>2 DEF IInv, Types
    <2>2. ring[s] \in Window /\ Slot(ring[s]) = s
      BY <2>1 DEF IInv, Stored, RingInPlace
    <2>3. ring[s] # next
      BY <2>1, <2>2
    <2>4. next' = next + 1 /\ next \in Nat /\ Depth \in Nat
      BY <1>1, <1>2, ConstFacts
    <2>5. ring[s] \in next' .. next' + Depth - 1
      BY <2>2, <2>3, <2>4 DEF Window
    <2> QED BY <2>1, <2>2, <2>5 DEF Window
  <1>11. QueueInStep'
    BY <1>1, <1>2 DEF QueueInStep
  <1>12. Bounds'
    BY <1>2, <1>4, <1>5, <1>6 DEF Bounds, End
  <1>13. Extends
    <2>1. appended' \in appended + 1 .. End
      BY <1>2, <1>4, ConstFacts
    <2>2. committed' = committed \/ (opt.commit /\ committed' = appended')
      BY <1>2, <1>3, <1>4
    <2> QED BY <1>1, <2>1, <2>2 DEF Extends, Ended
  <1> QED BY <1>4, <1>7, <1>8, <1>9, <1>10, <1>11, <1>12, <1>13 DEF IInv, Stored

LEMMA WriteBlockFailsKeeps ==
    ASSUME IInv, WriteBlockFails, opt.hybrid
    PROVE  IInv' /\ (Quiet \/ Extends)
  <1>1. /\ pc["main"] = "write" /\ next < Blocks /\ ring[Slot(next)] # None
        /\ UNCHANGED <<opt, first, queue, held, writerFailed, committed>>
        /\ UNCHANGED <<closed, bid, tile, resume, next, ring>>
        /\ UNCHANGED log \/ (opt.commit /\ log' = log \o TilesOf(ring[Slot(next)]))
        /\ failed' = TRUE /\ Goto("main", "fail")
    BY DEF WriteBlockFails, At, settings, sync, order, prefetch
  <1>2. /\ ring[Slot(next)] = next /\ next \in Nat /\ first \in Nat
        /\ appended = next * Tiles /\ Total = appended
        /\ opt.commit => committed = next * Tiles
        /\ next * Tiles \in Nat /\ next * Tiles + Tiles <= End
        /\ (next + 1) * Tiles = next * Tiles + Tiles
        /\ Slot(next) \in 0 .. Depth - 1
        /\ queue["tile"] = <<>> /\ held["writer"] = None /\ ~opt.write /\ pc["writer"] = "exit"
    BY <1>1, SlotOfNext
  <1>3. /\ log' \in Seq(Nat) /\ TilesInOrder'
        /\ \/ log' = log /\ appended' = appended
           \/ appended' = next * Tiles + Tiles
    <2>1. CASE log' = log
      BY <2>1, <1>1 DEF IInv, Types, Stored, TilesInOrder, appended
    <2>2. CASE log' = log \o TilesOf(next)
      BY <2>2, <1>1, <1>2, BlockAppended DEF IInv, Types, Stored
    <2> QED BY <1>1, <1>2, <2>1, <2>2
  <1>4. /\ pc'["main"] = "fail" /\ pc' \in [Threads -> Points]
        /\ pc'["writer"] = pc["writer"] /\ \A l \in Lanes : pc'[l] = pc[l]
    BY <1>1, MainMoves DEF IInv, Points
  <1>5. Total' = appended'
    BY <1>1, <1>2, <1>3, ConstFacts DEF Total, Hand
  <1>6. Types'
    BY <1>1, <1>3, <1>4 DEF IInv, Types
  <1>7. Path'
    <2>1. Locals'
      BY <1>1 DEF IInv, Path, Locals
    <2>2. HybridControl'
      BY <1>1, <1>4 DEF IInv, Path, HybridControl, InLoop, HybridPoints, Winding
    <2>3. HybridInStep'
      BY <1>1, <1>4 DEF HybridInStep, Winding
    <2> QED BY <1>1, <2>1, <2>2, <2>3 DEF Path
  <1>8. LaneControl' /\ WriterControl'
    BY <1>1, <1>2, <1>4 DEF IInv, LaneControl, WriterControl
  <1>9. RingInPlace' /\ QueueInStep'
    BY <1>1, <1>2, <1>4 DEF IInv, Stored, RingInPlace, Slot, Window, QueueInStep
  <1>10. Bounds'
    <2>1. committed <= appended /\ committed \in Nat /\ Total <= End
      BY DEF IInv, Stored, Bounds, Types
    <2>2. PICK x \in Nat : x = next * Tiles
      BY <1>2
    <2>3. /\ appended = x /\ x + Tiles <= End
          /\ appended' = x \/ appended' = x + Tiles
      BY <1>2, <1>3, <2>2
    <2>4. committed' <= appended' /\ appended' <= End
      BY <1>1, <2>1, <2>3, ConstFacts
    <2> QED BY <1>5, <2>4 DEF Bounds
  <1>11. Quiet \/ Extends
    BY <1>1, <1>2, <1>3, <1>4, ConstFacts DEF Quiet, Extends, Ended
  <1> QED BY <1>3, <1>6, <1>7, <1>8, <1>9, <1>10, <1>11 DEF IInv, Stored

-----------------------------------------------------------------------------
(* The caller: reading, on both paths, and the plain path *)

\* A step of the plain path that appends nothing and keeps step, or gives up.
LEMMA PlainMoves ==
    ASSUME IInv, ~opt.hybrid, ~Ended, Kept, Locals', PlainControl',
           closed \subseteq closed', failed => failed',
           NEW p \in Points, Goto("main", p),
           \/ failed' /\ p \in PlainWinding
           \/ ~failed /\ Produced' = Produced /\ bid' = bid
    PROVE  IInv' /\ Quiet
  <1>1. /\ pc'["main"] = p /\ pc' \in [Threads -> Points]
        /\ \A t \in Threads \ {"main"} : pc'[t] = pc[t]
    BY MainMoves DEF IInv
  <1>2. PlainInStep'
    BY <1>1, SameTotals DEF IInv, Path, PlainInStep, Kept
  <1>3. Path'
    BY <1>2 DEF Path, Kept
  <1> QED BY <1>1, <1>3, MainKeeps

GiveUpAt == IF opt.hybrid THEN "fail" ELSE IF opt.write THEN "closetile"
            ELSE IF opt.read THEN "stopio" ELSE "ended"

\* Giving up leaves the plain path where it only winds up.
LEMMA PlainGivesUp ==
    ASSUME IInv, ~opt.hybrid, ~Ended, Kept, UNCHANGED <<bid, tile, resume, closed>>,
           GiveUp
    PROVE  IInv' /\ Quiet
  <1>1. GiveUpAt \in PlainWinding /\ GiveUpAt \in Points /\ Goto("main", GiveUpAt) /\ failed' = TRUE
    BY DEF GiveUp, GiveUpAt, PlainWinding, Points
  <1>2. /\ pc'["main"] = GiveUpAt /\ pc'["writer"] = pc["writer"]
    BY <1>1, MainMoves DEF IInv
  <1>3. Locals'
    <2>1. failed' \in BOOLEAN
      BY <1>1
    <2> QED BY <2>1 DEF IInv, Path, Locals
  <1>4. opt.hybrid \in BOOLEAN /\ opt.write \in BOOLEAN /\ opt.read \in BOOLEAN
    BY DEF IInv, Types, Settings
  <1>5. /\ GiveUpAt \in {"closetile", "stopio", "ended"}
        /\ GiveUpAt = "closetile" => opt.write
        /\ GiveUpAt # "closetile" => ~opt.write
    BY <1>4 DEF GiveUpAt
  <1>6. ~opt.write => pc["writer"] = "exit"
    BY DEF IInv, WriterControl
  <1>7. PlainControl'
    BY <1>1, <1>2, <1>5, <1>6 DEF PlainControl, PlainPoints, PlainWinding, InTile, Kept
  <1> QED BY <1>1, <1>3, <1>7, PlainMoves

LEMMA ReadingFacts ==
    ASSUME IInv, Reading
    PROVE  /\ Kept /\ UNCHANGED <<closed, bid, tile, resume>> /\ ~Ended
           /\ \/ GiveUp /\ pc["main"] = "read"
              \/ /\ failed' = failed
                 /\ \E p \in Points : Goto("main", p) /\ <<pc["main"], p>> \in
                        {<<"read", IF opt.hybrid THEN "push" ELSE "encode">>,
                         <<"read", "blocking">>, <<"blocking", "read">>,
                         <<"stopio", "wakeio">>, <<"wakeio", "joinio">>, <<"joinio", AfterIo>>}
  <1> DEFINE Moving(x, p) == pc["main"] = x /\ p \in Points /\ Goto("main", p) /\ failed' = failed
  <1>0. AfterIo \in Points
    BY DEF AfterIo, Points
  <1>1. CASE ReadBlock
    <2>1. Kept /\ UNCHANGED <<closed, bid, tile, resume>> /\ pc["main"] = "read"
      BY <1>1 DEF ReadBlock, At, Kept, settings, sync, order, store
    <2>2. GiveUp \/ Moving("read", IF opt.hybrid THEN "push" ELSE "encode")
      BY <1>1, <2>1 DEF ReadBlock, Points
    <2> QED BY <2>1, <2>2 DEF Ended
  <1>2. CASE PopBlock
    <2>1. Kept /\ UNCHANGED <<closed, bid, tile, resume>> /\ pc["main"] = "read"
      BY <1>2 DEF PopBlock, At, Kept, settings, sync, order, store
    <2>2. GiveUp \/ Moving("read", IF opt.hybrid THEN "push" ELSE "encode")
      BY <1>2, <2>1 DEF PopBlock, Points
    <2> QED BY <2>1, <2>2 DEF Ended
  <1>3. CASE PopBlockWaits
    <2>1. Kept /\ UNCHANGED <<closed, bid, tile, resume>> /\ Moving("read", "blocking")
      BY <1>3 DEF PopBlockWaits, At, Kept, settings, sync, order, store, Points
    <2> QED BY <2>1 DEF Ended
  <1>4. CASE PopBlockSleeps
    <2>1. Kept /\ UNCHANGED <<closed, bid, tile, resume>> /\ Moving("blocking", "read")
      BY <1>4 DEF PopBlockSleeps, At, Kept, settings, order, store, Points
    <2> QED BY <2>1 DEF Ended
  <1>5. CASE StopIo
    <2>1. Kept /\ UNCHANGED <<closed, bid, tile, resume>> /\ Moving("stopio", "wakeio")
      BY <1>5 DEF StopIo, At, Kept, settings, sync, order, store, Points
    <2> QED BY <2>1 DEF Ended
  <1>6. CASE WakeIo
    <2>1. Kept /\ UNCHANGED <<closed, bid, tile, resume>> /\ Moving("wakeio", "joinio")
      BY <1>6 DEF WakeIo, At, Kept, settings, order, store, Points
    <2> QED BY <2>1 DEF Ended
  <1>7. CASE JoinIo
    <2>1. Kept /\ UNCHANGED <<closed, bid, tile, resume>> /\ Moving("joinio", AfterIo)
      BY <1>7, <1>0 DEF JoinIo, At, Kept, settings, sync, order, store
    <2> QED BY <2>1 DEF Ended
  <1> QED BY <1>1, <1>2, <1>3, <1>4, <1>5, <1>6, <1>7 DEF Reading

LEMMA ReadingKeeps == ASSUME IInv, Reading PROVE IInv' /\ Quiet
  <1>1. Kept /\ UNCHANGED <<closed, bid, tile, resume>> /\ ~Ended
    BY ReadingFacts
  <1>2. CASE GiveUp /\ opt.hybrid /\ pc["main"] = "read"
    <2>1. Goto("main", "fail") /\ failed' = TRUE
      BY <1>2 DEF GiveUp
    <2>2. pc'["main"] = "fail"
      BY <2>1, MainMoves DEF IInv, Points
    <2>3. Locals'
      <3>1. failed' \in BOOLEAN
        BY <2>1
      <3> QED BY <3>1, <1>1 DEF IInv, Path, Locals
    <2>4. HybridControl'
      BY <1>1, <1>2, <2>1, <2>2 DEF IInv, Path, Locals, HybridControl, InLoop, HybridPoints, Winding, Kept
    <2> QED BY <1>1, <1>2, <2>1, <2>3, <2>4, HybridMoves DEF Points, Winding
  <1>3. CASE GiveUp /\ ~opt.hybrid
    BY <1>1, <1>3, PlainGivesUp
  <1>4. ASSUME NEW p \in Points, Goto("main", p), failed' = failed,
               <<pc["main"], p>> \in
                        {<<"read", IF opt.hybrid THEN "push" ELSE "encode">>,
                         <<"read", "blocking">>, <<"blocking", "read">>,
                         <<"stopio", "wakeio">>, <<"wakeio", "joinio">>, <<"joinio", AfterIo>>}
        PROVE  IInv' /\ Quiet
    <2>1. pc'["main"] = p /\ pc'["writer"] = pc["writer"] /\ \A l \in Lanes : pc'[l] = pc[l]
      BY <1>4, MainMoves DEF IInv
    <2>2. Locals'
      BY <1>1, <1>4 DEF IInv, Path, Locals
    <2>3. CASE opt.hybrid
      <3>1. \/ pc["main"] = "read" /\ p \in {"push", "blocking"}
            \/ pc["main"] = "blocking" /\ p = "read"
            \/ pc["main"] \in {"stopio", "wakeio", "joinio"} /\ p \in {"wakeio", "joinio", "close"}
        BY <1>4, <2>3 DEF AfterIo
      <3>2. HybridControl'
        BY <1>1, <1>4, <2>1, <2>3, <3>1 DEF IInv, Path, HybridControl, InLoop, HybridPoints, Winding, Kept
      <3> QED BY <1>1, <1>4, <2>2, <2>3, <3>1, <3>2, HybridMoves DEF Winding
    <2>4. CASE ~opt.hybrid
      <3>1. \/ pc["main"] = "read" /\ p \in {"encode", "blocking"}
            \/ pc["main"] = "blocking" /\ p = "read"
            \/ pc["main"] = "stopio" /\ p = "wakeio"
            \/ pc["main"] = "wakeio" /\ p = "joinio"
            \/ pc["main"] = "joinio" /\ p = IF failed THEN "ended" ELSE "finish"
        BY <1>4, <2>4 DEF AfterIo
      <3>2. PlainControl
        BY <2>4 DEF IInv, Path
      <3>3. PlainControl'
        BY <1>1, <1>4, <2>1, <2>4, <3>1, <3>2, ConstFacts
           DEF PlainControl, PlainPoints, InTile, PlainWinding, Kept
      <3>4. Produced' = Produced
        BY <1>1, <2>1, <3>1, <3>2 DEF Produced, PlainControl
      <3>5. failed => p \in PlainWinding
        BY <3>1, <3>2 DEF PlainControl, PlainWinding
      <3>6. failed \in BOOLEAN
        BY DEF IInv, Path, Locals
      <3> QED BY <1>1, <1>4, <2>2, <2>4, <3>3, <3>4, <3>5, <3>6, PlainMoves
    <2> QED BY <2>3, <2>4
  <1> QED BY <1>2, <1>3, <1>4, ReadingFacts

LEMMA PlainTopKeeps == ASSUME IInv, PlainTop PROVE IInv' /\ Quiet
  <1> DEFINE p == IF bid = Blocks THEN Leave ELSE "read"
  <1>1. /\ ~opt.hybrid /\ pc["main"] = "top" /\ Goto("main", p) /\ tile' = 0
        /\ UNCHANGED <<closed, failed, bid, resume>> /\ Kept /\ ~Ended
    BY DEF PlainTop, At, Ended, Kept, settings, sync, order, prefetch, store
  <1>2. PlainControl /\ ~failed /\ bid \in 0 .. Blocks
    BY <1>1 DEF IInv, Path, PlainControl, PlainWinding, Locals
  <1>3. p \in {"stopio", "finish", "read"} /\ (p # "read" => bid = Blocks) /\ (p = "read" => bid < Blocks)
    BY <1>1, <1>2, ConstFacts DEF Leave, AfterIo
  <1>4. pc'["main"] = p /\ pc'["writer"] = pc["writer"]
    BY <1>1, <1>3, MainMoves DEF IInv, Points
  <1> HIDE DEF p
  <1>5. Locals'
    BY <1>1, ConstFacts DEF IInv, Path, Locals
  <1>6. PlainControl'
    BY <1>1, <1>2, <1>3, <1>4, ConstFacts DEF PlainControl, PlainPoints, InTile, PlainWinding, Kept
  <1>7. Produced' = Produced
    BY <1>1, <1>3, <1>4 DEF Produced
  <1> QED BY <1>1, <1>2, <1>3, <1>4, <1>5, <1>6, <1>7, PlainMoves DEF Points, PlainWinding

LEMMA EncodeTileKeeps == ASSUME IInv, EncodeTile, ~opt.hybrid PROVE IInv' /\ Quiet
  <1>1. /\ pc["main"] = "encode"
        /\ UNCHANGED <<closed, bid, tile, resume>> /\ Kept /\ ~Ended
    BY DEF EncodeTile, At, Ended, Kept, settings, sync, order, prefetch, store
  <1>2. CASE GiveUp
    BY <1>1, <1>2, PlainGivesUp
  <1>3. ASSUME NEW p \in {"append", "push"}, Goto("main", p), failed' = failed,
               p = "append" <=> ~opt.write
        PROVE  IInv' /\ Quiet
    <2>1. PlainControl /\ ~failed
      BY <1>1 DEF IInv, Path, PlainControl, PlainWinding
    <2>2. pc'["main"] = p /\ pc'["writer"] = pc["writer"]
      BY <1>3, MainMoves DEF IInv, Points
    <2>3. Locals'
      BY <1>1, <1>3 DEF IInv, Path, Locals
    <2>4. PlainControl'
      BY <1>1, <1>3, <2>1, <2>2, ConstFacts DEF PlainControl, PlainPoints, InTile, PlainWinding, Kept
    <2>5. Produced' = Produced
      BY <1>1, <1>3, <2>2 DEF Produced
    <2> QED BY <1>1, <1>3, <2>1, <2>2, <2>3, <2>4, <2>5, PlainMoves DEF Points
  <1> QED BY <1>2, <1>3 DEF EncodeTile

LEMMA TilePushedKeeps == ASSUME IInv, TilePushed, ~opt.hybrid PROVE IInv' /\ Quiet
  <1>1. /\ pc["main"] = "pushed"
        /\ UNCHANGED <<closed, bid, tile, resume>> /\ Kept /\ ~Ended
    BY DEF TilePushed, At, Ended, Kept, settings, sync, order, prefetch, store
  <1>2. CASE GiveUp
    BY <1>1, <1>2, PlainGivesUp
  <1>3. CASE Goto("main", "appended") /\ failed' = failed
    <2>1. PlainControl /\ ~failed
      BY <1>1 DEF IInv, Path, PlainControl, PlainWinding
    <2>2. pc'["main"] = "appended" /\ pc'["writer"] = pc["writer"]
      BY <1>3, MainMoves DEF IInv, Points
    <2>3. Locals'
      BY <1>1, <1>3 DEF IInv, Path, Locals
    <2>4. PlainControl'
      BY <1>1, <1>3, <2>1, <2>2, ConstFacts DEF PlainControl, PlainPoints, InTile, PlainWinding, Kept
    <2>5. Produced' = Produced
      BY <1>1, <1>3, <2>2 DEF Produced
    <2> QED BY <1>1, <1>3, <2>1, <2>2, <2>3, <2>4, <2>5, PlainMoves DEF Points
  <1> QED BY <1>2, <1>3 DEF TilePushed

LEMMA NextTileKeeps == ASSUME IInv, NextTile, ~opt.hybrid PROVE IInv' /\ Quiet
  <1> DEFINE p == IF tile + 1 < Tiles THEN "encode" ELSE "commit"
  <1>1. /\ pc["main"] = "appended" /\ Goto("main", p) /\ tile' = tile + 1
        /\ UNCHANGED <<closed, bid, resume, failed>> /\ Kept /\ ~Ended
    BY DEF NextTile, At, Ended, Kept, settings, sync, order, prefetch, store
  <1>2. PlainControl /\ ~failed /\ tile \in 0 .. Tiles /\ tile < Tiles
    BY <1>1 DEF IInv, Path, Locals, PlainControl, PlainWinding, InTile
  <1>3. p \in {"encode", "commit"} /\ (p = "encode" => tile + 1 < Tiles) /\ (p = "commit" => tile + 1 = Tiles)
    BY <1>2, ConstFacts
  <1>4. pc'["main"] = p /\ pc'["writer"] = pc["writer"]
    BY <1>1, <1>3, MainMoves DEF IInv, Points
  <1> HIDE DEF p
  <1>5. Locals'
    BY <1>1, <1>2, ConstFacts DEF IInv, Path, Locals
  <1>6. PlainControl'
    BY <1>1, <1>2, <1>3, <1>4, ConstFacts DEF PlainControl, PlainPoints, InTile, PlainWinding, Kept
  <1>7. Produced' = Produced
    BY <1>1, <1>3, <1>4 DEF Produced
  <1> QED BY <1>1, <1>2, <1>3, <1>4, <1>5, <1>6, <1>7, PlainMoves DEF Points

LEMMA FinishWriterKeeps == ASSUME IInv, FinishWriter, ~opt.hybrid PROVE IInv' /\ Quiet
  <1> DEFINE p == IF opt.write THEN "closetile" ELSE "ended"
  <1>1. /\ pc["main"] = "finish" /\ Goto("main", p)
        /\ UNCHANGED <<closed, bid, tile, resume, failed>> /\ Kept /\ ~Ended
    BY DEF FinishWriter, At, Ended, Kept, settings, sync, order, prefetch, store
  <1>2. PlainControl /\ ~failed
    BY <1>1 DEF IInv, Path, PlainControl, PlainWinding
  <1>3. /\ p \in {"closetile", "ended"} /\ (p = "closetile" => opt.write)
        /\ p = "ended" => pc["writer"] = "exit" /\ ~writerFailed
    BY DEF IInv, WriterControl
  <1>4. pc'["main"] = p /\ pc'["writer"] = pc["writer"]
    BY <1>1, <1>3, MainMoves DEF IInv, Points
  <1> HIDE DEF p
  <1>5. Locals'
    BY <1>1, <1>2, ConstFacts DEF IInv, Path, Locals
  <1>6. PlainControl'
    BY <1>1, <1>2, <1>3, <1>4, ConstFacts DEF PlainControl, PlainPoints, InTile, PlainWinding, Kept
  <1>7. Produced' = Produced
    BY <1>1, <1>3, <1>4 DEF Produced
  <1> QED BY <1>1, <1>2, <1>3, <1>4, <1>5, <1>6, <1>7, PlainMoves DEF Points

LEMMA CloseTilesKeeps == ASSUME IInv, CloseTiles, ~opt.hybrid PROVE IInv' /\ Quiet
  <1>1. /\ pc["main"] = "closetile" /\ Goto("main", "jointile")
        /\ closed' = closed \cup {"tile"}
        /\ UNCHANGED <<bid, tile, resume, failed>> /\ Kept /\ ~Ended
    BY DEF CloseTiles, Close, At, Ended, Kept, settings, order, prefetch, store
  <1>2. PlainControl /\ failed \in BOOLEAN
    BY DEF IInv, Path, Locals
  <1>4. pc'["main"] = "jointile" /\ pc'["writer"] = pc["writer"]
    BY <1>1, MainMoves DEF IInv, Points
  <1>5. Locals'
    BY <1>1, ConstFacts DEF IInv, Path, Locals
  <1>6. PlainControl'
    BY <1>1, <1>2, <1>4, ConstFacts DEF PlainControl, PlainPoints, InTile, PlainWinding, Kept
  <1>7. Produced' = Produced
    BY <1>1, <1>4 DEF Produced
  <1> QED BY <1>1, <1>2, <1>4, <1>5, <1>6, <1>7, PlainMoves DEF Points, PlainWinding

LEMMA JoinWriterKeeps == ASSUME IInv, JoinWriter, ~opt.hybrid PROVE IInv' /\ Quiet
  <1> DEFINE p == IF failed /\ opt.read THEN "stopio" ELSE "ended"
  <1>1. /\ pc["main"] = "jointile" /\ Goto("main", p) /\ pc["writer"] = "exit"
        /\ failed' = (failed \/ writerFailed)
        /\ UNCHANGED <<bid, tile, resume, closed>> /\ Kept /\ ~Ended
    BY DEF JoinWriter, At, Ended, Kept, settings, sync, order, prefetch, store
  <1>2. PlainControl /\ failed \in BOOLEAN /\ writerFailed \in BOOLEAN
    BY <1>1 DEF IInv, Path, Locals, Types
  <1>3. p \in {"stopio", "ended"} /\ (p = "stopio" => failed)
    OBVIOUS
  <1>4. pc'["main"] = p /\ pc'["writer"] = pc["writer"]
    BY <1>1, <1>3, MainMoves DEF IInv, Points
  <1> HIDE DEF p
  <1>5. Locals'
    BY <1>1, <1>2, ConstFacts DEF IInv, Path, Locals
  <1>6. PlainControl'
    BY <1>1, <1>2, <1>3, <1>4, ConstFacts DEF PlainControl, PlainPoints, InTile, PlainWinding, Kept
  <1>7. Produced' = Produced
    BY <1>1, <1>3, <1>4 DEF Produced
  <1> QED BY <1>1, <1>2, <1>3, <1>4, <1>5, <1>6, <1>7, PlainMoves DEF Points, PlainWinding

\* One tile appended in order.
LEMMA TileAppended ==
    ASSUME log \in Seq(Nat), TilesInOrder, first \in Nat, first' = first,
           log' = Append(log, appended)
    PROVE  /\ log' \in Seq(Nat) /\ TilesInOrder'
           /\ appended \in Nat /\ appended' = appended + 1
  <1>1. PICK y \in Nat : y = first * Tiles
    BY NextProduct
  <1>2. appended = y + Len(log) /\ Len(log) \in Nat
    BY <1>1 DEF appended
  <1>3. /\ log' \in Seq(Nat) /\ Len(log') = Len(log) + 1
        /\ \A i \in 1 .. Len(log') : log'[i] = IF i <= Len(log) THEN log[i] ELSE appended
    BY <1>2
  <1>4. appended' = y + Len(log')
    BY <1>1 DEF appended
  <1>5. \A i \in 1 .. Len(log') : log'[i] = y + i - 1
    <2> TAKE i \in 1 .. Len(log')
    <2>1. CASE i <= Len(log)
      <3>1. log[i] = y + i - 1
        BY <2>1, <1>1, <1>3 DEF TilesInOrder
      <3> QED BY <2>1, <3>1, <1>3
    <2>2. CASE i > Len(log)
      BY <2>2, <1>2, <1>3
    <2> QED BY <2>1, <2>2, <1>3
  <1>6. TilesInOrder'
    BY <1>1, <1>5 DEF TilesInOrder
  <1> QED BY <1>2, <1>3, <1>4, <1>6

\* Where the plain path stands inside a block.
LEMMA PlainFacts ==
    ASSUME IInv, ~opt.hybrid, pc["main"] \in InTile \cup {"commit"}
    PROVE  /\ PlainControl /\ failed = FALSE
           /\ Total <= Produced /\ (~writerFailed => Total = Produced)
           /\ opt.commit => committed = bid * Tiles
           /\ bid \in Nat /\ bid < Blocks /\ tile \in Nat /\ (pc["main"] # "commit" => tile < Tiles)
           /\ bid * Tiles \in Nat /\ bid * Tiles + Tiles <= End
           /\ (bid + 1) * Tiles = bid * Tiles + Tiles
           /\ first \in Nat /\ first * Tiles \in Nat /\ appended \in Nat /\ Len(queue["tile"]) \in Nat
           /\ ~opt.write => Total = appended /\ ~writerFailed /\ queue["tile"] = <<>>
                            /\ held["writer"] = None /\ pc["writer"] = "exit"
  <1>1. PlainControl /\ PlainInStep /\ Locals
    BY DEF IInv, Path
  <1>2. failed = FALSE
    BY <1>1 DEF PlainControl, PlainWinding, InTile, Locals
  <1>3. bid \in Nat /\ bid < Blocks /\ tile \in Nat /\ (pc["main"] # "commit" => tile < Tiles)
    BY <1>1, ConstFacts DEF PlainControl, InTile, Locals
  <1>4. bid * Tiles \in Nat /\ bid * Tiles + Tiles <= End /\ (bid + 1) * Tiles = bid * Tiles + Tiles
    BY <1>3, NextProduct, BlockFits
  <1>5. first \in Nat /\ first * Tiles \in Nat
    BY NextProduct, ConstFacts DEF IInv, Types
  <1>6. Len(log) \in Nat /\ appended \in Nat
    BY <1>5 DEF IInv, Types, appended
  <1>7. Len(queue["tile"]) \in Nat
    BY DEF IInv, Types, Queues
  <1>8. ASSUME ~opt.write
        PROVE  Total = appended /\ ~writerFailed /\ queue["tile"] = <<>>
               /\ held["writer"] = None /\ pc["writer"] = "exit"
    <2>1. ~writerFailed /\ queue["tile"] = <<>> /\ held["writer"] = None /\ pc["writer"] = "exit"
      BY <1>8 DEF IInv, WriterControl
    <2> QED BY <2>1, <1>6 DEF Total, Hand
  <1> QED BY <1>1, <1>2, <1>3, <1>4, <1>5, <1>6, <1>7, <1>8 DEF PlainInStep

LEMMA AppendTileKeeps ==
    ASSUME IInv, AppendTile, ~opt.hybrid PROVE IInv' /\ (Quiet \/ Extends)
  <1>1. /\ pc["main"] = "append" /\ ~Ended
        /\ UNCHANGED <<closed, bid, tile, resume>>
        /\ UNCHANGED <<opt, first, queue, held, next, ring, writerFailed, committed>>
    BY DEF AppendTile, At, Ended, settings, sync, order, prefetch
  <1>2. CASE GiveUp /\ log' = log
    <2>1. Kept
      BY <1>1, <1>2 DEF Kept
    <2> QED BY <1>1, <1>2, <2>1, PlainGivesUp
  <1>3. CASE Goto("main", "appended") /\ failed' = failed /\ log' = Append(log, bid * Tiles + tile)
    <2>1. /\ PlainControl /\ failed = FALSE /\ ~opt.write
          /\ Total = Produced /\ Total = appended /\ ~writerFailed
          /\ opt.commit => committed = bid * Tiles
          /\ bid \in Nat /\ bid < Blocks /\ tile \in Nat /\ tile < Tiles
          /\ bid * Tiles \in Nat /\ bid * Tiles + Tiles <= End
          /\ first \in Nat /\ appended \in Nat
          /\ queue["tile"] = <<>> /\ held["writer"] = None /\ pc["writer"] = "exit"
      BY <1>1, PlainFacts DEF InTile, PlainControl
    <2>2. Produced = bid * Tiles + tile
      BY <1>1 DEF Produced
    <2>3. log' = Append(log, appended)
      BY <1>3, <2>1, <2>2
    <2>4. log' \in Seq(Nat) /\ TilesInOrder' /\ appended' = appended + 1
      BY <1>1, <2>1, <2>3, TileAppended DEF IInv, Types, Stored
    <2>5. /\ pc'["main"] = "appended" /\ pc' \in [Threads -> Points]
          /\ pc'["writer"] = pc["writer"] /\ \A l \in Lanes : pc'[l] = pc[l]
      BY <1>3, MainMoves DEF IInv, Points
    <2>6. Total' = appended' /\ Produced' = bid * Tiles + (tile + 1)
      <3>1. Produced' = bid * Tiles + (tile + 1)
        BY <1>1, <2>5 DEF Produced
      <3>2. Total' = appended'
        BY <1>1, <2>1, <2>4 DEF Total, Hand
      <3> QED BY <3>1, <3>2
    <2>7. appended' \in Nat /\ appended' = Produced' /\ appended' <= End
      <3>1. PICK x \in Nat : x = bid * Tiles
        BY <2>1
      <3>2. appended = x + tile /\ Produced' = x + (tile + 1) /\ x + Tiles <= End
        BY <2>1, <2>2, <2>6, <3>1
      <3> QED BY <2>1, <2>4, <3>2, ConstFacts
    <2>8. Types'
      BY <1>1, <2>4, <2>5 DEF IInv, Types
    <2>9. Path'
      <3>1. Locals'
        BY <1>1, <1>3 DEF IInv, Path, Locals
      <3>2. PlainControl'
        BY <1>1, <1>3, <2>1, <2>5 DEF PlainControl, PlainPoints, InTile, PlainWinding
      <3>3. PlainInStep'
        BY <1>1, <2>1, <2>6, <2>7 DEF PlainInStep
      <3> QED BY <1>1, <3>1, <3>2, <3>3 DEF Path
    <2>10. LaneControl' /\ WriterControl'
      BY <1>1, <1>3, <2>1, <2>5 DEF IInv, LaneControl, WriterControl
    <2>11. RingInPlace' /\ QueueInStep'
      BY <1>1, <2>1, <2>5 DEF IInv, Stored, RingInPlace, Slot, Window, QueueInStep
    <2>12. Bounds'
      <3>1. committed \in Nat /\ committed <= appended
        BY DEF IInv, Stored, Bounds, Types
      <3> QED BY <1>1, <2>1, <2>4, <2>6, <2>7, <3>1 DEF Bounds, End
    <2>13. Extends
      <3>1. appended' \in appended + 1 .. End
        BY <2>1, <2>4, <2>7, ConstFacts
      <3> QED BY <1>1, <2>5, <3>1 DEF Extends, Ended
    <2> QED BY <2>4, <2>8, <2>9, <2>10, <2>11, <2>12, <2>13 DEF IInv, Stored
  <1> QED BY <1>2, <1>3 DEF AppendTile

LEMMA PushTileKeeps == ASSUME IInv, PushTile PROVE IInv' /\ Quiet
  <1>1. /\ ~opt.hybrid /\ pc["main"] = "push" /\ ~Ended
        /\ UNCHANGED <<closed, bid, tile, resume>>
        /\ UNCHANGED <<opt, first, held, next, ring, writerFailed, log, committed>>
        /\ failed' = (failed \/ pc'["main"] = "closetile")
    BY DEF PushTile, At, Ended, settings, order, prefetch, store
  <1>2. /\ PlainControl /\ failed = FALSE /\ opt.write
        /\ Total <= Produced /\ (~writerFailed => Total = Produced)
        /\ opt.commit => committed = bid * Tiles
        /\ bid \in Nat /\ bid < Blocks /\ tile \in Nat /\ tile < Tiles
        /\ bid * Tiles \in Nat /\ bid * Tiles + Tiles <= End
        /\ appended \in Nat /\ Len(queue["tile"]) \in Nat
    BY <1>1, PlainFacts DEF InTile, PlainControl
  <1>3. \/ queue' = queue /\ Goto("main", "closetile")
        \/ queue' = queue /\ pc' = pc
        \/ /\ queue' = [queue EXCEPT !["tile"] = Append(@, bid * Tiles + tile)]
           /\ Goto("main", "pushed") /\ "tile" \notin closed
    BY DEF PushTile, Push
  <1>4. CASE queue' = queue /\ Goto("main", "closetile")
    <2>1. Kept
      BY <1>1, <1>4 DEF Kept
    <2>2. pc'["main"] = "closetile" /\ pc'["writer"] = pc["writer"]
      BY <1>4, MainMoves DEF IInv, Points
    <2>3. failed' = TRUE
      BY <1>1, <2>2
    <2>4. Locals'
      <3>1. failed' \in BOOLEAN
        BY <2>3
      <3> QED BY <1>1, <3>1 DEF IInv, Path, Locals
    <2>5. PlainControl'
      BY <1>1, <1>2, <2>2, <2>3 DEF PlainControl, PlainPoints, InTile, PlainWinding
    <2> QED BY <1>1, <1>4, <2>1, <2>3, <2>4, <2>5, PlainMoves DEF Points, PlainWinding
  <1>5. CASE queue' = queue /\ pc' = pc
    <2>1. Kept /\ failed' = failed
      BY <1>1, <1>2, <1>5 DEF Kept
    <2>2. Path'
      BY <1>1, <1>5, <2>1, SameTotals
         DEF IInv, Path, Locals, PlainControl, PlainInStep, Produced, Kept
    <2> QED BY <1>1, <1>5, <2>1, <2>2, MainKeeps DEF IInv, Types
  <1>6. CASE /\ queue' = [queue EXCEPT !["tile"] = Append(@, bid * Tiles + tile)]
             /\ Goto("main", "pushed") /\ "tile" \notin closed
    <2>1. /\ pc'["main"] = "pushed" /\ pc' \in [Threads -> Points]
          /\ pc'["writer"] = pc["writer"] /\ \A l \in Lanes : pc'[l] = pc[l]
      BY <1>6, MainMoves DEF IInv, Points
    <2>2. failed' = failed
      BY <1>1, <1>2, <2>1
    <2>3. Produced = bid * Tiles + tile /\ Produced' = bid * Tiles + (tile + 1)
      BY <1>1, <2>1 DEF Produced
    <2>4. PICK x \in Nat : x = bid * Tiles
      BY <1>2
    <2>5. queue["tile"] \in Seq(Nat) /\ queue \in [Queues -> Seq(Nat)] /\ "tile" \in Queues
      BY DEF IInv, Types, Queues
    <2>6. /\ queue'["tile"] = Append(queue["tile"], x + tile)
          /\ \A q \in Lanes \cup {"res"} : queue'[q] = queue[q]
          /\ queue' \in [Queues -> Seq(Nat)]
      BY <1>2, <1>6, <2>4, <2>5 DEF Queues, Lanes
    <2>7. Len(queue'["tile"]) = Len(queue["tile"]) + 1 /\ appended' = appended /\ Hand' = Hand
          /\ Hand \in Nat
      BY <1>1, <2>5, <2>6 DEF appended, Hand
    <2>8. Total' = Total + 1 /\ Total \in Nat
      <3>1. Total' = appended' + (Hand' + Len(queue'["tile"]))
            /\ Total = appended + (Hand + Len(queue["tile"]))
        BY DEF Total
      <3>2. appended \in Nat /\ Len(queue["tile"]) \in Nat
        BY <1>2
      <3> QED BY <2>7, <3>1, <3>2
    <2>9. Total' <= Produced' /\ (~writerFailed => Total' = Produced') /\ Total' <= End
      BY <1>2, <2>3, <2>4, <2>8, ConstFacts
    <2>10. Types'
      BY <1>1, <2>1, <2>6 DEF IInv, Types
    <2>11. Path'
      <3>1. Locals'
        BY <1>1, <2>2 DEF IInv, Path, Locals
      <3>2. PlainControl'
        BY <1>1, <1>2, <2>1, <2>2 DEF PlainControl, PlainPoints, InTile, PlainWinding
      <3>3. PlainInStep'
        BY <1>1, <1>2, <2>9 DEF PlainInStep
      <3> QED BY <1>1, <3>1, <3>2, <3>3 DEF Path
    <2>12. LaneControl'
      BY <1>1, <2>1, <2>2 DEF IInv, LaneControl
    <2>13. WriterControl'
      BY <1>1, <1>2, <1>6, <2>1 DEF IInv, WriterControl
    <2>14. QueueInStep'
      <3> SUFFICES ASSUME pc["writer"] \in {"pop", "append"} PROVE QueueInStep'
        BY <2>1 DEF QueueInStep
      <3>1. ~writerFailed
        BY DEF IInv, WriterControl
      <3>2. x + tile = appended + (Hand + Len(queue["tile"]))
        BY <1>2, <2>3, <2>4, <3>1 DEF Total
      <3>3. /\ held["writer"] # None => held["writer"] = appended
            /\ \A i \in 1 .. Len(queue["tile"]) : queue["tile"][i] = appended + (Hand + i) - 1
        BY DEF IInv, Stored, QueueInStep
      <3>4. \A i \in 1 .. Len(queue'["tile"]) : queue'["tile"][i] = appended' + (Hand' + i) - 1
        <4> TAKE i \in 1 .. Len(queue'["tile"])
        <4>1. CASE i <= Len(queue["tile"])
          <5>1. i \in 1 .. Len(queue["tile"]) /\ queue'["tile"][i] = queue["tile"][i]
            BY <4>1, <2>5, <2>6, <2>7, <1>2
          <5> QED BY <5>1, <3>3, <2>7
        <4>2. CASE i > Len(queue["tile"])
          <5>1. i = Len(queue["tile"]) + 1 /\ queue'["tile"][i] = x + tile
            BY <4>2, <2>5, <2>6, <2>7, <1>2
          <5>2. appended \in Nat /\ Len(queue["tile"]) \in Nat
            BY <1>2
          <5> QED BY <5>1, <5>2, <3>2, <2>7
        <4> QED BY <4>1, <4>2, <1>2, <2>7
      <3> QED BY <1>1, <2>7, <3>3, <3>4 DEF QueueInStep
    <2>15. RingInPlace' /\ TilesInOrder'
      BY <1>1 DEF IInv, Stored, RingInPlace, Slot, Window, TilesInOrder
    <2>16. Bounds'
      BY <1>1, <2>7, <2>9 DEF IInv, Stored, Bounds, End
    <2>17. Quiet
      BY <1>1 DEF Quiet
    <2> QED BY <2>10, <2>11, <2>12, <2>13, <2>14, <2>15, <2>16, <2>17 DEF IInv, Stored
  <1> QED BY <1>3, <1>4, <1>5, <1>6

(* A step that BlockLog sees as a commit. *)
Commits ==
    /\ ~Ended /\ ~Ended'
    /\ UNCHANGED <<opt, first, log>>
    /\ opt.commit /\ committed' \in committed .. appended

LEMMA CommitBlockKeeps ==
    ASSUME IInv, CommitBlock, ~opt.hybrid PROVE IInv' /\ (Quiet \/ Commits)
  <1>1. /\ pc["main"] = "commit" /\ ~Ended
        /\ UNCHANGED <<closed, tile, resume>>
        /\ UNCHANGED <<opt, first, queue, held, next, ring, writerFailed, log>>
    BY DEF CommitBlock, At, Ended, settings, sync, prefetch
  <1>2. CASE GiveUp /\ UNCHANGED <<committed, bid>>
    <2>1. Kept
      BY <1>1, <1>2 DEF Kept
    <2> QED BY <1>1, <1>2, <2>1, PlainGivesUp
  <1>3. CASE /\ committed' = IF opt.commit THEN (bid + 1) * Tiles ELSE committed
             /\ bid' = bid + 1 /\ Goto("main", "top") /\ failed' = failed
    <2>1. /\ PlainControl /\ failed = FALSE
          /\ Total <= Produced /\ (~writerFailed => Total = Produced)
          /\ opt.commit => committed = bid * Tiles
          /\ bid \in Nat /\ bid < Blocks
          /\ bid * Tiles \in Nat /\ bid * Tiles + Tiles <= End
          /\ (bid + 1) * Tiles = bid * Tiles + Tiles
          /\ appended \in Nat
          /\ ~opt.write => Total = appended /\ ~writerFailed
      BY <1>1, PlainFacts
    <2>2. /\ pc'["main"] = "top" /\ pc' \in [Threads -> Points]
          /\ pc'["writer"] = pc["writer"] /\ \A l \in Lanes : pc'[l] = pc[l]
      BY <1>3, MainMoves DEF IInv, Points
    <2>3. Total' = Total /\ appended' = appended
      BY <1>1 DEF Total, Hand, appended
    <2>4. PICK x \in Nat : x = bid * Tiles
      BY <2>1
    <2>5. Produced = x + Tiles /\ (bid + 1) * Tiles = x + Tiles
      BY <1>1, <2>1, <2>4 DEF Produced
    <2>6. Produced' = x + Tiles
      <3>1. Produced' = (bid + 1) * Tiles + 0
        BY <1>3, <2>2 DEF Produced
      <3> QED BY <3>1, <2>5, ConstFacts
    <2>7. opt.commit => ~opt.write
      BY DEF IInv, Types, Settings
    <2>8. /\ opt.commit => committed' = x + Tiles /\ appended = x + Tiles /\ committed = x
          /\ ~opt.commit => committed' = committed
      BY <1>3, <2>1, <2>4, <2>5, <2>7
    <2>9. committed \in Nat /\ committed <= appended /\ Total <= End
      BY DEF IInv, Types, Stored, Bounds
    <2>10. Types'
      <3>1. committed' \in Nat
        BY <2>8, <2>9, ConstFacts
      <3> QED BY <1>1, <2>2, <3>1 DEF IInv, Types
    <2>11. Path'
      <3>1. Locals'
        BY <1>1, <1>3, <2>1, ConstFacts DEF IInv, Path, Locals
      <3>2. PlainControl'
        BY <1>1, <1>3, <2>1, <2>2 DEF PlainControl, PlainPoints, InTile, PlainWinding
      <3>3. opt.commit => committed' = bid' * Tiles
        BY <1>3, <2>5, <2>8
      <3>4. PlainInStep'
        BY <1>1, <2>1, <2>3, <2>5, <2>6, <3>3 DEF PlainInStep
      <3> QED BY <1>1, <3>1, <3>2, <3>4 DEF Path
    <2>12. LaneControl' /\ WriterControl'
      BY <1>1, <1>3, <2>2 DEF IInv, LaneControl, WriterControl
    <2>13. TilesInOrder' /\ RingInPlace' /\ QueueInStep'
      BY <1>1, <2>2, <2>3 DEF IInv, Stored, TilesInOrder, RingInPlace, Slot, Window, QueueInStep, Hand
    <2>14. Bounds'
      BY <2>3, <2>8, <2>9, ConstFacts DEF Bounds, End
    <2>15. Quiet \/ Commits
      <3>1. CASE opt.commit
        BY <1>1, <2>2, <2>8, <2>9, <3>1, ConstFacts DEF Commits, Ended
      <3>2. CASE ~opt.commit
        BY <1>1, <2>8, <3>2 DEF Quiet
      <3> QED BY <3>1, <3>2
    <2> QED BY <2>10, <2>11, <2>12, <2>13, <2>14, <2>15 DEF IInv, Stored
  <1> QED BY <1>2, <1>3 DEF CommitBlock

-----------------------------------------------------------------------------
(* The tile writer *)

\* What the writer's steps have in common: the caller stands still.
LEMMA WriterKeeps ==
    ASSUME IInv, pc["writer"] # "exit",
           UNCHANGED <<opt, first, next, ring, committed, bid, tile, resume, failed>>,
           NEW p \in {"pop", "append", "fail", "exit"}, Goto("writer", p),
           queue' \in [Queues -> Seq(Nat)], \A q \in Lanes \cup {"res"} : queue'[q] = queue[q],
           held' \in [Lanes \cup {"writer"} -> Nat \cup {None}],
           \A l \in Lanes : held'[l] = held[l],
           log' \in Seq(Nat), writerFailed' \in BOOLEAN, writerFailed => writerFailed',
           Total' = Total \/ (writerFailed' /\ Total' <= Total),
           WriterControl', TilesInOrder', QueueInStep', committed <= appended', Total' <= End
    PROVE  IInv' /\ opt.write /\ ~Ended /\ ~Ended'
  <1>1. opt.write /\ ~opt.hybrid
    BY DEF IInv, WriterControl, Types, Settings
  <1>2. /\ pc'["writer"] = p /\ pc' \in [Threads -> Points]
        /\ pc'["main"] = pc["main"] /\ \A l \in Lanes : pc'[l] = pc[l]
    <2>1. pc \in [Threads -> Points] /\ "writer" \in Threads /\ p \in Points
      BY DEF IInv, Types, Threads, Points
    <2> QED BY <2>1 DEF Goto, Threads, Lanes
  <1>3. Types'
    BY <1>2 DEF IInv, Types
  <1>4. PlainControl /\ PlainInStep /\ Locals
    BY <1>1 DEF IInv, Path
  <1>5. ~Ended /\ ~Ended'
    BY <1>2, <1>4 DEF PlainControl, Ended
  <1>6. PlainControl'
    BY <1>1, <1>2, <1>4 DEF PlainControl
  <1>7. PlainInStep'
    <2>1. Produced' = Produced
      BY <1>2 DEF Produced
    <2>2. CASE failed /\ pc["main"] \in PlainWinding
      BY <2>2, <1>2 DEF PlainInStep
    <2>3. CASE Total <= Produced /\ (~writerFailed => Total = Produced)
               /\ (opt.commit => committed = bid * Tiles)
      <3>1. Total \in Int /\ Produced \in Int
        <4>1. first \in Nat /\ bid \in Nat /\ tile \in Nat
          BY <1>4, ConstFacts DEF IInv, Types, Locals
        <4>2. first * Tiles \in Nat /\ bid * Tiles \in Nat
          BY <4>1, NextProduct
        <4>3. Total \in Int
          <5>1. Len(log) \in Nat /\ Len(queue["tile"]) \in Nat
            BY DEF IInv, Types, Queues
          <5>2. appended \in Nat /\ Hand \in Nat
            BY <4>2, <5>1 DEF appended, Hand
          <5> QED BY <5>1, <5>2 DEF Total
        <4>4. Produced \in Int
          <5>1. PICK x \in Nat : x = bid * Tiles
            BY <4>2
          <5>2. \E y \in {tile, tile + 1, Tiles, 0} : Produced = x + y
            BY <5>1 DEF Produced
          <5> QED BY <5>2, <4>1, ConstFacts
        <4> QED BY <4>3, <4>4
      <3>2. Total' \in Int \/ Total' = Total
        <4>1. Total' \in Int
          <5>1. first' * Tiles \in Nat
            BY NextProduct, ConstFacts DEF IInv, Types
          <5>2. Len(log') \in Nat /\ Len(queue'["tile"]) \in Nat
            BY DEF Queues
          <5>3. appended' \in Nat /\ Hand' \in Nat
            BY <5>1, <5>2 DEF appended, Hand
          <5> QED BY <5>2, <5>3 DEF Total
        <4> QED BY <4>1
      <3>3. Total' <= Produced' /\ (~writerFailed' => Total' = Produced')
        BY <2>1, <2>3, <3>1, <3>2
      <3> QED BY <2>3, <3>3 DEF PlainInStep
    <2> QED BY <2>2, <2>3, <1>4 DEF PlainInStep
  <1>8. Path'
    BY <1>1, <1>4, <1>6, <1>7 DEF Path, Locals
  <1>9. LaneControl'
    BY <1>2 DEF IInv, LaneControl
  <1>10. Stored'
    BY DEF IInv, Stored, RingInPlace, Slot, Window, Bounds, End
  <1> QED BY <1>1, <1>3, <1>5, <1>8, <1>9, <1>10 DEF IInv

\* The queue of tiles as the writer finds it.
LEMMA WriterFacts ==
    ASSUME IInv, pc["writer"] # "exit"
    PROVE  /\ opt.write /\ queue \in [Queues -> Seq(Nat)] /\ queue["tile"] \in Seq(Nat)
           /\ Len(queue["tile"]) \in Nat
           /\ "tile" \in Queues /\ held \in [Lanes \cup {"writer"} -> Nat \cup {None}]
           /\ log \in Seq(Nat) /\ first \in Nat /\ appended \in Nat /\ None \notin Nat
           /\ committed \in Nat /\ committed <= appended /\ Total <= End
           /\ Hand = (IF pc["writer"] = "append" THEN 1 ELSE 0)
  <1>1. first \in Nat /\ log \in Seq(Nat) /\ committed \in Nat
    BY ConstFacts DEF IInv, Types
  <1>2. appended \in Nat
    <2>1. first * Tiles \in Nat
      BY <1>1, NextProduct
    <2>2. Len(log) \in Nat
      BY <1>1
    <2> QED BY <2>1, <2>2 DEF appended
  <1>3. queue \in [Queues -> Seq(Nat)] /\ "tile" \in Queues /\ queue["tile"] \in Seq(Nat)
        /\ Len(queue["tile"]) \in Nat
    BY DEF IInv, Types, Queues
  <1>4. Hand = (IF pc["writer"] = "append" THEN 1 ELSE 0) /\ opt.write
    BY DEF IInv, WriterControl, Hand
  <1> QED BY <1>1, <1>2, <1>3, <1>4, ConstFacts DEF IInv, Types, Stored, Bounds

LEMMA WriterPopKeeps == ASSUME IInv, WriterPop PROVE IInv' /\ Quiet
  <1>1. /\ pc["writer"] = "pop"
        /\ UNCHANGED <<opt, first, next, ring, committed, bid, tile, resume, failed>>
        /\ UNCHANGED <<log, writerFailed, closed>>
    BY DEF WriterPop, At, settings, order, prefetch, store
  <1>2. /\ opt.write /\ queue \in [Queues -> Seq(Nat)] /\ queue["tile"] \in Seq(Nat)
        /\ Len(queue["tile"]) \in Nat
        /\ "tile" \in Queues /\ held \in [Lanes \cup {"writer"} -> Nat \cup {None}]
        /\ log \in Seq(Nat) /\ first \in Nat /\ appended \in Nat /\ None \notin Nat
        /\ committed \in Nat /\ committed <= appended /\ Total <= End
        /\ Hand = 0
    BY <1>1, WriterFacts
  <1>3. ~writerFailed /\ held["writer"] = None /\ writerFailed \in BOOLEAN
    BY <1>1 DEF IInv, WriterControl, Types
  <1>4. appended' = appended /\ TilesInOrder'
    BY <1>1 DEF appended, IInv, Stored, TilesInOrder
  <1>5. CASE PopItem("writer", "tile", "append")
             /\ held' = [held EXCEPT !["writer"] = Head(queue["tile"])]
    <2>1. /\ queue["tile"] # <<>> /\ queue' = [queue EXCEPT !["tile"] = Tail(@)]
          /\ Goto("writer", "append")
      BY <1>5 DEF PopItem
    <2>2. /\ Head(queue["tile"]) \in Nat /\ Head(queue["tile"]) = queue["tile"][1]
          /\ Tail(queue["tile"]) \in Seq(Nat)
          /\ Len(queue["tile"]) > 0 /\ Len(Tail(queue["tile"])) = Len(queue["tile"]) - 1
          /\ \A i \in 1 .. Len(queue["tile"]) - 1 : Tail(queue["tile"])[i] = queue["tile"][i + 1]
      BY <1>2, <2>1
    <2>3. /\ queue'["tile"] = Tail(queue["tile"]) /\ queue' \in [Queues -> Seq(Nat)]
          /\ \A q \in Lanes \cup {"res"} : queue'[q] = queue[q]
          /\ held'["writer"] = Head(queue["tile"]) /\ \A l \in Lanes : held'[l] = held[l]
          /\ held' \in [Lanes \cup {"writer"} -> Nat \cup {None}]
      BY <1>2, <1>5, <2>1, <2>2 DEF Queues, Lanes
    <2>4. Hand' = 1
      BY <1>2, <2>2, <2>3 DEF Hand
    <2>5. Total' = Total
      <3>1. Total' = appended' + (Hand' + Len(queue'["tile"])) /\ Total = appended + (Hand + Len(queue["tile"]))
        BY DEF Total
      <3> QED BY <1>2, <1>4, <2>2, <2>3, <2>4, <3>1
    <2>6. pc'["writer"] = "append"
      BY <2>1 DEF IInv, Types, Goto, Threads
    <2>7. WriterControl'
      BY <1>1, <1>2, <1>3, <2>2, <2>3, <2>6 DEF WriterControl
    <2>8. QueueInStep'
      <3>1. \A i \in 1 .. Len(queue["tile"]) : queue["tile"][i] = appended + (Hand + i) - 1
        BY <1>1 DEF IInv, Stored, QueueInStep
      <3>2. held'["writer"] = appended'
        <4>1. 1 \in 1 .. Len(queue["tile"])
          BY <1>2, <2>2
        <4>2. queue["tile"][1] = appended + (0 + 1) - 1
          BY <3>1, <4>1, <1>2
        <4> QED BY <4>2, <1>2, <1>4, <2>2, <2>3
      <3>3. \A i \in 1 .. Len(queue'["tile"]) : queue'["tile"][i] = appended' + (Hand' + i) - 1
        <4> TAKE i \in 1 .. Len(queue'["tile"])
        <4>1. i \in 1 .. Len(queue["tile"]) - 1 /\ i + 1 \in 1 .. Len(queue["tile"])
          BY <1>2, <2>2, <2>3
        <4>2. queue'["tile"][i] = appended + (0 + (i + 1)) - 1
          BY <4>1, <3>1, <1>2, <2>2, <2>3
        <4> QED BY <4>1, <4>2, <1>2, <1>4, <2>4
      <3> QED BY <3>2, <3>3 DEF QueueInStep
    <2>9. IInv' /\ ~Ended
      BY <1>1, <1>2, <1>3, <1>4, <2>1, <2>3, <2>5, <2>7, <2>8, WriterKeeps
    <2> QED BY <1>1, <2>9 DEF Quiet
  <1>6. CASE PopClosed("writer", "tile", "exit") /\ UNCHANGED held
    <2>1. queue["tile"] = <<>> /\ "tile" \in closed /\ Goto("writer", "exit") /\ queue' = queue
      BY <1>6 DEF PopClosed
    <2>2. Total' = Total
      BY <1>4, <1>6, <2>1 DEF Total, Hand
    <2>3. pc'["writer"] = "exit"
      BY <2>1 DEF IInv, Types, Goto, Threads
    <2>4. WriterControl' /\ QueueInStep'
      BY <1>1, <1>2, <1>3, <1>6, <2>1, <2>3 DEF WriterControl, QueueInStep
    <2>5. IInv' /\ ~Ended
      BY <1>1, <1>2, <1>3, <1>4, <1>6, <2>1, <2>2, <2>4, WriterKeeps
    <2> QED BY <1>1, <2>5 DEF Quiet
  <1>7. CASE PopSleep("writer", "tile") /\ UNCHANGED held
    <2>1. UNCHANGED <<queue, pc>>
      BY <1>7 DEF PopSleep
    <2>2. IInv'
      BY <1>1, <1>7, <2>1, IoKeeps DEF Kept, IInv, Types
    <2> QED BY <1>1, <2>1, <2>2 DEF Quiet, Ended
  <1> QED BY <1>5, <1>6, <1>7 DEF WriterPop

LEMMA WriterAppendKeeps == ASSUME IInv, WriterAppend PROVE IInv' /\ (Quiet \/ Extends)
  <1>1. /\ pc["writer"] = "append"
        /\ UNCHANGED <<opt, first, next, ring, committed, bid, tile, resume, failed>>
        /\ UNCHANGED <<queue, closed>>
        /\ held' = [held EXCEPT !["writer"] = None]
    BY DEF WriterAppend, At, settings, sync, order, prefetch
  <1>2. /\ opt.write /\ queue \in [Queues -> Seq(Nat)] /\ queue["tile"] \in Seq(Nat)
        /\ Len(queue["tile"]) \in Nat
        /\ "tile" \in Queues /\ held \in [Lanes \cup {"writer"} -> Nat \cup {None}]
        /\ log \in Seq(Nat) /\ first \in Nat /\ appended \in Nat /\ None \notin Nat
        /\ committed \in Nat /\ committed <= appended /\ Total <= End
        /\ Hand = 1
    BY <1>1, WriterFacts
  <1>3. ~writerFailed /\ held["writer"] # None
    BY <1>1 DEF IInv, WriterControl
  <1>4. /\ held["writer"] = appended
        /\ \A i \in 1 .. Len(queue["tile"]) : queue["tile"][i] = appended + (Hand + i) - 1
    BY <1>1, <1>3 DEF IInv, Stored, QueueInStep
  <1>5. /\ held'["writer"] = None /\ Hand' = 0 /\ \A l \in Lanes : held'[l] = held[l]
        /\ held' \in [Lanes \cup {"writer"} -> Nat \cup {None}]
    BY <1>1, <1>2 DEF Hand, Lanes
  <1>6. /\ Total' = appended' + (Hand' + Len(queue'["tile"]))
        /\ Total = appended + (Hand + Len(queue["tile"]))
    BY DEF Total
  <1>7. CASE log' = Append(log, held["writer"]) /\ Goto("writer", "pop") /\ writerFailed' = writerFailed
    <2>1. log' \in Seq(Nat) /\ TilesInOrder' /\ appended' = appended + 1
      BY <1>1, <1>2, <1>4, <1>7, TileAppended DEF IInv, Stored
    <2>2. Total' = Total
      BY <1>1, <1>2, <1>5, <1>6, <2>1
    <2>3. pc'["writer"] = "pop"
      BY <1>7 DEF IInv, Types, Goto, Threads
    <2>4. WriterControl'
      BY <1>1, <1>2, <1>3, <1>5, <1>7, <2>3 DEF WriterControl
    <2>5. QueueInStep'
      <3> SUFFICES ASSUME NEW i \in 1 .. Len(queue["tile"])
                   PROVE  queue["tile"][i] = appended' + (Hand' + i) - 1
        BY <1>1, <1>5 DEF QueueInStep
      <3>1. queue["tile"][i] = appended + (1 + i) - 1
        BY <1>2, <1>4
      <3> QED BY <1>2, <1>5, <2>1, <3>1
    <2>6. committed <= appended' /\ Total' <= End
      BY <1>2, <2>1, <2>2
    <2>7. writerFailed' \in BOOLEAN
      BY <1>7 DEF IInv, Types
    <2>8. IInv' /\ ~Ended /\ ~Ended'
      BY <1>1, <1>2, <1>5, <1>7, <2>1, <2>2, <2>4, <2>5, <2>6, <2>7, WriterKeeps
    <2>9. appended' \in appended + 1 .. End
      <3>1. appended' + Len(queue["tile"]) <= End
        BY <1>1, <1>2, <1>5, <1>6, <2>1, <2>6
      <3> QED BY <1>2, <2>1, <3>1, ConstFacts
    <2> QED BY <1>1, <2>8, <2>9 DEF Extends
  <1>8. CASE writerFailed' = TRUE /\ Goto("writer", "fail") /\ log' = log
    <2>1. log' \in Seq(Nat) /\ TilesInOrder' /\ appended' = appended
      BY <1>1, <1>2, <1>8 DEF IInv, Stored, TilesInOrder, appended
    <2>2. Total' <= Total /\ Total' <= End
      BY <1>1, <1>2, <1>5, <1>6, <2>1, ConstFacts
    <2>3. pc'["writer"] = "fail"
      BY <1>8 DEF IInv, Types, Goto, Threads
    <2>4. WriterControl' /\ QueueInStep'
      BY <1>1, <1>2, <1>3, <1>5, <1>8, <2>3 DEF WriterControl, QueueInStep
    <2>5. writerFailed' \in BOOLEAN
      BY <1>8
    <2>6. IInv' /\ ~Ended /\ ~Ended'
      BY <1>1, <1>2, <1>5, <1>8, <2>1, <2>2, <2>4, <2>5, WriterKeeps
    <2> QED BY <1>1, <1>8, <2>6 DEF Quiet
  <1> QED BY <1>7, <1>8 DEF WriterAppend

LEMMA WriterFailKeeps == ASSUME IInv, WriterFail PROVE IInv' /\ Quiet
  <1>1. /\ pc["writer"] = "fail" /\ Goto("writer", "exit")
        /\ UNCHANGED <<opt, first, next, ring, committed, bid, tile, resume, failed>>
        /\ UNCHANGED <<queue, held, log, writerFailed>>
    BY DEF WriterFail, At, settings, order, prefetch, store
  <1>2. /\ opt.write /\ queue \in [Queues -> Seq(Nat)]
        /\ held \in [Lanes \cup {"writer"} -> Nat \cup {None}]
        /\ log \in Seq(Nat) /\ committed <= appended /\ Total <= End
    BY <1>1, WriterFacts
  <1>3. writerFailed /\ writerFailed \in BOOLEAN /\ held["writer"] = None
    BY <1>1 DEF IInv, WriterControl, Types
  <1>4. Total' = Total /\ appended' = appended /\ TilesInOrder'
    BY <1>1 DEF Total, Hand, appended, IInv, Stored, TilesInOrder
  <1>5. pc'["writer"] = "exit"
    BY <1>1 DEF IInv, Types, Goto, Threads
  <1>6. WriterControl' /\ QueueInStep'
    BY <1>1, <1>2, <1>3, <1>5 DEF WriterControl, QueueInStep
  <1>7. IInv' /\ ~Ended
    BY <1>1, <1>2, <1>3, <1>4, <1>6, WriterKeeps
  <1> QED BY <1>1, <1>7 DEF Quiet

-----------------------------------------------------------------------------
(* The lanes *)

LEMMA LaneKeeps ==
    ASSUME IInv, NEW l \in Lanes, pc[l] # "exit",
           UNCHANGED <<opt, first, next, ring, writerFailed, log, committed, bid, tile, resume>>,
           queue' \in [Queues -> Seq(Nat)], queue'["tile"] = queue["tile"],
           \A q \in Lanes \cup {"res"} : queue'[q] \in Seq(Block),
           held' \in [Lanes \cup {"writer"} -> Nat \cup {None}],
           held'["writer"] = held["writer"],
           \A k \in Lanes \ {l} : held'[k] = held[k],
           pc' \in [Threads -> Points], \A t \in Threads \ {l} : pc'[t] = pc[t],
           pc'[l] \in {"check", "pop", "encode", "push", "fail", "exit"},
           pc'[l] \in {"encode", "push"} => held'[l] \in Block,
           pc'[l] = "fail" => failed',
           failed' \in BOOLEAN, failed => failed',
           closed \subseteq closed', "res" \in closed' => failed' \/ "res" \in closed
    PROVE  IInv' /\ Quiet
  <1>1. opt.hybrid /\ ~opt.write
    BY DEF IInv, LaneControl, Types, Settings
  <1>2. /\ pc'["main"] = pc["main"] /\ pc'["writer"] = pc["writer"]
        /\ \A k \in Lanes \ {l} : pc'[k] = pc[k]
    BY DEF Threads, Lanes
  <1>3. HybridControl /\ HybridInStep /\ Locals
    BY <1>1 DEF IInv, Path
  <1>4. pc["main"] # "ended"
    BY <1>3 DEF HybridControl
  <1>5. Types'
    BY DEF IInv, Types
  <1>6. Total' = Total /\ appended' = appended /\ Hand' = Hand
    BY DEF Total, appended, Hand
  <1>7. Path'
    <2>1. Locals'
      BY <1>3 DEF Locals
    <2>2. HybridControl'
      BY <1>2, <1>3, <1>4 DEF HybridControl, InLoop
    <2>3. HybridInStep'
      BY <1>2, <1>3, <1>6 DEF HybridInStep
    <2> QED BY <1>1, <2>1, <2>2, <2>3 DEF Path
  <1>8. LaneControl'
    BY <1>1, <1>2 DEF IInv, LaneControl
  <1>9. WriterControl'
    BY <1>1, <1>2 DEF IInv, WriterControl
  <1>10. Stored'
    BY <1>2, <1>6 DEF IInv, Stored, TilesInOrder, RingInPlace, Slot, Window, QueueInStep, Bounds, End
  <1>11. Quiet
    BY <1>4 DEF Quiet, Ended
  <1> QED BY <1>5, <1>7, <1>8, <1>9, <1>10, <1>11 DEF IInv

\* Moving a lane changes nobody else's control point.
LEMMA LaneMoves ==
    ASSUME Types, NEW l \in Lanes, NEW p \in {"check", "pop", "encode", "push", "fail", "exit"},
           Goto(l, p)
    PROVE  pc'[l] = p /\ pc' \in [Threads -> Points] /\ \A t \in Threads \ {l} : pc'[t] = pc[t]
  <1>1. pc \in [Threads -> Points] /\ l \in Threads /\ p \in Points
    BY DEF Types, Threads, Lanes, Points
  <1> QED BY <1>1 DEF Goto

LEMMA LaneStepKeeps ==
    ASSUME IInv, NEW l \in Lanes, LaneStep(l) PROVE IInv' /\ Quiet
  <1>1. /\ queue \in [Queues -> Seq(Nat)] /\ \A q \in Lanes \cup {"res"} : queue[q] \in Seq(Block)
        /\ held \in [Lanes \cup {"writer"} -> Nat \cup {None}] /\ pc \in [Threads -> Points]
        /\ failed \in BOOLEAN /\ Types /\ l # "writer" /\ Block \subseteq Nat
    BY ConstFacts DEF IInv, Types, Path, Locals, Lanes, Block
  <1>2. CASE LaneCheck(l)
    <2> DEFINE p == IF failed THEN "exit" ELSE "pop"
    <2>1. /\ pc[l] = "check" /\ Goto(l, p)
          /\ UNCHANGED <<opt, first, next, ring, writerFailed, log, committed, bid, tile, resume>>
          /\ UNCHANGED <<queue, held, closed, failed>>
      BY <1>2 DEF LaneCheck, At, settings, sync, order, prefetch, store
    <2>2. pc'[l] = p /\ pc' \in [Threads -> Points] /\ \A t \in Threads \ {l} : pc'[t] = pc[t]
      BY <1>1, <2>1, LaneMoves
    <2> QED BY <1>1, <2>1, <2>2, LaneKeeps
  <1>3. CASE LanePop(l)
    <2>1. /\ pc[l] = "pop"
          /\ UNCHANGED <<opt, first, next, ring, writerFailed, log, committed, bid, tile, resume>>
          /\ UNCHANGED <<closed, failed>>
      BY <1>3 DEF LanePop, At, settings, order, prefetch, store
    <2>2. CASE PopItem(l, l, "encode") /\ held' = [held EXCEPT ![l] = Head(queue[l])]
      <3>1. /\ queue' \in [Queues -> Seq(Nat)] /\ queue'["tile"] = queue["tile"]
            /\ \A r \in Lanes \cup {"res"} : queue'[r] \in Seq(Block)
            /\ pc' \in [Threads -> Points] /\ \A u \in Threads \ {l} : pc'[u] = pc[u]
            /\ pc'[l] = "encode" /\ Head(queue[l]) \in Block
        <4>1. l \in Threads /\ l \in Lanes \cup {"res"} /\ "encode" \in Points
          BY DEF Threads, Points
        <4> QED BY <1>1, <2>2, <4>1, PopFacts
      <3>2. /\ held' \in [Lanes \cup {"writer"} -> Nat \cup {None}]
            /\ held'["writer"] = held["writer"] /\ \A k \in Lanes \ {l} : held'[k] = held[k]
            /\ held'[l] \in Block
        BY <1>1, <2>2, <3>1
      <3> QED BY <1>1, <2>1, <3>1, <3>2, LaneKeeps
    <2>3. CASE PopClosed(l, l, "exit") /\ UNCHANGED held
      <3>1. Goto(l, "exit") /\ queue' = queue
        BY <2>3 DEF PopClosed
      <3>2. pc'[l] = "exit" /\ pc' \in [Threads -> Points] /\ \A t \in Threads \ {l} : pc'[t] = pc[t]
        BY <1>1, <3>1, LaneMoves
      <3> QED BY <1>1, <2>1, <2>3, <3>1, <3>2, LaneKeeps
    <2>4. CASE PopSleep(l, l) /\ UNCHANGED held
      <3>1. UNCHANGED <<queue, pc>>
        BY <2>4 DEF PopSleep
      <3> QED BY <1>1, <2>1, <2>4, <3>1, LaneKeeps
    <2> QED BY <1>3, <2>2, <2>3, <2>4 DEF LanePop
  <1>4. CASE LaneEncode(l)
    <2>1. /\ pc[l] = "encode" /\ held[l] \in Block
          /\ UNCHANGED <<opt, first, next, ring, writerFailed, log, committed, bid, tile, resume>>
          /\ UNCHANGED <<queue, held, closed>>
          /\ \/ Goto(l, "push") /\ failed' = failed
             \/ Goto(l, "fail") /\ failed' = TRUE
      BY <1>4 DEF LaneEncode, At, settings, sync, order, prefetch, store, IInv, LaneControl
    <2>2. failed' \in BOOLEAN /\ (failed => failed')
      <3>1. failed' = failed \/ failed' = TRUE
        BY <2>1
      <3> QED BY <1>1, <3>1, Zenon
    <2>3. CASE Goto(l, "push")
      <3>1. pc'[l] = "push" /\ pc' \in [Threads -> Points] /\ \A t \in Threads \ {l} : pc'[t] = pc[t]
        BY <1>1, <2>3, LaneMoves
      <3> QED BY <1>1, <2>1, <2>2, <3>1, LaneKeeps
    <2>4. CASE Goto(l, "fail") /\ failed' = TRUE
      <3>1. pc'[l] = "fail" /\ pc' \in [Threads -> Points] /\ \A t \in Threads \ {l} : pc'[t] = pc[t]
        BY <1>1, <2>4, LaneMoves
      <3> QED BY <1>1, <2>1, <2>2, <2>4, <3>1, LaneKeeps
    <2> QED BY <2>1, <2>3, <2>4
  <1>5. CASE LaneFail(l)
    <2>1. /\ pc[l] = "fail" /\ Goto(l, "exit") /\ failed
          /\ UNCHANGED <<opt, first, next, ring, writerFailed, log, committed, bid, tile, resume>>
          /\ UNCHANGED <<queue, held, failed>>
          /\ closed' = closed \cup (Lanes \cup {"res"})
      BY <1>5 DEF LaneFail, Close, At, settings, order, prefetch, store, IInv, LaneControl
    <2>2. pc'[l] = "exit" /\ pc' \in [Threads -> Points] /\ \A t \in Threads \ {l} : pc'[t] = pc[t]
      BY <1>1, <2>1, LaneMoves
    <2> QED BY <1>1, <2>1, <2>2, LaneKeeps
  <1>6. CASE LanePush(l)
    <2>1. /\ pc[l] = "push" /\ held[l] \in Block
          /\ UNCHANGED <<opt, first, next, ring, writerFailed, log, committed, bid, tile, resume>>
          /\ UNCHANGED <<closed, failed>>
          /\ Push(l, "res", held[l], "check", "exit")
          /\ held' = IF pc'[l] = "push" THEN held ELSE [held EXCEPT ![l] = None]
      BY <1>6 DEF LanePush, At, settings, order, prefetch, store, IInv, LaneControl
    <2>2. /\ queue' \in [Queues -> Seq(Nat)] /\ queue'["tile"] = queue["tile"]
          /\ \A r \in Lanes \cup {"res"} : queue'[r] \in Seq(Block)
          /\ pc' \in [Threads -> Points] /\ \A u \in Threads \ {l} : pc'[u] = pc[u]
          /\ pc'[l] \in {"check", "exit", "push"}
      <3>1. l \in Threads /\ "res" \in Lanes \cup {"res"} /\ "check" \in Points /\ "exit" \in Points
        BY DEF Threads, Points
      <3> QED BY <1>1, <2>1, <3>1, PushFacts
    <2>3. /\ held' \in [Lanes \cup {"writer"} -> Nat \cup {None}]
          /\ held'["writer"] = held["writer"] /\ \A k \in Lanes \ {l} : held'[k] = held[k]
          /\ pc'[l] = "push" => held'[l] \in Block
      BY <1>1, <2>1
    <2> QED BY <1>1, <2>1, <2>2, <2>3, LaneKeeps
  <1> QED BY <1>2, <1>3, <1>4, <1>5, <1>6 DEF LaneStep

-----------------------------------------------------------------------------
(* All steps *)

LEMMA IoStepKeeps == ASSUME IInv, Io PROVE IInv' /\ Quiet
  <1>1. pc \in [Threads -> Points] /\ "io" \in Threads
    BY DEF IInv, Types, Threads
  <1>2. Kept /\ UNCHANGED <<bid, tile, resume, failed, closed>>
    <2>1. CASE IoRead
      BY <2>1 DEF IoRead, Kept, settings, sync, order, store
    <2>2. CASE IoPush
      BY <2>2 DEF IoPush, Kept, settings, sync, order, store
    <2>3. CASE IoFail
      BY <2>3 DEF IoFail, Kept, settings, sync, order, store
    <2>4. CASE IoDone
      BY <2>4 DEF IoDone, Kept, settings, sync, order, store
    <2>5. CASE IoExit
      BY <2>5 DEF IoExit, Kept, settings, sync, order, store
    <2> QED BY <2>1, <2>2, <2>3, <2>4, <2>5 DEF Io
  <1>3. pc' = pc \/ \E p \in {"done", "push", "fail", "loop", "notify", "exit"} : Goto("io", p)
    BY DEF Io, IoRead, IoPush, IoFail, IoDone, IoExit
  <1>4. pc' \in [Threads -> Points] /\ \A t \in Threads \ {"io"} : pc'[t] = pc[t]
    BY <1>1, <1>3 DEF Goto, Points
  <1> QED BY <1>2, <1>4, IoKeeps

LEMMA HybridKeeps ==
    ASSUME IInv, Hybrid, opt.hybrid PROVE IInv' /\ (Quiet \/ Extends)
  BY TopKeeps, DispatchKeeps, PushTaskKeeps, DrainKeeps, TryDrainKeeps, TriedKeeps,
     WriteBlockKeeps, WriteBlockFailsKeeps, NothingToWriteKeeps, CloseAllKeeps,
     CloseTasksKeeps, FinalDrainKeeps, CloseResultsKeeps, JoinLanesKeeps DEF Hybrid

LEMMA PlainKeeps ==
    ASSUME IInv, Plain, ~opt.hybrid PROVE IInv' /\ (Quiet \/ Extends \/ Commits)
  BY PlainTopKeeps, EncodeTileKeeps, AppendTileKeeps, PushTileKeeps, TilePushedKeeps,
     NextTileKeeps, CommitBlockKeeps, FinishWriterKeeps, CloseTilesKeeps, JoinWriterKeeps
     DEF Plain

\* Each path's steps are taken on that path only.
LEMMA PathsApart ==
    ASSUME IInv
    PROVE  (Hybrid => opt.hybrid) /\ (Plain => ~opt.hybrid)
  <1>1. CASE opt.hybrid
    <2>1. pc["main"] \in HybridPoints
      BY <1>1 DEF IInv, Path, HybridControl
    <2>2. ~Plain
      BY <1>1, <2>1 DEF Plain, PlainTop, EncodeTile, AppendTile, PushTile, TilePushed, NextTile,
            CommitBlock, FinishWriter, CloseTiles, JoinWriter, At, HybridPoints, Winding
    <2> QED BY <1>1, <2>2
  <1>2. CASE ~opt.hybrid
    <2>1. pc["main"] \in PlainPoints
      BY <1>2 DEF IInv, Path, PlainControl
    <2>2. ~Hybrid
      BY <1>2, <2>1 DEF Hybrid, Top, Dispatch, PushTask, Drain, TryDrain, Tried, WriteBlock,
            WriteBlockFails, NothingToWrite, CloseAll, CloseTasks, FinalDrain, CloseResults,
            JoinLanes, At, PlainPoints, PlainWinding, InTile
    <2> QED BY <1>2, <2>2
  <1> QED BY <1>1, <1>2

LEMMA NextKeeps ==
    ASSUME IInv, [Next]_vars PROVE IInv' /\ (Quiet \/ Extends \/ Commits)
  <1>1. CASE Main
    BY <1>1, ReadingKeeps, HybridKeeps, PlainKeeps, PathsApart DEF Main
  <1>2. CASE Io
    BY <1>2, IoStepKeeps
  <1>3. CASE Writer
    BY <1>3, WriterPopKeeps, WriterAppendKeeps, WriterFailKeeps DEF Writer
  <1>4. CASE \E l \in Lanes : LaneStep(l)
    BY <1>4, LaneStepKeeps
  <1>5. CASE UNCHANGED vars
    <2>1. Kept /\ UNCHANGED <<bid, tile, resume, failed, closed, pc>>
      BY <1>5 DEF vars, Kept, settings, sync, order, store
    <2> QED BY <2>1, IoKeeps DEF IInv, Types
  <1> QED BY <1>1, <1>2, <1>3, <1>4, <1>5 DEF Next

LEMMA Inductive == Spec => []IInv
  <1>1. Init => IInv
    BY InitHolds
  <1>2. IInv /\ [Next]_vars => IInv'
    BY NextKeeps
  <1> QED BY <1>1, <1>2, PTL DEF Spec

-----------------------------------------------------------------------------
(* The theorems *)

\* The store is an ordered log: whatever the order in which the lanes finish,
\* whatever fails, tile after tile is appended and each once.
THEOREM StoreIsOrderedLog == Spec => []TilesInOrder
  <1>1. IInv => TilesInOrder
    BY DEF IInv, Stored
  <1> QED BY <1>1, Inductive, PTL

\* A call that has returned true has appended, and committed, everything.
Whole == appended = End /\ (opt.commit => committed = End)

LEMMA EndedIsComplete == IInv /\ Ended /\ ~failed => Whole
  <1> SUFFICES ASSUME IInv, Ended, ~failed PROVE Whole
    OBVIOUS
  <1>1. CASE opt.hybrid
    BY <1>1 DEF IInv, Path, HybridControl, HybridInStep, Ended, End, Whole
  <1>2. CASE ~opt.hybrid
    <2>1. /\ bid = Blocks /\ pc["writer"] = "exit" /\ ~writerFailed /\ PlainInStep
      BY <1>2 DEF IInv, Path, PlainControl, PlainWinding, Ended
    <2>2. Produced = bid * Tiles + 0
      BY DEF Produced, Ended
    <2>3. Produced = End
      BY <2>1, <2>2, ConstFacts DEF End
    <2>4. Total = End /\ (opt.commit => committed = End)
      BY <2>1, <2>3 DEF PlainInStep, End
    <2>5. queue["tile"] = <<>> /\ held["writer"] = None
      BY <2>1 DEF IInv, WriterControl
    <2>6. appended \in Nat
      <3>1. first * Tiles \in Nat
        BY NextProduct, ConstFacts DEF IInv, Types
      <3>2. Len(log) \in Nat
        BY DEF IInv, Types
      <3> QED BY <3>1, <3>2 DEF appended
    <2> QED BY <2>4, <2>5, <2>6 DEF Total, Hand, Whole
  <1> QED BY <1>1, <1>2

\* EncodeBaseStreaming implements the ordered log of BlockLog: it commits only
\* what it has appended, and returns true only when all of it is there.
THEOREM LogImplemented == Spec => ImplementsLog
  <1>1. Init => Ledger!Init
    <2> SUFFICES ASSUME Init PROVE Ledger!Init
      OBVIOUS
    <2>1. first \in Nat /\ first <= Blocks /\ Len(log) = 0
      BY ConstFacts DEF Init
    <2>2. first * Tiles \in Nat /\ appended = first * Tiles
      BY <2>1, NextProduct DEF appended
    <2>3. first * Tiles <= End
      BY <2>2, InitHolds, ConstFacts DEF IInv, Stored, Bounds, Total, Hand, Init, Queues
    <2>4. pc["main"] = "top"
      BY DEF Init, Threads
    <2>5. opt.commit \in BOOLEAN
      BY DEF Init, Settings
    <2>6. status = "running" /\ committed = first * Tiles
      BY <2>4 DEF status, Ended, Init
    <2> QED BY <2>2, <2>3, <2>5, <2>6, ConstFacts DEF Ledger!Init, End
  <1>2. IInv' /\ Ended' /\ ~failed' => Whole'
    BY EndedIsComplete, PTL
  <1>3. IInv /\ IInv' /\ (Quiet \/ Extends \/ Commits) => [Ledger!Next]_(Ledger!ledger)
    <2> SUFFICES ASSUME IInv, IInv', Quiet \/ Extends \/ Commits
                 PROVE  [Ledger!Next]_(Ledger!ledger)
      OBVIOUS
    <2>1. CASE Quiet
      <3>1. appended' = appended /\ first' = first /\ opt' = opt /\ committed' = committed
        BY <2>1 DEF Quiet, appended
      <3>2. CASE status' = status
        BY <3>1, <3>2 DEF Ledger!ledger
      <3>3. CASE status' # status
        <4>1. status = "running" /\ (status' = "false" \/ (status' = "true" /\ Ended' /\ ~failed'))
          BY <2>1, <3>3 DEF Quiet, status
        <4>2. status' = "true" => appended' = End /\ (opt'.commit => committed' = End)
          BY <4>1, <1>2 DEF Whole, End
        <4> QED BY <3>1, <4>1, <4>2 DEF Ledger!Next, Ledger!Return, End
      <3> QED BY <3>2, <3>3
    <2>2. CASE Extends
      <3>1. status = "running" /\ status' = "running"
        BY <2>2 DEF Extends, status
      <3> QED BY <2>2, <3>1 DEF Extends, Ledger!Next, Ledger!Extend, Ledger!ExtendAndCommit, End
    <2>3. CASE Commits
      <3>1. status = "running" /\ status' = "running" /\ appended' = appended
        BY <2>3 DEF Commits, status, appended
      <3> QED BY <2>3, <3>1 DEF Commits, Ledger!Next, Ledger!Commit
    <2> QED BY <2>1, <2>2, <2>3
  <1>4. IInv /\ [Next]_vars => IInv' /\ [Ledger!Next]_(Ledger!ledger)
    BY <1>3, NextKeeps
  <1> QED BY <1>1, <1>4, Inductive, PTL DEF Spec, ImplementsLog, Ledger!Spec

-----------------------------------------------------------------------------
(***************************************************************************)
(* The reorder ring and the queues of EncodeBaseStreaming never overflow,  *)
(* nobody waits to hand a block over, and a healthy run reports no error.  *)
(*                                                                         *)
(* The argument counts nothing.  A block that was handed out and is not    *)
(* written is in the span next .. next + inflight - 1, and in one place: a *)
(* queue, a lane's hands or the ring.  So a queue and the block its pusher *)
(* holds are an injection into a span no longer than Depth, and two blocks *)
(* of the span never have the same slot.                                   *)
(***************************************************************************)

Items(s) == {s[i] : i \in 1 .. Len(s)}
OneEach(s) == \A i, j \in 1 .. Len(s) : s[i] = s[j] => i = j

Moved == {"gpu", "cpu", "res"}
Hands(l) == IF l = "gpu" THEN "gpuhands" ELSE "cpuhands"
Places == Moved \cup {"gpuhands", "cpuhands", "ring"}

Contents ==
    [k \in Places |->
        CASE k \in Moved -> Items(queue[k])
          [] k = "gpuhands" -> {held["gpu"]} \ {None}
          [] k = "cpuhands" -> {held["cpu"]} \ {None}
          [] OTHER -> {ring[s] : s \in 0 .. Depth - 1} \ {None}]

Apart(C) == \A j, k \in Places : j # k => C[j] \cap C[k] = {}
Span == next .. (next + inflight) - 1

Limits ==
    /\ closed \subseteq Queues
    /\ \A q \in Queues : Len(queue[q]) <= Capacity(q)

ReaderLimits ==
    /\ ahead \in Seq(Block) /\ Len(ahead) <= IoDepth
    /\ ioNext \in 0 .. Blocks
    /\ stop \in BOOLEAN /\ done \in BOOLEAN /\ fault \in BOOLEAN

(* Every block on its way is in the span, in one place. *)
OnePlace ==
    /\ inflight \in 0 .. Depth
    /\ \A k \in Places : Contents[k] \subseteq Span
    /\ Apart(Contents)
    /\ \A q \in Moved : OneEach(queue[q])

(* The caller is about to hand out bid, which the span does not reach and
   which it has room for. *)
Pace == opt.hybrid =>
    /\ pc["main"] \in {"read", "blocking", "push"} => bid = next + inflight /\ inflight < Depth
    /\ ~failed => next + inflight = HandedOut + 1
    /\ ~failed /\ pc["main"] = "dispatch" => inflight < Depth
    /\ pc["main"] = "drain" => resume # "try"

(* Nobody sleeps with a block in hand. *)
Awake ==
    /\ asleep \subseteq Threads
    /\ opt.hybrid => \A t \in {"main"} \cup Lanes : pc[t] = "push" => t \notin asleep

(* The caller has not left its loop over the blocks. *)
InBlock == {"try", "tried", "encode", "append", "push", "pushed", "appended", "commit"}
Back(r) == pc["main"] \in {"drain", "write", "fail"} /\ resume = r
Early == \/ pc["main"] \in InBlock \cup {"top", "dispatch", "read", "blocking"}
         \/ Back("top") \/ Back("try")
Taken == IF pc["main"] \in InBlock \/ Back("try") THEN bid + 1 ELSE bid

(* Why something failed, and why nothing else looks like it. *)
FaultKnown == failed \/ writerFailed => fault
StillOpen == Early /\ (stop \/ "tile" \in closed) => fault
ReadAhead == opt.read /\ Early /\ ~failed => Len(ahead) + Taken = ioNext
IoControl ==
    /\ pc["io"] \in {"loop", "push", "fail", "done", "notify", "exit"}
    /\ pc["io"] = "push" => ioNext < Blocks
    /\ pc["io"] = "fail" => stop
    /\ opt.read /\ pc["io"] \in {"done", "notify", "exit"} => stop \/ ioNext = Blocks
    /\ opt.read /\ done => pc["io"] \in {"notify", "exit"}
    /\ ~opt.read => pc["io"] = "exit"

JInv == /\ Limits /\ ReaderLimits /\ OnePlace /\ Pace /\ Awake
        /\ FaultKnown /\ StillOpen /\ ReadAhead /\ IoControl

-----------------------------------------------------------------------------
(* Queues without repetitions *)

LEMMA TailOf ==
    ASSUME NEW s \in Seq(Nat), s # <<>>, OneEach(s)
    PROVE  /\ Head(s) \in Items(s) /\ OneEach(Tail(s))
           /\ Items(Tail(s)) \subseteq Items(s) \ {Head(s)}
  <1>1. /\ Len(s) \in Nat /\ Len(s) > 0 /\ Head(s) = s[1] /\ Len(Tail(s)) = Len(s) - 1
        /\ \A i \in 1 .. Len(s) - 1 : Tail(s)[i] = s[i + 1]
    OBVIOUS
  <1>2. OneEach(Tail(s))
    <2> SUFFICES ASSUME NEW i \in 1 .. Len(s) - 1, NEW j \in 1 .. Len(s) - 1, s[i + 1] = s[j + 1]
                 PROVE  i = j
      BY <1>1 DEF OneEach
    <2>1. i + 1 \in 1 .. Len(s) /\ j + 1 \in 1 .. Len(s)
      BY <1>1
    <2>2. i + 1 = j + 1
      BY <2>1 DEF OneEach
    <2> QED BY <2>2
  <1>3. \A i \in 1 .. Len(s) - 1 : i + 1 \in 1 .. Len(s) /\ s[i + 1] # s[1]
    BY <1>1 DEF OneEach
  <1> QED BY <1>1, <1>2, <1>3 DEF Items

LEMMA AppendTo ==
    ASSUME NEW s \in Seq(Nat), NEW b \in Nat, b \notin Items(s), OneEach(s)
    PROVE  OneEach(Append(s, b)) /\ Items(Append(s, b)) \subseteq Items(s) \cup {b}
  <1>1. /\ Len(s) \in Nat /\ Len(Append(s, b)) = Len(s) + 1
        /\ \A i \in 1 .. Len(s) : Append(s, b)[i] = s[i]
        /\ Append(s, b)[Len(s) + 1] = b
    OBVIOUS
  <1>2. \A i \in 1 .. Len(s) + 1 : i \in 1 .. Len(s) \/ i = Len(s) + 1
    BY <1>1
  <1>3. \A i \in 1 .. Len(s) : s[i] # b
    BY DEF Items
  <1>4. OneEach(Append(s, b))
    BY <1>1, <1>2, <1>3 DEF OneEach
  <1> QED BY <1>1, <1>2, <1>4 DEF Items

LEMMA FitsInSpan ==
    ASSUME NEW s \in Seq(Nat), OneEach(s), NEW a \in Nat, NEW n \in Nat,
           Items(s) \subseteq a .. (a + n) - 1
    PROVE  Len(s) <= n
  <1>1. Len(s) \in Nat /\ s \in [1 .. Len(s) -> a .. (a + n) - 1]
    BY DEF Items
  <1>2. s \in Injection(1 .. Len(s), a .. (a + n) - 1)
    BY <1>1 DEF Injection, IsInjective, OneEach
  <1>3. /\ IsFiniteSet(a .. (a + n) - 1)
        /\ Cardinality(a .. (a + n) - 1) = (IF a > (a + n) - 1 THEN 0 ELSE (((a + n) - 1) - a) + 1)
    <2>1. a \in Int /\ (a + n) - 1 \in Int
      OBVIOUS
    <2> QED BY <2>1, FS_Interval
  <1>4. Cardinality(a .. (a + n) - 1) = n
    BY <1>3
  <1>5. Cardinality(1 .. Len(s)) <= n
    BY <1>2, <1>3, <1>4, FS_Injection
  <1>6. Cardinality(1 .. Len(s)) = Len(s)
    <2>1. 1 \in Int /\ Len(s) \in Int
      BY <1>1
    <2>2. Cardinality(1 .. Len(s)) = (IF 1 > Len(s) THEN 0 ELSE (Len(s) - 1) + 1)
      BY <2>1, FS_Interval
    <2> QED BY <1>1, <2>2
  <1> QED BY <1>5, <1>6

\* With a block of the span that is not among them, there is room for one more.
LEMMA RoomForHeld ==
    ASSUME NEW s \in Seq(Nat), OneEach(s), NEW a \in Nat, NEW n \in Nat,
           Items(s) \subseteq a .. (a + n) - 1,
           NEW b \in a .. (a + n) - 1, b \notin Items(s)
    PROVE  Len(s) < n
  <1>1. OneEach(Append(s, b)) /\ Items(Append(s, b)) \subseteq a .. (a + n) - 1
        /\ Append(s, b) \in Seq(Nat) /\ Len(Append(s, b)) = Len(s) + 1 /\ Len(s) \in Nat
    BY AppendTo
  <1>2. Len(Append(s, b)) <= n
    BY <1>1, FitsInSpan
  <1> QED BY <1>1, <1>2

\* Two blocks of the window never have the same slot.
LEMMA SlotsOfWindow ==
    ASSUME NEW n \in Nat, NEW b \in n .. n + Depth - 1, NEW c \in n .. n + Depth - 1,
           Slot(b) = Slot(c)
    PROVE  b = c
  <1>1. CASE b <= c
    <2>1. b \in Nat /\ c \in b .. b + Depth - 1
      BY <1>1, ConstFacts
    <2> QED BY <2>1, SlotsDiffer
  <1>2. CASE c <= b
    <2>1. c \in Nat /\ b \in c .. c + Depth - 1
      BY <1>2, ConstFacts
    <2> QED BY <2>1, SlotsDiffer
  <1> QED BY <1>1, <1>2, ConstFacts

-----------------------------------------------------------------------------
(* Where the blocks are *)

LEMMA ContentsAre ==
    /\ \A q \in Moved : Contents[q] = Items(queue[q])
    /\ Contents["gpuhands"] = {held["gpu"]} \ {None}
    /\ Contents["cpuhands"] = {held["cpu"]} \ {None}
    /\ Contents["ring"] = {ring[s] : s \in 0 .. Depth - 1} \ {None}
  BY DEF Contents, Places, Moved

LEMMA ContentsBecome ==
    /\ \A q \in Moved : Contents'[q] = Items(queue'[q])
    /\ Contents'["gpuhands"] = {held'["gpu"]} \ {None}
    /\ Contents'["cpuhands"] = {held'["cpu"]} \ {None}
    /\ Contents'["ring"] = {ring'[s] : s \in 0 .. Depth - 1} \ {None}
  BY DEF Contents, Places, Moved, Items

\* A block that moves, and perhaps is dropped, stays in one place at most.
LEMMA BlockMoves ==
    ASSUME NEW C, NEW D, Apart(C), NEW j \in Places, NEW k \in Places, NEW b, b \in C[j],
           D[j] \subseteq C[j] \ {b}, D[k] \subseteq C[k] \cup {b},
           \A p \in Places \ {j, k} : D[p] \subseteq C[p]
    PROVE  Apart(D)
  <1> SUFFICES ASSUME NEW p \in Places, NEW q \in Places, p # q, NEW x, x \in D[p], x \in D[q]
               PROVE  FALSE
    BY DEF Apart
  <1>1. \A y \in Places : x \in D[y] => x \in C[y] \/ (y = k /\ x = b)
    OBVIOUS
  <1>2. x = b => p # j /\ q # j
    OBVIOUS
  <1>3. ~(x \in C[p] /\ x \in C[q])
    BY DEF Apart
  <1>4. x = b /\ (x \in C[p] \/ x \in C[q])
    BY <1>1, <1>3
  <1> QED BY <1>2, <1>4 DEF Apart

LEMMA Settled ==
    ASSUME inflight' \in 0 .. Depth, Apart(Contents'),
           \A k \in Places : Contents'[k] \subseteq Span',
           \A q \in Moved : OneEach(queue'[q])
    PROVE  OnePlace'
  BY DEF OnePlace, Apart, OneEach

\* No block moves.
LEMMA Unmoved ==
    ASSUME OnePlace, UNCHANGED <<next, inflight, ring>>,
           \A q \in Moved : queue'[q] = queue[q], \A l \in Lanes : held'[l] = held[l]
    PROVE  OnePlace'
  <1>1. Contents' = Contents
    <2>1. held'["gpu"] = held["gpu"] /\ held'["cpu"] = held["cpu"]
      BY DEF Lanes
    <2> QED BY <2>1 DEF Contents, Items, Places, Moved
  <1>2. Span' = Span
    BY DEF Span
  <1> QED BY <1>1, <1>2, Settled DEF OnePlace

\* A block moves from j to k, or is dropped.
LEMMA Moves ==
    ASSUME OnePlace, UNCHANGED <<next, inflight>>,
           NEW j \in Places, NEW k \in Places, NEW b, b \in Contents[j],
           Contents'[j] \subseteq Contents[j] \ {b},
           Contents'[k] \subseteq Contents[k] \cup {b},
           \A p \in Places \ {j, k} : Contents'[p] \subseteq Contents[p],
           \A q \in Moved : OneEach(queue'[q])
    PROVE  OnePlace'
  <1>1. Apart(Contents')
    BY BlockMoves DEF OnePlace
  <1>2. Span' = Span
    BY DEF Span
  <1>3. b \in Span
    BY DEF OnePlace
  <1>4. \A p \in Places : Contents'[p] \subseteq Span
    BY <1>3 DEF OnePlace
  <1> QED BY <1>1, <1>2, <1>4, Settled DEF OnePlace

LEMMA PlaceFacts ==
    ASSUME IInv, JInv
    PROVE  /\ OnePlace /\ Apart(Contents) /\ \A k \in Places : Contents[k] \subseteq Span
           /\ next \in Nat /\ inflight \in Nat /\ inflight <= Depth
           /\ \A q \in Moved : q \in Queues /\ queue[q] \in Seq(Nat) /\ OneEach(queue[q])
           /\ queue \in [Queues -> Seq(Nat)]
           /\ held \in [Lanes \cup {"writer"} -> Nat \cup {None}]
           /\ ring \in [0 .. Depth - 1 -> Block \cup {None}] /\ None \notin Nat
  BY ConstFacts DEF JInv, IInv, Types, OnePlace, Moved, Queues, Lanes

LEMMA PushTaskPlaces == ASSUME IInv, JInv, PushTask PROVE OnePlace'
  <1> DEFINE q == Lane(bid)
  <1>1. /\ opt.hybrid /\ pc["main"] = "push" /\ Push("main", q, bid, "try", Leave)
        /\ inflight' = IF pc'["main"] = "try" THEN inflight + 1 ELSE inflight
        /\ UNCHANGED <<held, ring, next>>
    BY DEF PushTask, At
  <1>2. /\ Leave \in {"stopio", "close"} /\ q \in Lanes
        /\ bid = next + inflight /\ inflight < Depth /\ bid \in Nat
    <2>1. Leave \in {"stopio", "close"} /\ q \in Lanes
      BY <1>1 DEF Leave, AfterIo, Lane, Lanes
    <2>2. bid = next + inflight /\ inflight < Depth
      BY <1>1 DEF JInv, Pace
    <2> QED BY <2>1, <2>2, PlaceFacts
  <1> HIDE DEF q
  <1>3. CASE queue' = queue /\ pc'["main"] # "try"
    BY <1>1, <1>3, Unmoved DEF JInv
  <1>4. CASE queue' = [queue EXCEPT ![q] = Append(@, bid)] /\ pc'["main"] = "try"
    <2>1. /\ inflight' = inflight + 1 /\ inflight' \in 0 .. Depth /\ next' = next
          /\ bid \notin Span /\ Span' = Span \cup {bid}
      <3>1. inflight' = inflight + 1 /\ next' = next /\ inflight \in Nat /\ next \in Nat
        BY <1>1, <1>4, PlaceFacts
      <3>2. next' .. (next' + inflight') - 1 = (next .. (next + inflight) - 1) \cup {bid}
        BY <1>2, <3>1
      <3> QED BY <1>2, <3>1, <3>2, ConstFacts DEF Span
    <2>2. q \in Moved /\ q \in Places /\ q \in Queues /\ queue[q] \in Seq(Nat)
          /\ OneEach(queue[q]) /\ bid \notin Items(queue[q])
      <3>1. q \in Moved /\ q \in Places
        BY <1>2 DEF Lanes, Moved, Places
      <3>2. q \in Queues /\ queue[q] \in Seq(Nat) /\ OneEach(queue[q]) /\ Contents[q] \subseteq Span
        BY <3>1, PlaceFacts
      <3>3. Contents[q] = Items(queue[q])
        BY <3>1, ContentsAre
      <3> QED BY <2>1, <3>1, <3>2, <3>3
    <2>3. /\ OneEach(queue'[q]) /\ Items(queue'[q]) \subseteq Items(queue[q]) \cup {bid}
          /\ \A p \in Moved \ {q} : queue'[p] = queue[p]
      <3>1. queue'[q] = Append(queue[q], bid) /\ \A p \in Moved \ {q} : queue'[p] = queue[p]
        BY <1>4, <2>2, PlaceFacts
      <3> QED BY <1>2, <2>2, <3>1, AppendTo
    <2>4. /\ \A p \in Places \ {q} : Contents'[p] = Contents[p]
          /\ Contents'[q] \subseteq Contents[q] \cup {bid}
      <3>1. \A p \in Moved \ {q} : Contents'[p] = Contents[p]
        BY <2>3, ContentsAre, ContentsBecome
      <3>2. Contents'[q] \subseteq Contents[q] \cup {bid}
        BY <2>2, <2>3, ContentsAre, ContentsBecome
      <3>3. Contents'["gpuhands"] = Contents["gpuhands"] /\ Contents'["cpuhands"] = Contents["cpuhands"]
        BY <1>1, ContentsAre, ContentsBecome
      <3>4. Contents'["ring"] = Contents["ring"]
        BY <1>1, ContentsAre, ContentsBecome
      <3> QED BY <3>1, <3>2, <3>3, <3>4 DEF Places
    <2>5. \A p \in Places : bid \notin Contents[p]
      BY <2>1, PlaceFacts
    <2>6. Apart(Contents')
      <3>1. Apart(Contents)
        BY PlaceFacts
      <3> QED BY <2>4, <2>5, <3>1 DEF Apart
    <2>7. \A p \in Places : Contents'[p] \subseteq Span'
      BY <2>1, <2>4, PlaceFacts
    <2>8. \A p \in Moved : OneEach(queue'[p])
      BY <2>3, PlaceFacts
    <2> QED BY <2>1, <2>6, <2>7, <2>8, Settled
  <1>5. \/ queue' = queue /\ pc'["main"] # "try"
        \/ queue' = [queue EXCEPT ![q] = Append(@, bid)] /\ pc'["main"] = "try"
    <2>1. pc \in [Threads -> Points] /\ "main" \in Threads
      BY DEF IInv, Types, Threads
    <2> QED BY <1>1, <1>2, <2>1 DEF Push, Goto
  <1> QED BY <1>3, <1>4, <1>5

\* The item a queue gives up, and what is left of it.
LEMMA Popped ==
    ASSUME IInv, JInv, NEW t \in Threads, NEW q \in Moved, NEW p \in Points, PopItem(t, q, p)
    PROVE  /\ Head(queue[q]) \in Contents[q] /\ Head(queue[q]) \in Block
           /\ \A r \in Moved : OneEach(queue'[r])
           /\ \A r \in Moved \ {q} : Contents'[r] = Contents[r]
           /\ Contents'[q] \subseteq Contents[q] \ {Head(queue[q])}
  <1>1. queue[q] # <<>> /\ queue' = [queue EXCEPT ![q] = Tail(@)] /\ q \in Queues
    BY PlaceFacts DEF PopItem
  <1>2. queue'[q] = Tail(queue[q]) /\ \A r \in Moved \ {q} : queue'[r] = queue[r]
    BY <1>1, PlaceFacts
  <1>3. /\ Head(queue[q]) \in Items(queue[q]) /\ OneEach(queue'[q])
        /\ Items(queue'[q]) \subseteq Items(queue[q]) \ {Head(queue[q])}
    BY <1>1, <1>2, PlaceFacts, TailOf
  <1>4. Head(queue[q]) \in Block
    <2>1. q \in Lanes \cup {"res"} /\ Types
      BY DEF Moved, Lanes, IInv
    <2> QED BY <2>1, PopFacts
  <1>5. \A r \in Moved : OneEach(queue'[r])
    BY <1>2, <1>3, PlaceFacts
  <1>6. \A r \in Moved \ {q} : Contents'[r] = Contents[r]
    BY <1>2, ContentsAre, ContentsBecome
  <1>7. Head(queue[q]) \in Contents[q] /\ Contents'[q] \subseteq Contents[q] \ {Head(queue[q])}
    BY <1>3, ContentsAre, ContentsBecome
  <1> QED BY <1>4, <1>5, <1>6, <1>7

\* What a lane holds is the content of its hands.
LEMMA HandsOf ==
    ASSUME NEW l \in Lanes
    PROVE  /\ l \in Moved /\ l \in Queues /\ l \in Threads
           /\ l \in Places /\ Hands(l) \in Places /\ l # Hands(l) /\ "res" \in Places
           /\ Hands(l) \notin Moved /\ Hands(l) # "ring"
           /\ Contents[Hands(l)] = {held[l]} \ {None}
           /\ Contents'[Hands(l)] = {held'[l]} \ {None}
  BY ContentsAre, ContentsBecome DEF Lanes, Moved, Queues, Threads, Places, Hands

\* Only this lane's hands change.
LEMMA OtherHands ==
    ASSUME NEW l \in Lanes, \A k \in Lanes \ {l} : held'[k] = held[k], ring' = ring
    PROVE  \A p \in Places \ (Moved \cup {Hands(l)}) : Contents'[p] = Contents[p]
  <1>1. Contents'["ring"] = Contents["ring"]
    BY ContentsAre, ContentsBecome
  <1>2. CASE l = "gpu"
    <2>1. Contents'["cpuhands"] = Contents["cpuhands"]
      BY <1>2, ContentsAre, ContentsBecome DEF Lanes
    <2> QED BY <1>1, <1>2, <2>1 DEF Places, Hands
  <1>3. CASE l = "cpu"
    <2>1. Contents'["gpuhands"] = Contents["gpuhands"]
      BY <1>3, ContentsAre, ContentsBecome DEF Lanes
    <2> QED BY <1>1, <1>3, <2>1 DEF Places, Hands
  <1> QED BY <1>2, <1>3 DEF Lanes

LEMMA LanePopPlaces == ASSUME IInv, JInv, NEW l \in Lanes, LanePop(l) PROVE OnePlace'
  <1>1. UNCHANGED <<next, inflight, ring>>
    BY DEF LanePop, order
  <1>2. CASE UNCHANGED <<queue, held>>
    BY <1>1, <1>2, Unmoved DEF JInv
  <1>3. CASE PopItem(l, l, "encode") /\ held' = [held EXCEPT ![l] = Head(queue[l])]
    <2> DEFINE b == Head(queue[l])
    <2>1. /\ b \in Contents[l] /\ b \in Block /\ \A r \in Moved : OneEach(queue'[r])
          /\ \A r \in Moved \ {l} : Contents'[r] = Contents[r]
          /\ Contents'[l] \subseteq Contents[l] \ {b}
      <3>1. "encode" \in Points /\ l \in Threads /\ l \in Moved
        BY HandsOf DEF Points
      <3> QED BY <1>3, <3>1, Popped
    <2>2. held'[l] = b /\ \A k \in Lanes \ {l} : held'[k] = held[k]
      BY <1>3, PlaceFacts
    <2> HIDE DEF b
    <2>3. Contents'[Hands(l)] \subseteq Contents[Hands(l)] \cup {b}
      BY <2>2, HandsOf
    <2>4. \A p \in Places \ {l, Hands(l)} : Contents'[p] \subseteq Contents[p]
      BY <1>1, <2>1, <2>2, OtherHands
    <2>5. l \in Places /\ Hands(l) \in Places /\ OnePlace
      BY HandsOf DEF JInv
    <2> QED BY <1>1, <2>1, <2>3, <2>4, <2>5, Moves
  <1>4. UNCHANGED <<queue, held>> \/ (PopItem(l, l, "encode") /\ held' = [held EXCEPT ![l] = Head(queue[l])])
    BY DEF LanePop, PopClosed, PopSleep
  <1> QED BY <1>2, <1>3, <1>4

LEMMA LanePushPlaces == ASSUME IInv, JInv, NEW l \in Lanes, LanePush(l) PROVE OnePlace'
  <1>1. /\ pc[l] = "push" /\ UNCHANGED <<next, inflight, ring>>
        /\ Push(l, "res", held[l], "check", "exit")
        /\ held' = IF pc'[l] = "push" THEN held ELSE [held EXCEPT ![l] = None]
    BY DEF LanePush, At, order
  <1>2. held[l] \in Block /\ held[l] \in Nat
    BY <1>1, ConstFacts DEF IInv, LaneControl, Block
  <1>3. CASE UNCHANGED <<queue, held>>
    BY <1>1, <1>3, Unmoved DEF JInv
  <1>4. CASE held' = [held EXCEPT ![l] = None] /\ (queue' = queue \/ queue' = [queue EXCEPT !["res"] = Append(@, held[l])])
    <2> DEFINE b == held[l]
    <2>1. held'[l] = None /\ \A k \in Lanes \ {l} : held'[k] = held[k]
      BY <1>4, PlaceFacts
    <2>2. b \in Contents[Hands(l)] /\ Contents'[Hands(l)] \subseteq Contents[Hands(l)] \ {b}
      BY <1>2, <2>1, HandsOf, PlaceFacts
    <2>3. /\ OneEach(queue'["res"]) /\ Items(queue'["res"]) \subseteq Items(queue["res"]) \cup {b}
          /\ \A r \in Moved \ {"res"} : queue'[r] = queue[r]
      <3>1. queue' = queue \/ (queue'["res"] = Append(queue["res"], b) /\ \A r \in Moved \ {"res"} : queue'[r] = queue[r])
        BY <1>4, PlaceFacts DEF Moved
      <3>2. "res" \in Moved /\ "res" # Hands(l) /\ "res" \in Places /\ Hands(l) \in Places
        BY HandsOf DEF Moved
      <3>3. b \notin Items(queue["res"])
        BY <2>2, <3>2, PlaceFacts, ContentsAre DEF Apart
      <3>4. queue["res"] \in Seq(Nat) /\ OneEach(queue["res"])
        BY <3>2, PlaceFacts
      <3>5. CASE queue' = queue
        BY <3>2, <3>4, <3>5
      <3>6. CASE queue'["res"] = Append(queue["res"], b) /\ \A r \in Moved \ {"res"} : queue'[r] = queue[r]
        BY <1>2, <3>3, <3>4, <3>6, AppendTo
      <3> QED BY <3>1, <3>5, <3>6
    <2>4. \A r \in Moved : OneEach(queue'[r])
      BY <2>3, PlaceFacts
    <2>5. Contents'["res"] \subseteq Contents["res"] \cup {b}
          /\ \A r \in Moved \ {"res"} : Contents'[r] = Contents[r]
      <3>1. "res" \in Moved
        BY DEF Moved
      <3> QED BY <2>3, <3>1, ContentsAre, ContentsBecome
    <2>6. \A p \in Places \ {Hands(l), "res"} : Contents'[p] \subseteq Contents[p]
      BY <1>1, <2>1, <2>5, OtherHands
    <2>7. "res" \in Places /\ Hands(l) \in Places /\ OnePlace
      BY HandsOf DEF JInv
    <2> HIDE DEF b
    <2> QED BY <1>1, <2>2, <2>4, <2>5, <2>6, <2>7, Moves
  <1>5. \/ UNCHANGED <<queue, held>>
        \/ held' = [held EXCEPT ![l] = None] /\ (queue' = queue \/ queue' = [queue EXCEPT !["res"] = Append(@, held[l])])
    <2>1. pc \in [Threads -> Points] /\ l \in Threads
      BY HandsOf DEF IInv, Types
    <2> QED BY <1>1, <2>1 DEF Push, Goto
  <1> QED BY <1>3, <1>4, <1>5

LEMMA ArrivePlaces ==
    ASSUME IInv, JInv, Arrive(Head(queue["res"])), UNCHANGED <<next, inflight, held>>
    PROVE  OnePlace'
  <1> DEFINE b == Head(queue["res"])
  <1>1. \/ /\ b \in Window /\ ring' = [ring EXCEPT ![Slot(b)] = b] /\ PopItem("main", "res", "write")
        \/ ring' = ring /\ PopItem("main", "res", "fail")
    BY DEF Arrive
  <1>2. /\ b \in Contents["res"] /\ b \in Block /\ \A r \in Moved : OneEach(queue'[r])
        /\ \A r \in Moved \ {"res"} : Contents'[r] = Contents[r]
        /\ Contents'["res"] \subseteq Contents["res"] \ {b}
    <2>1. "main" \in Threads /\ "res" \in Moved /\ "write" \in Points /\ "fail" \in Points
      BY DEF Threads, Moved, Points
    <2> QED BY <1>1, <2>1, Popped
  <1>3. Contents'["ring"] \subseteq Contents["ring"] \cup {b}
    <2>1. \A s \in 0 .. Depth - 1 : ring'[s] = ring[s] \/ ring'[s] = b
      BY <1>1, PlaceFacts
    <2> QED BY <2>1, ContentsAre, ContentsBecome
  <1>4. Contents'["gpuhands"] = Contents["gpuhands"] /\ Contents'["cpuhands"] = Contents["cpuhands"]
    BY ContentsAre, ContentsBecome
  <1>5. \A p \in Places \ {"res", "ring"} : Contents'[p] \subseteq Contents[p]
    BY <1>2, <1>4 DEF Places
  <1>6. "res" \in Places /\ "ring" \in Places /\ OnePlace
    BY DEF Places, Moved, JInv
  <1> HIDE DEF b
  <1> QED BY <1>2, <1>3, <1>5, <1>6, Moves

LEMMA WriteBlockPlaces == ASSUME IInv, JInv, opt.hybrid, WriteBlock PROVE OnePlace'
  <1>1. /\ pc["main"] = "write" /\ next < Blocks /\ ring[Slot(next)] # None
        /\ ring' = [ring EXCEPT ![Slot(next)] = None]
        /\ next' = next + 1 /\ inflight' = inflight - 1 /\ UNCHANGED <<queue, held>>
    BY DEF WriteBlock, At, sync
  <1>2. ring[Slot(next)] = next /\ Slot(next) \in 0 .. Depth - 1 /\ next \in Nat /\ None \notin Nat
    BY <1>1, SlotOfNext, PlaceFacts
  <1>3. next \in Contents["ring"]
    BY <1>2, ContentsAre
  <1>4. next \in Span /\ next \in Nat /\ inflight \in Nat /\ inflight <= Depth
    BY <1>3, PlaceFacts DEF Places
  <1>5. inflight' \in 0 .. Depth /\ Span' = Span \ {next}
    <2>1. inflight >= 1
      BY <1>4 DEF Span
    <2>2. next' .. (next' + inflight') - 1 = (next .. (next + inflight) - 1) \ {next}
      BY <1>1, <1>4, <2>1
    <2> QED BY <1>1, <1>4, <2>1, <2>2, ConstFacts DEF Span
  <1>6. \A s \in 0 .. Depth - 1 : ring'[s] = None \/ (ring'[s] = ring[s] /\ ring[s] # next)
    <2>1. \A s \in 0 .. Depth - 1 : s # Slot(next) => ring'[s] = ring[s] /\ ring[s] # next
      BY <1>1, <1>2, PlaceFacts DEF IInv, Stored, RingInPlace
    <2>2. ring'[Slot(next)] = None
      BY <1>1, <1>2, PlaceFacts
    <2> QED BY <2>1, <2>2
  <1>7. Contents'["ring"] \subseteq Contents["ring"] \ {next}
    <2>1. Contents'["ring"] = {ring'[s] : s \in 0 .. Depth - 1} \ {None}
          /\ Contents["ring"] = {ring[s] : s \in 0 .. Depth - 1} \ {None}
      BY ContentsAre, ContentsBecome
    <2> QED BY <1>6, <2>1
  <1>8. \A p \in Places \ {"ring"} : Contents'[p] = Contents[p]
    <2>1. \A q \in Moved : Contents'[q] = Contents[q]
      BY <1>1, ContentsAre, ContentsBecome
    <2>2. Contents'["gpuhands"] = Contents["gpuhands"] /\ Contents'["cpuhands"] = Contents["cpuhands"]
      BY <1>1, ContentsAre, ContentsBecome
    <2> QED BY <2>1, <2>2 DEF Places
  <1>9. \A p \in Places \ {"ring"} : next \notin Contents[p]
    BY <1>3, PlaceFacts DEF Apart, Places
  <1>10. Apart(Contents') /\ \A p \in Places : Contents'[p] \subseteq Span'
    <2>1. \A p \in Places : Contents'[p] \subseteq Contents[p] \ {next}
      BY <1>7, <1>8, <1>9
    <2> QED BY <1>5, <2>1, PlaceFacts DEF Apart
  <1>11. \A q \in Moved : OneEach(queue'[q])
    BY <1>1, PlaceFacts
  <1> QED BY <1>5, <1>10, <1>11, Settled

-----------------------------------------------------------------------------
(* Whose step it is *)

LEMMA Goes ==
    ASSUME IInv, NEW t \in Threads, NEW p, Goto(t, p)
    PROVE  pc'[t] = p /\ \A u \in Threads \ {t} : pc'[u] = pc[u]
  BY DEF Goto, IInv, Types

LEMMA MainGoes ==
    ASSUME IInv, NEW p, Goto("main", p)
    PROVE  pc'["main"] = p /\ pc'["io"] = pc["io"]
  BY Goes DEF Threads

LEMMA MayBe ==
    ASSUME IInv
    PROVE  /\ opt.hybrid \in BOOLEAN /\ opt.read \in BOOLEAN /\ opt.write \in BOOLEAN
           /\ Leave \in {"stopio", "close", "ended", "finish"}
           /\ AfterIo \in {"close", "ended", "finish"}
           /\ Broken \in {"dispatch", "tried", "closeres"}
           /\ resume \in {"top", "try", "final"}
           /\ (Broken = "dispatch" <=> resume = "top") /\ (Broken = "tried" <=> resume = "try")
  BY DEF IInv, Types, Settings, Path, Locals, Leave, AfterIo, Broken

\* A push moves t, or leaves it where it is.
LEMMA PushGoes ==
    ASSUME IInv, NEW t \in Threads, NEW q, NEW b, NEW p, NEW s, Push(t, q, b, p, s)
    PROVE  pc'[t] \in {p, s, pc[t]} /\ \A u \in Threads \ {t} : pc'[u] = pc[u]
  <1>1. Goto(t, s) \/ Goto(t, p) \/ pc' = pc
    BY DEF Push
  <1> QED BY <1>1, Goes

LEMMA PopGoes ==
    ASSUME IInv, NEW t \in Threads, NEW q, NEW p, NEW s,
           PopItem(t, q, p) \/ PopClosed(t, q, s) \/ PopSleep(t, q)
    PROVE  pc'[t] \in {p, s, pc[t]} /\ \A u \in Threads \ {t} : pc'[u] = pc[u]
  <1>1. Goto(t, s) \/ Goto(t, p) \/ pc' = pc
    BY DEF PopItem, PopClosed, PopSleep
  <1> QED BY <1>1, Goes

Elsewhere == Io \/ Writer \/ (\E l \in Lanes : LaneStep(l)) \/ UNCHANGED vars
Aside == UNCHANGED <<opt, first, bid, tile, next, inflight, ring, resume>>

LEMMA LaneFrame ==
    ASSUME IInv, NEW l \in Lanes, LaneStep(l)
    PROVE  /\ \A u \in Threads \ {l} : pc'[u] = pc[u]
           /\ Aside /\ UNCHANGED <<prefetch, writerFailed>>
  <1>1. l \in Threads
    BY DEF Lanes, Threads
  <1>2. CASE LaneCheck(l)
    <2>1. \E p \in {"exit", "pop"} : Goto(l, p)
      BY <1>2 DEF LaneCheck
    <2> QED BY <1>1, <1>2, <2>1, Goes DEF LaneCheck, At, settings, order, prefetch, Aside
  <1>3. CASE LanePop(l)
    <2>1. \A u \in Threads \ {l} : pc'[u] = pc[u]
      BY <1>1, <1>3, PopGoes DEF LanePop
    <2> QED BY <1>3, <2>1 DEF LanePop, At, settings, order, prefetch, Aside
  <1>4. CASE LaneEncode(l)
    <2>1. \E p \in {"push", "fail"} : Goto(l, p)
      BY <1>4 DEF LaneEncode
    <2> QED BY <1>1, <1>4, <2>1, Goes DEF LaneEncode, At, settings, order, prefetch, Aside
  <1>5. CASE LaneFail(l)
    <2>1. \E p \in {"exit"} : Goto(l, p)
      BY <1>5 DEF LaneFail
    <2> QED BY <1>1, <1>5, <2>1, Goes DEF LaneFail, At, settings, order, prefetch, Aside
  <1>6. CASE LanePush(l)
    <2>1. \A u \in Threads \ {l} : pc'[u] = pc[u]
      BY <1>1, <1>6, PushGoes DEF LanePush
    <2> QED BY <1>6, <2>1 DEF LanePush, At, settings, order, prefetch, Aside
  <1> QED BY <1>2, <1>3, <1>4, <1>5, <1>6 DEF LaneStep

LEMMA IoFrame ==
    ASSUME IInv, Io
    PROVE  /\ \A u \in Threads \ {"io"} : pc'[u] = pc[u]
           /\ Aside /\ UNCHANGED <<queue, closed, held, failed, writerFailed>>
  <1>1. pc' = pc \/ \E p \in {"done", "push", "fail", "loop", "notify", "exit"} : Goto("io", p)
    BY DEF Io, IoRead, IoPush, IoFail, IoDone, IoExit
  <1>2. \A u \in Threads \ {"io"} : pc'[u] = pc[u]
    BY <1>1, Goes DEF Threads
  <1>3. Aside /\ UNCHANGED <<queue, closed, held, failed, writerFailed>>
    BY DEF Io, IoRead, IoPush, IoFail, IoDone, IoExit, settings, order, sync, Aside
  <1> QED BY <1>2, <1>3

LEMMA WriterFrame ==
    ASSUME IInv, Writer
    PROVE  /\ \A u \in Threads \ {"writer"} : pc'[u] = pc[u]
           /\ Aside /\ UNCHANGED <<prefetch, failed>>
  <1>1. "writer" \in Threads
    BY DEF Threads
  <1>2. CASE WriterPop
    <2>1. \A u \in Threads \ {"writer"} : pc'[u] = pc[u]
      BY <1>1, <1>2, PopGoes DEF WriterPop
    <2> QED BY <1>2, <2>1 DEF WriterPop, settings, order, prefetch, Aside
  <1>3. CASE WriterAppend
    <2>1. \E p \in {"pop", "fail"} : Goto("writer", p)
      BY <1>3 DEF WriterAppend
    <2> QED BY <1>1, <1>3, <2>1, Goes DEF WriterAppend, settings, order, prefetch, Aside
  <1>4. CASE WriterFail
    <2>1. \E p \in {"exit"} : Goto("writer", p)
      BY <1>4 DEF WriterFail
    <2> QED BY <1>1, <1>4, <2>1, Goes DEF WriterFail, settings, order, prefetch, Aside
  <1> QED BY <1>2, <1>3, <1>4 DEF Writer

\* What the steps of the others leave to the caller.
LEMMA ElsewhereFrame ==
    ASSUME IInv, Elsewhere
    PROVE  pc'["main"] = pc["main"] /\ Aside /\ (failed => failed')
  <1>1. "main" \in Threads /\ "main" \notin Lanes
    BY DEF Threads, Lanes
  <1>2. CASE Io
    BY <1>1, <1>2, IoFrame
  <1>3. CASE Writer
    BY <1>1, <1>3, WriterFrame
  <1>4. CASE \E l \in Lanes : LaneStep(l)
    <2> PICK l \in Lanes : LaneStep(l)
      BY <1>4
    <2>1. pc'["main"] = pc["main"] /\ Aside
      BY <1>1, LaneFrame
    <2>2. failed => failed'
      BY DEF LaneStep, LaneCheck, LanePop, LaneEncode, LaneFail, LanePush
    <2> QED BY <2>1, <2>2
  <1>5. CASE UNCHANGED vars
    BY <1>5 DEF vars, settings, order, Aside
  <1> QED BY <1>2, <1>3, <1>4, <1>5 DEF Elsewhere

-----------------------------------------------------------------------------
(* Every step keeps the blocks in their places *)

LEMMA TileQueue ==
    ASSUME IInv, queue' = queue \/ \E s : queue' = [queue EXCEPT !["tile"] = s]
    PROVE  \A q \in Moved : queue'[q] = queue[q]
  BY DEF IInv, Types, Queues, Moved, Lanes

LEMMA WriterHand ==
    ASSUME IInv, held' = held \/ \E b : held' = [held EXCEPT !["writer"] = b]
    PROVE  \A l \in Lanes : held'[l] = held[l]
  BY DEF IInv, Types, Lanes

LEMMA ReadingPlaces == ASSUME IInv, JInv, Reading PROVE OnePlace'
  <1>1. UNCHANGED <<queue, held, next, inflight, ring>>
    BY DEF Reading, ReadBlock, PopBlock, PopBlockWaits, PopBlockSleeps, StopIo, WakeIo, JoinIo,
           sync, order
  <1> QED BY <1>1, Unmoved DEF JInv

LEMMA HybridPlaces == ASSUME IInv, JInv, opt.hybrid, Hybrid PROVE OnePlace'
  <1>1. CASE PushTask
    BY <1>1, PushTaskPlaces
  <1>2. CASE WriteBlock
    BY <1>2, WriteBlockPlaces
  <1>3. CASE Drain
    <2>1. UNCHANGED <<next, inflight, held>>
      BY <1>3 DEF Drain
    <2>2. CASE Arrive(Head(queue["res"]))
      BY <2>1, <2>2, ArrivePlaces
    <2>3. CASE UNCHANGED <<queue, ring>>
      BY <2>1, <2>3, Unmoved DEF JInv
    <2> QED BY <1>3, <2>2, <2>3 DEF Drain, PopClosed, PopSleep
  <1>4. CASE TryDrain
    <2>1. UNCHANGED <<next, inflight, held>>
      BY <1>4 DEF TryDrain
    <2>2. CASE Arrive(Head(queue["res"]))
      BY <2>1, <2>2, ArrivePlaces
    <2>3. CASE UNCHANGED <<queue, ring>>
      BY <2>1, <2>3, Unmoved DEF JInv
    <2> QED BY <1>4, <2>2, <2>3 DEF TryDrain
  <1>5. CASE Top \/ Dispatch \/ Tried \/ WriteBlockFails \/ NothingToWrite \/ CloseAll
             \/ CloseTasks \/ FinalDrain \/ CloseResults \/ JoinLanes
    <2>1. UNCHANGED <<queue, held, next, inflight, ring>>
      BY <1>5 DEF Top, Dispatch, Tried, WriteBlockFails, NothingToWrite, CloseAll, CloseTasks,
         FinalDrain, CloseResults, JoinLanes, sync, order
    <2> QED BY <2>1, Unmoved DEF JInv
  <1> QED BY <1>1, <1>2, <1>3, <1>4, <1>5 DEF Hybrid

LEMMA PlainPlaces == ASSUME IInv, JInv, Plain PROVE OnePlace'
  <1>1. UNCHANGED <<held, next, inflight, ring>>
    BY DEF Plain, PlainTop, EncodeTile, AppendTile, PushTile, TilePushed, NextTile, CommitBlock,
           FinishWriter, CloseTiles, JoinWriter, order
  <1>2. queue' = queue \/ \E s : queue' = [queue EXCEPT !["tile"] = s]
    <2>1. CASE PushTile
      BY <2>1 DEF PushTile, Push
    <2>2. CASE ~PushTile
      BY <2>2 DEF Plain, PlainTop, EncodeTile, AppendTile, TilePushed, NextTile, CommitBlock,
             FinishWriter, CloseTiles, JoinWriter, sync
    <2> QED BY <2>1, <2>2
  <1> QED BY <1>1, <1>2, TileQueue, Unmoved DEF JInv

LEMMA ElsewherePlaces == ASSUME IInv, JInv, Elsewhere PROVE OnePlace'
  <1>1. UNCHANGED <<next, inflight, ring>>
    BY ElsewhereFrame DEF Aside
  <1>2. CASE Io
    BY <1>1, <1>2, IoFrame, Unmoved DEF JInv
  <1>3. CASE Writer
    <2>1. queue' = queue \/ \E s : queue' = [queue EXCEPT !["tile"] = s]
      BY <1>3 DEF Writer, WriterPop, WriterAppend, WriterFail, PopItem, PopClosed, PopSleep, sync
    <2>2. held' = held \/ \E b : held' = [held EXCEPT !["writer"] = b]
      BY <1>3 DEF Writer, WriterPop, WriterAppend, WriterFail
    <2> QED BY <1>1, <2>1, <2>2, TileQueue, WriterHand, Unmoved DEF JInv
  <1>4. CASE \E l \in Lanes : LaneStep(l)
    <2> PICK l \in Lanes : LaneStep(l)
      BY <1>4
    <2>1. CASE LaneCheck(l) \/ LaneEncode(l) \/ LaneFail(l)
      <3>1. UNCHANGED <<queue, held>>
        BY <2>1 DEF LaneCheck, LaneEncode, LaneFail, sync
      <3> QED BY <1>1, <3>1, Unmoved DEF JInv
    <2> QED BY <2>1, LanePopPlaces, LanePushPlaces DEF LaneStep
  <1>5. CASE UNCHANGED vars
    <2>1. UNCHANGED <<queue, held>>
      BY <1>5 DEF vars, sync
    <2> QED BY <1>1, <2>1, Unmoved DEF JInv
  <1> QED BY <1>2, <1>3, <1>4, <1>5 DEF Elsewhere

\* The steps of the caller on the two paths, and of the others.
LEMMA Steps ==
    ASSUME IInv, [Next]_vars
    PROVE  Reading \/ (Hybrid /\ opt.hybrid) \/ (Plain /\ ~opt.hybrid) \/ Elsewhere
  BY PathsApart DEF Next, Main, Elsewhere

LEMMA PlacesKept == ASSUME IInv, JInv, [Next]_vars PROVE OnePlace'
  BY Steps, ReadingPlaces, HybridPlaces, PlainPlaces, ElsewherePlaces

-----------------------------------------------------------------------------
(* Every step keeps the caller's pace *)

\* A step that takes the caller from one point to another.
LEMMA PaceIf ==
    ASSUME IInv, JInv, opt.hybrid, UNCHANGED <<bid, next, inflight>>, failed => failed',
           pc'["main"] \in {"read", "blocking", "push"} =>
                pc["main"] \in {"read", "blocking", "push"} \/ (pc["main"] = "dispatch" /\ ~failed),
           ~failed' => HandedOut' = HandedOut,
           ~failed' /\ pc'["main"] = "dispatch" => inflight < Depth,
           pc'["main"] = "drain" => resume' # "try"
    PROVE  Pace'
  <1>1. bid \in Nat /\ next \in Nat /\ inflight \in Nat
    BY PlaceFacts, ConstFacts DEF IInv, Path, Locals
  <1>2. pc["main"] = "dispatch" /\ ~failed => bid = next + inflight /\ inflight < Depth
    <2> SUFFICES ASSUME pc["main"] = "dispatch", ~failed
                 PROVE  bid = next + inflight /\ inflight < Depth
      OBVIOUS
    <2>1. HandedOut = bid - 1
      BY DEF HandedOut
    <2> QED BY <1>1, <2>1 DEF JInv, Pace
  <1>3. pc'["main"] \in {"read", "blocking", "push"} => bid' = next' + inflight' /\ inflight' < Depth
    BY <1>2 DEF JInv, Pace
  <1>4. ~failed' => next' + inflight' = HandedOut' + 1
    BY DEF JInv, Pace
  <1> QED BY <1>3, <1>4 DEF Pace

LEMMA ReadingPace == ASSUME IInv, JInv, opt.hybrid, Reading PROVE Pace'
  <1>1. UNCHANGED <<opt, bid, next, inflight, resume>>
    BY DEF Reading, ReadBlock, PopBlock, PopBlockWaits, PopBlockSleeps, StopIo, WakeIo, JoinIo,
           settings, order
  <1>2. failed => failed'
    BY DEF Reading, ReadBlock, PopBlock, PopBlockWaits, PopBlockSleeps, StopIo, WakeIo, JoinIo, GiveUp
  <1>3. /\ pc["main"] \in {"read", "blocking", "stopio", "wakeio", "joinio"}
        /\ pc'["main"] \in {"read", "blocking", "push", "fail", "wakeio", "joinio", "close", "ended", "finish"}
        /\ pc'["main"] \in {"read", "blocking", "push"} => pc["main"] \in {"read", "blocking"}
    BY MainGoes, MayBe DEF Reading, ReadBlock, PopBlock, PopBlockWaits, PopBlockSleeps, StopIo,
       WakeIo, JoinIo, GiveUp, At
  <1>4. HandedOut' = HandedOut
    BY <1>1, <1>3 DEF HandedOut
  <1> QED BY <1>1, <1>2, <1>3, <1>4, PaceIf

LEMMA PushTaskPace == ASSUME IInv, JInv, opt.hybrid, PushTask PROVE Pace'
  <1>1. /\ pc["main"] = "push" /\ pc'["main"] \in {"try", Leave, "push"}
        /\ resume' = "try" /\ UNCHANGED <<bid, next, failed>>
        /\ inflight' = IF pc'["main"] = "try" THEN inflight + 1 ELSE inflight
    <2>1. pc["main"] = "push" /\ Push("main", Lane(bid), bid, "try", Leave)
      BY DEF PushTask, At
    <2>2. pc'["main"] \in {"try", Leave, "push"}
      BY <2>1, PushGoes DEF Threads
    <2> QED BY <2>1, <2>2 DEF PushTask
  <1>2. bid = next + inflight /\ inflight < Depth /\ HandedOut = bid - 1
        /\ bid \in Nat /\ next \in Nat /\ inflight \in Nat
    BY <1>1, PlaceFacts, ConstFacts DEF JInv, Pace, HandedOut, IInv, Path, Locals
  <1>3. HandedOut' = IF pc'["main"] = "try" THEN bid ELSE bid - 1
    BY <1>1, MayBe DEF HandedOut
  <1> QED BY <1>1, <1>2, <1>3, MayBe DEF Pace

LEMMA ArrivePace ==
    ASSUME IInv, JInv, opt.hybrid, Arrive(Head(queue["res"])), pc["main"] \in {"drain", "try"},
           UNCHANGED <<bid, next, inflight, resume>>
    PROVE  Pace'
  <1>1. \/ pc'["main"] = "write" /\ failed' = failed
        \/ pc'["main"] = "fail" /\ failed'
    BY MainGoes DEF Arrive, PopItem
  <1>2. resume = "try" <=> pc["main"] = "try"
    BY DEF JInv, Pace, IInv, Path, HybridControl
  <1>3. ~failed' => HandedOut' = HandedOut
    BY <1>1, <1>2 DEF HandedOut
  <1>4. failed => failed'
    BY <1>1
  <1> QED BY <1>1, <1>3, <1>4, PaceIf

LEMMA HybridPace == ASSUME IInv, JInv, opt.hybrid, Hybrid PROVE Pace'
  <1>0. HybridControl /\ resume \in {"top", "try", "final"}
    BY MayBe DEF IInv, Path
  <1>1. CASE Top
    <2>1. /\ pc["main"] = "top" /\ resume' = "top" /\ UNCHANGED <<bid, next, inflight, failed>>
          /\ pc'["main"] \in {Leave, "drain", "dispatch"}
          /\ pc'["main"] = "dispatch" => failed \/ ~(inflight >= Depth)
      BY <1>1, MainGoes, MayBe DEF Top, At, order
    <2>2. HandedOut' = HandedOut
      BY <2>1, MayBe DEF HandedOut
    <2>3. ~(inflight >= Depth) => inflight < Depth
      BY PlaceFacts, ConstFacts
    <2> QED BY <2>1, <2>2, <2>3, MayBe, PaceIf
  <1>2. CASE Dispatch
    <2>1. /\ pc["main"] = "dispatch" /\ UNCHANGED <<bid, next, inflight, failed, resume>>
          /\ pc'["main"] \in {Leave, "read"} /\ (pc'["main"] = "read" => ~failed)
      BY <1>2, MainGoes, MayBe DEF Dispatch, At, order
    <2>2. HandedOut' = HandedOut
      BY <2>1, MayBe DEF HandedOut
    <2> QED BY <2>1, <2>2, MayBe, PaceIf
  <1>3. CASE PushTask
    BY <1>3, PushTaskPace
  <1>4. CASE Drain
    <2>1. pc["main"] = "drain" /\ UNCHANGED <<bid, next, inflight, resume>> /\ resume # "try"
      BY <1>4 DEF Drain, At, JInv, Pace
    <2>2. CASE Arrive(Head(queue["res"]))
      BY <2>1, <2>2, ArrivePace
    <2>3. CASE PopClosed("main", "res", Broken) /\ failed' = failed
      <3>1. failed /\ pc'["main"] \in {"dispatch", "closeres"}
        BY <1>0, <2>1, <2>3, MainGoes, MayBe DEF PopClosed, HybridControl
      <3> QED BY <2>1, <2>3, <3>1, PaceIf
    <2>4. CASE PopSleep("main", "res") /\ failed' = failed
      <3>1. pc' = pc
        BY <2>4 DEF PopSleep
      <3>2. HandedOut' = HandedOut
        BY <2>1, <3>1 DEF HandedOut
      <3> QED BY <2>1, <2>4, <3>1, <3>2, PaceIf
    <2> QED BY <1>4, <2>2, <2>3, <2>4 DEF Drain
  <1>5. CASE TryDrain
    <2>1. pc["main"] = "try" /\ UNCHANGED <<bid, next, inflight, resume>>
      BY <1>5 DEF TryDrain, At
    <2>2. CASE Arrive(Head(queue["res"]))
      BY <2>1, <2>2, ArrivePace
    <2>3. CASE Goto("main", "tried") /\ failed' = failed
      <3>1. pc'["main"] = "tried" /\ HandedOut' = HandedOut
        BY <2>1, <2>3, MainGoes DEF HandedOut
      <3> QED BY <2>1, <2>3, <3>1, PaceIf
    <2> QED BY <1>5, <2>2, <2>3 DEF TryDrain
  <1>6. CASE Tried
    <2>1. /\ pc["main"] = "tried" /\ UNCHANGED <<next, inflight, failed, resume>>
          /\ \/ failed /\ pc'["main"] = Leave /\ bid' = bid
             \/ ~failed /\ pc'["main"] = "top" /\ bid' = bid + 1
      BY <1>6, MainGoes DEF Tried, At
    <2>2. CASE failed
      <3>1. pc'["main"] \in {"stopio", "close", "ended", "finish"} /\ bid' = bid
        BY <2>1, <2>2, MayBe
      <3> QED BY <2>1, <2>2, <3>1, PaceIf
    <2>3. CASE ~failed
      <3>1. bid \in Nat
        BY ConstFacts DEF IInv, Path, Locals
      <3>2. HandedOut = bid /\ HandedOut' = (bid + 1) - 1
        BY <2>1, <2>3 DEF HandedOut
      <3>3. next + inflight = bid + 1
        BY <2>3, <3>2 DEF JInv, Pace
      <3> QED BY <2>1, <2>3, <3>1, <3>2, <3>3 DEF Pace
    <2> QED BY <2>2, <2>3
  <1>7. CASE WriteBlock
    <2>1. /\ pc["main"] = "write" /\ UNCHANGED <<pc, bid, failed, resume>>
          /\ next' = next + 1 /\ inflight' = inflight - 1
      BY <1>7 DEF WriteBlock, At
    <2>2. next \in Nat /\ inflight \in Nat /\ next' + inflight' = next + inflight
      BY <2>1, PlaceFacts
    <2>3. HandedOut' = HandedOut
      BY <2>1 DEF HandedOut
    <2> QED BY <2>1, <2>2, <2>3 DEF JInv, Pace
  <1>8. CASE NothingToWrite
    <2>1. /\ pc["main"] = "write" /\ UNCHANGED <<bid, next, inflight, failed, resume>>
          /\ pc'["main"] = IF resume = "try" /\ failed THEN "tried" ELSE resume
      BY <1>8, MainGoes DEF NothingToWrite, At, order
    <2>2. ~failed' => HandedOut' = HandedOut
      BY <1>0, <2>1 DEF HandedOut
    <2> QED BY <1>0, <2>1, <2>2, PaceIf
  <1>9. CASE CloseAll
    <2>1. pc["main"] = "fail" /\ UNCHANGED <<bid, next, inflight, failed, resume>>
          /\ pc'["main"] \in {"dispatch", "tried", "closeres"} /\ failed
      BY <1>0, <1>9, MainGoes, MayBe DEF CloseAll, At, order, HybridControl
    <2> QED BY <2>1, PaceIf
  <1>10. CASE CloseTasks
    <2>1. pc["main"] = "close" /\ UNCHANGED <<bid, next, inflight, failed>>
          /\ pc'["main"] = "final" /\ resume' = "final"
      BY <1>10, MainGoes DEF CloseTasks, At, order
    <2>2. HandedOut' = HandedOut
      BY <2>1 DEF HandedOut
    <2> QED BY <2>1, <2>2, PaceIf
  <1>11. CASE FinalDrain
    <2>1. pc["main"] = "final" /\ UNCHANGED <<bid, next, inflight, failed, resume>>
          /\ pc'["main"] \in {"drain", "closeres"} /\ resume = "final"
      BY <1>0, <1>11, MainGoes DEF FinalDrain, At, order, HybridControl
    <2>2. HandedOut' = HandedOut
      BY <2>1 DEF HandedOut
    <2> QED BY <2>1, <2>2, PaceIf
  <1>12. CASE WriteBlockFails \/ CloseResults \/ JoinLanes
    <2>1. /\ UNCHANGED <<bid, next, inflight, resume>> /\ (failed => failed')
          /\ \/ pc'["main"] = "fail" /\ failed'
             \/ pc["main"] = "closeres" /\ pc'["main"] = "join"
             \/ pc["main"] = "join" /\ pc'["main"] = "ended"
      BY <1>12, MainGoes DEF WriteBlockFails, CloseResults, JoinLanes, At, order
    <2>2. ~failed' => HandedOut' = HandedOut
      BY <2>1 DEF HandedOut
    <2> QED BY <2>1, <2>2, PaceIf
  <1> QED BY <1>1, <1>2, <1>3, <1>4, <1>5, <1>6, <1>7, <1>8, <1>9, <1>10, <1>11, <1>12 DEF Hybrid

LEMMA ElsewherePace == ASSUME IInv, JInv, opt.hybrid, Elsewhere PROVE Pace'
  <1>1. pc'["main"] = pc["main"] /\ UNCHANGED <<opt, bid, next, inflight, resume>> /\ (failed => failed')
    BY ElsewhereFrame DEF Aside
  <1>2. HandedOut' = HandedOut
    BY <1>1 DEF HandedOut
  <1>3. ~failed' => ~failed
    BY <1>1
  <1> QED BY <1>1, <1>2, <1>3, PaceIf DEF JInv, Pace

LEMMA PaceKept == ASSUME IInv, JInv, [Next]_vars PROVE Pace'
  <1>1. opt' = opt
    BY NextKeeps DEF Quiet, Extends, Commits
  <1>2. CASE ~opt.hybrid
    BY <1>1, <1>2 DEF Pace
  <1>3. CASE opt.hybrid
    BY <1>3, Steps, ReadingPace, HybridPace, ElsewherePace
  <1> QED BY <1>2, <1>3

-----------------------------------------------------------------------------
(* Nobody falls asleep with a block in hand *)

\* One thread takes a step; if it ends with a block in hand it is awake.
LEMMA AwakeIf ==
    ASSUME JInv, opt' = opt, NEW t \in Threads, t \notin asleep,
           \A u \in Threads \ {t} : pc'[u] = pc[u],
           asleep' \subseteq asleep \cup {t},
           opt.hybrid /\ t \in {"main"} \cup Lanes /\ pc'[t] = "push" => t \notin asleep'
    PROVE  Awake'
  <1>0. asleep' \subseteq Threads
    BY DEF JInv, Awake
  <1> SUFFICES ASSUME opt.hybrid, NEW u \in {"main"} \cup Lanes, pc'[u] = "push"
               PROVE  u \notin asleep'
    BY <1>0 DEF Awake
  <1>1. CASE u = t
    BY <1>1
  <1>2. CASE u # t
    <2>1. u \in Threads \ {t}
      BY <1>2 DEF Threads
    <2>2. u \notin asleep
      BY <2>1 DEF JInv, Awake
    <2> QED BY <1>2, <2>2
  <1> QED BY <1>1, <1>2

\* A queue of the hybrid path holds no more than is in flight, and less when
\* its pusher holds a block.
LEMMA QueueFits ==
    ASSUME IInv, JInv, NEW q \in Moved
    PROVE  Len(queue[q]) \in Nat /\ Len(queue[q]) <= inflight
  <1>1. Items(queue[q]) \subseteq next .. (next + inflight) - 1
    <2>1. q \in Places /\ Contents[q] = Items(queue[q])
      BY ContentsAre DEF Places
    <2>2. Contents[q] \subseteq Span
      BY <2>1, PlaceFacts
    <2> QED BY <2>1, <2>2 DEF Span
  <1>2. queue[q] \in Seq(Nat) /\ OneEach(queue[q]) /\ next \in Nat /\ inflight \in Nat
    BY PlaceFacts
  <1> QED BY <1>1, <1>2, FitsInSpan

LEMMA ResultFits ==
    ASSUME IInv, JInv, NEW l \in Lanes, pc[l] = "push"
    PROVE  Len(queue["res"]) < inflight
  <1>1. held[l] \in Block /\ held[l] \in Nat
    BY ConstFacts DEF IInv, LaneControl, Block
  <1>2. held[l] \in Contents[Hands(l)] /\ Hands(l) \in Places /\ "res" \in Places /\ "res" # Hands(l)
    BY <1>1, HandsOf, PlaceFacts DEF Moved
  <1>3. held[l] \in next .. (next + inflight) - 1
    BY <1>2, PlaceFacts DEF Span
  <1>4. held[l] \notin Contents["res"]
    BY <1>2, PlaceFacts DEF Apart
  <1>5. "res" \in Moved
    BY DEF Moved
  <1>6. Items(queue["res"]) \subseteq next .. (next + inflight) - 1 /\ held[l] \notin Items(queue["res"])
    <2>1. Contents["res"] = Items(queue["res"]) /\ Contents["res"] \subseteq Span
      BY <1>2, <1>5, PlaceFacts, ContentsAre
    <2> QED BY <1>4, <2>1 DEF Span
  <1>7. queue["res"] \in Seq(Nat) /\ OneEach(queue["res"]) /\ next \in Nat /\ inflight \in Nat
    BY <1>5, PlaceFacts
  <1> QED BY <1>3, <1>6, <1>7, RoomForHeld

LEMMA PushSleeps ==
    ASSUME NEW t, NEW q, NEW b, NEW p, NEW s, Push(t, q, b, p, s)
    PROVE  \/ asleep' \subseteq asleep
           \/ Len(queue[q]) >= Capacity(q) /\ asleep' = asleep \cup {t} /\ pc' = pc
  BY DEF Push, NotifyOne

LEMMA PopSleeps ==
    ASSUME NEW t, NEW q, NEW p, NEW s,
           PopItem(t, q, p) \/ PopClosed(t, q, s) \/ PopSleep(t, q)
    PROVE  asleep' \subseteq asleep \/ (asleep' = asleep \cup {t} /\ pc' = pc)
  BY DEF PopItem, PopClosed, PopSleep, NotifyOne

LEMMA ReadingAwake == ASSUME IInv, JInv, Reading, opt' = opt PROVE Awake'
  <1>1. /\ "main" \in Threads /\ "main" \notin asleep
        /\ \A u \in Threads \ {"main"} : pc'[u] = pc[u]
    <2>1. \E p : Goto("main", p)
      BY DEF Reading, ReadBlock, PopBlock, PopBlockWaits, PopBlockSleeps, StopIo, WakeIo, JoinIo, GiveUp
    <2> QED BY <2>1, Goes DEF Threads, Reading, ReadBlock, PopBlock, PopBlockWaits, PopBlockSleeps,
           StopIo, WakeIo, JoinIo, At
  <1>2. asleep' \subseteq asleep \/ (asleep' = asleep \cup {"main"} /\ pc'["main"] = "read")
    <2>1. CASE PopBlockSleeps
      BY <2>1, MainGoes DEF PopBlockSleeps
    <2>2. CASE ~PopBlockSleeps
      BY <2>2 DEF Reading, ReadBlock, PopBlock, PopBlockWaits, StopIo, WakeIo, JoinIo,
         sync, NotifyOne
    <2> QED BY <2>1, <2>2
  <1> QED BY <1>1, <1>2, AwakeIf

LEMMA HybridAwake == ASSUME IInv, JInv, opt.hybrid, Hybrid, opt' = opt PROVE Awake'
  <1>0. "main" \in Threads /\ "main" \notin Lanes
    BY DEF Threads, Lanes
  <1>1. CASE PushTask
    <2> DEFINE q == Lane(bid)
    <2>1. pc["main"] = "push" /\ "main" \notin asleep /\ Push("main", q, bid, "try", Leave)
      BY <1>1 DEF PushTask, At
    <2>2. \A u \in Threads \ {"main"} : pc'[u] = pc[u]
      BY <1>0, <2>1, PushGoes
    <2>3. ~(Len(queue[q]) >= Capacity(q))
      <3>1. q \in Moved /\ q # "tile"
        BY DEF Lane, Moved
      <3>2. Len(queue[q]) \in Nat /\ Len(queue[q]) <= inflight /\ inflight < Depth /\ inflight \in Nat
        BY <2>1, <3>1, QueueFits, PlaceFacts DEF JInv, Pace
      <3>3. Capacity(q) = Depth
        BY <3>1 DEF Capacity
      <3> HIDE DEF q
      <3> QED BY <3>2, <3>3, ConstFacts
    <2>4. asleep' \subseteq asleep
      BY <2>1, <2>3, PushSleeps
    <2> QED BY <1>0, <2>1, <2>2, <2>4, AwakeIf
  <1>2. CASE Drain \/ TryDrain
    <2>1. /\ "main" \notin asleep /\ pc["main"] # "push"
          /\ \/ \E p, s : PopItem("main", "res", p) \/ PopClosed("main", "res", s) \/ PopSleep("main", "res")
             \/ Goto("main", "tried") /\ UNCHANGED asleep
      BY <1>2 DEF Drain, TryDrain, Arrive, At
    <2>2. \A u \in Threads \ {"main"} : pc'[u] = pc[u]
      BY <1>0, <2>1, PopGoes, Goes
    <2>3. asleep' \subseteq asleep \/ (asleep' = asleep \cup {"main"} /\ pc' = pc)
      BY <2>1, PopSleeps
    <2> QED BY <1>0, <2>1, <2>2, <2>3, AwakeIf
  <1>3. CASE Top \/ Dispatch \/ Tried \/ WriteBlock \/ WriteBlockFails \/ NothingToWrite \/ CloseAll
             \/ CloseTasks \/ FinalDrain \/ CloseResults \/ JoinLanes
    <2>1. "main" \notin asleep /\ (pc' = pc \/ \E p : Goto("main", p))
      BY <1>3 DEF Top, Dispatch, Tried, WriteBlock, WriteBlockFails, NothingToWrite, CloseAll,
         CloseTasks, FinalDrain, CloseResults, JoinLanes, At
    <2>2. \A u \in Threads \ {"main"} : pc'[u] = pc[u]
      BY <1>0, <2>1, Goes
    <2>3. asleep' \subseteq asleep
      BY <1>3 DEF Top, Dispatch, Tried, WriteBlock, WriteBlockFails, NothingToWrite, CloseAll,
         CloseTasks, FinalDrain, CloseResults, JoinLanes, sync, Close
    <2> QED BY <1>0, <2>1, <2>2, <2>3, AwakeIf
  <1> QED BY <1>1, <1>2, <1>3 DEF Hybrid

LEMMA PlainAwake == ASSUME IInv, JInv, ~opt.hybrid, Plain, opt' = opt PROVE Awake'
  <1>1. "main" \in Threads /\ "main" \notin asleep
    BY DEF Threads, Plain, PlainTop, EncodeTile, AppendTile, PushTile, TilePushed, NextTile,
           CommitBlock, FinishWriter, CloseTiles, JoinWriter, At
  <1>2. CASE PushTile
    <2>1. \E b, p, s : Push("main", "tile", b, p, s)
      BY <1>2 DEF PushTile
    <2>2. /\ \A u \in Threads \ {"main"} : pc'[u] = pc[u]
          /\ asleep' \subseteq asleep \cup {"main"}
      BY <1>1, <2>1, PushGoes, PushSleeps
    <2> QED BY <1>1, <2>2, AwakeIf
  <1>3. CASE ~PushTile
    <2>1. (\E p : Goto("main", p)) /\ asleep' \subseteq asleep
      BY <1>3 DEF Plain, PlainTop, EncodeTile, AppendTile, TilePushed, NextTile, CommitBlock,
         FinishWriter, CloseTiles, JoinWriter, GiveUp, sync, Close
    <2> QED BY <1>1, <2>1, Goes, AwakeIf
  <1> QED BY <1>2, <1>3

LEMMA LaneAwake == ASSUME IInv, JInv, NEW l \in Lanes, LaneStep(l), opt' = opt PROVE Awake'
  <1>1. l \in Threads /\ l \notin asleep /\ \A u \in Threads \ {l} : pc'[u] = pc[u]
    BY HandsOf, LaneFrame DEF LaneStep, LaneCheck, LanePop, LaneEncode, LaneFail, LanePush, At
  <1>2. asleep' \subseteq asleep \/ (asleep' = asleep \cup {l} /\ pc'[l] # "push")
    <2>1. CASE LanePush(l)
      <3>1. pc[l] = "push" /\ Push(l, "res", held[l], "check", "exit")
        BY <2>1 DEF LanePush, At
      <3>2. ~(Len(queue["res"]) >= Capacity("res"))
        <4>1. Len(queue["res"]) < inflight /\ Len(queue["res"]) \in Nat /\ inflight \in Nat /\ inflight <= Depth
          BY <3>1, ResultFits, QueueFits, PlaceFacts DEF Moved
        <4>2. Capacity("res") = Depth
          BY DEF Capacity
        <4> QED BY <4>1, <4>2, ConstFacts
      <3> QED BY <3>1, <3>2, PushSleeps
    <2>2. CASE LanePop(l)
      <3>1. /\ pc[l] = "pop"
            /\ PopItem(l, l, "encode") \/ PopClosed(l, l, "exit") \/ PopSleep(l, l)
        BY <2>2 DEF LanePop, At
      <3> QED BY <3>1, PopSleeps
    <2>3. CASE LaneCheck(l) \/ LaneEncode(l) \/ LaneFail(l)
      BY <2>3 DEF LaneCheck, LaneEncode, LaneFail, sync, Close
    <2> QED BY <2>1, <2>2, <2>3 DEF LaneStep
  <1> QED BY <1>1, <1>2, AwakeIf

LEMMA AwakeKept == ASSUME IInv, JInv, [Next]_vars PROVE Awake'
  <1>1. opt' = opt
    BY NextKeeps DEF Quiet, Extends, Commits
  <1>2. CASE Reading \/ (Hybrid /\ opt.hybrid) \/ (Plain /\ ~opt.hybrid)
    BY <1>1, <1>2, ReadingAwake, HybridAwake, PlainAwake
  <1>3. CASE \E l \in Lanes : LaneStep(l)
    BY <1>1, <1>3, LaneAwake
  <1>4. CASE Io
    <2>1. "io" \in Threads /\ "io" \notin asleep /\ asleep' \subseteq asleep \cup {"io"}
          /\ "io" \notin {"main"} \cup Lanes
      BY <1>4 DEF Io, IoRead, IoPush, IoFail, IoDone, IoExit, At, sync, NotifyOne, Threads, Lanes
    <2> QED BY <1>1, <1>4, <2>1, IoFrame, AwakeIf
  <1>5. CASE Writer
    <2>1. "writer" \in Threads /\ "writer" \notin {"main"} \cup Lanes /\ "writer" \notin asleep
      BY <1>5 DEF Writer, WriterPop, WriterAppend, WriterFail, At, Threads, Lanes
    <2>2. asleep' \subseteq asleep \cup {"writer"}
      <3>1. CASE WriterPop
        BY <3>1, PopSleeps DEF WriterPop
      <3>2. CASE WriterAppend \/ WriterFail
        BY <3>2 DEF WriterAppend, WriterFail, sync, Close
      <3> QED BY <1>5, <3>1, <3>2 DEF Writer
    <2> QED BY <1>1, <1>5, <2>1, <2>2, WriterFrame, AwakeIf
  <1>6. CASE UNCHANGED vars
    <2>1. UNCHANGED <<opt, pc, asleep>>
      BY <1>6 DEF vars, settings, sync
    <2> QED BY <2>1 DEF JInv, Awake
  <1> QED BY <1>2, <1>3, <1>4, <1>5, <1>6, Steps DEF Elsewhere

-----------------------------------------------------------------------------
(* The queues stay within their capacities *)

LEMMA PushFits ==
    ASSUME IInv, JInv, NEW q \in Queues, NEW b \in Nat, NEW t, NEW p, NEW s, Push(t, q, b, p, s)
    PROVE  \A r \in Queues : Len(queue'[r]) <= Capacity(r)
  <1>1. queue \in [Queues -> Seq(Nat)] /\ \A r \in Queues : Len(queue[r]) <= Capacity(r)
    BY DEF IInv, Types, JInv, Limits
  <1>2. CASE queue' = queue
    BY <1>1, <1>2
  <1>3. CASE queue' = [queue EXCEPT ![q] = Append(@, b)] /\ Len(queue[q]) < Capacity(q)
    <2>1. Len(Append(queue[q], b)) = Len(queue[q]) + 1 /\ Len(queue[q]) \in Nat
      BY <1>1
    <2>2. Capacity(q) \in Nat
      BY EncodeAssumption DEF Capacity
    <2>3. Len(Append(queue[q], b)) <= Capacity(q)
      BY <1>3, <2>1, <2>2
    <2>4. \A r \in Queues : queue'[r] = IF r = q THEN Append(queue[q], b) ELSE queue[r]
      BY <1>1, <1>3
    <2> QED BY <1>1, <2>3, <2>4
  <1> QED BY <1>2, <1>3 DEF Push

LEMMA PopFits ==
    ASSUME IInv, JInv, NEW q \in Queues, NEW t, NEW p, NEW s,
           PopItem(t, q, p) \/ PopClosed(t, q, s) \/ PopSleep(t, q)
    PROVE  \A r \in Queues : Len(queue'[r]) <= Capacity(r)
  <1>1. queue \in [Queues -> Seq(Nat)] /\ \A r \in Queues : Len(queue[r]) <= Capacity(r)
    BY DEF IInv, Types, JInv, Limits
  <1>2. CASE queue' = queue
    BY <1>1, <1>2
  <1>3. CASE queue' = [queue EXCEPT ![q] = Tail(@)] /\ queue[q] # <<>>
    <2>1. Len(Tail(queue[q])) = Len(queue[q]) - 1 /\ Len(queue[q]) \in Nat
      BY <1>1, <1>3
    <2>2. Capacity(q) \in Nat /\ Len(queue[q]) <= Capacity(q)
      BY <1>1, EncodeAssumption DEF Capacity
    <2>3. Len(Tail(queue[q])) <= Capacity(q)
      BY <2>1, <2>2
    <2>4. \A r \in Queues : queue'[r] = IF r = q THEN Tail(queue[q]) ELSE queue[r]
      BY <1>1, <1>3
    <2> QED BY <1>1, <2>3, <2>4
  <1> QED BY <1>2, <1>3 DEF PopItem, PopClosed, PopSleep

LEMMA SameFits ==
    ASSUME JInv, queue' = queue
    PROVE  \A r \in Queues : Len(queue'[r]) <= Capacity(r)
  BY DEF JInv, Limits

LEMMA HybridFits ==
    ASSUME IInv, JInv, Hybrid PROVE \A r \in Queues : Len(queue'[r]) <= Capacity(r)
  <1>1. CASE PushTask
    <2>1. Lane(bid) \in Queues /\ bid \in Nat
      BY ConstFacts DEF Lane, Queues, Lanes, IInv, Path, Locals
    <2> QED BY <1>1, <2>1, PushFits DEF PushTask
  <1>2. CASE (Drain \/ TryDrain) /\ queue' # queue
    <2>1. "res" \in Queues
      BY DEF Queues
    <2>2. \E p, s : PopItem("main", "res", p) \/ PopClosed("main", "res", s) \/ PopSleep("main", "res")
      BY <1>2 DEF Drain, TryDrain, Arrive
    <2> QED BY <2>1, <2>2, PopFits
  <1>3. CASE Top \/ Dispatch \/ Tried \/ WriteBlock \/ WriteBlockFails \/ NothingToWrite \/ CloseAll
             \/ CloseTasks \/ FinalDrain \/ CloseResults \/ JoinLanes
    BY <1>3, SameFits DEF Top, Dispatch, Tried, WriteBlock, WriteBlockFails, NothingToWrite,
       CloseAll, CloseTasks, FinalDrain, CloseResults, JoinLanes, sync
  <1> QED BY <1>1, <1>2, <1>3, SameFits DEF Hybrid

LEMMA PlainFits ==
    ASSUME IInv, JInv, Plain PROVE \A r \in Queues : Len(queue'[r]) <= Capacity(r)
  <1>1. CASE PushTile
    <2>1. "tile" \in Queues /\ bid * Tiles + tile \in Nat
      <3>1. bid \in Nat /\ tile \in Nat
        BY ConstFacts DEF IInv, Path, Locals
      <3> QED BY <3>1, NextProduct DEF Queues
    <2> QED BY <1>1, <2>1, PushFits DEF PushTile
  <1>2. CASE ~PushTile
    BY <1>2, SameFits DEF Plain, PlainTop, EncodeTile, AppendTile, TilePushed, NextTile,
       CommitBlock, FinishWriter, CloseTiles, JoinWriter, sync
  <1> QED BY <1>1, <1>2

LEMMA ElsewhereFits ==
    ASSUME IInv, JInv, Elsewhere PROVE \A r \in Queues : Len(queue'[r]) <= Capacity(r)
  <1>1. CASE Io \/ UNCHANGED vars
    BY <1>1, IoFrame, SameFits DEF vars, sync
  <1>2. CASE Writer
    <2>1. CASE WriterPop
      <3>1. "tile" \in Queues
        BY DEF Queues
      <3> QED BY <2>1, <3>1, PopFits DEF WriterPop
    <2>2. CASE WriterAppend \/ WriterFail
      BY <2>2, SameFits DEF WriterAppend, WriterFail, sync
    <2> QED BY <1>2, <2>1, <2>2 DEF Writer
  <1>3. CASE \E l \in Lanes : LaneStep(l)
    <2> PICK l \in Lanes : LaneStep(l)
      BY <1>3
    <2>1. l \in Queues /\ "res" \in Queues
      BY HandsOf DEF Queues
    <2>2. CASE LanePush(l)
      <3>1. held[l] \in Nat
        BY <2>2, ConstFacts DEF LanePush, At, IInv, LaneControl, Block
      <3> QED BY <2>1, <2>2, <3>1, PushFits DEF LanePush
    <2>3. CASE LanePop(l)
      BY <2>1, <2>3, PopFits DEF LanePop
    <2>4. CASE LaneCheck(l) \/ LaneEncode(l) \/ LaneFail(l)
      BY <2>4, SameFits DEF LaneCheck, LaneEncode, LaneFail, sync
    <2> QED BY <2>2, <2>3, <2>4 DEF LaneStep
  <1> QED BY <1>1, <1>2, <1>3 DEF Elsewhere

\* Which steps close which queues.
LEMMA ClosedGrows ==
    ASSUME IInv, JInv, [Next]_vars
    PROVE  /\ closed' \subseteq Queues
           /\ "tile" \in closed' => "tile" \in closed \/ pc'["main"] = "jointile" \/ writerFailed
  <1>1. closed \subseteq Queues /\ Lanes \cup {"res", "tile"} \subseteq Queues /\ "tile" \notin Lanes \cup {"res"}
    BY DEF JInv, Limits, Queues, Lanes
  <1>2. CASE Reading
    BY <1>1, <1>2 DEF Reading, ReadBlock, PopBlock, PopBlockWaits, PopBlockSleeps, StopIo, WakeIo, JoinIo, sync
  <1>3. CASE Hybrid
    BY <1>1, <1>3 DEF Hybrid, Top, Dispatch, PushTask, Drain, TryDrain, Tried, WriteBlock,
       WriteBlockFails, NothingToWrite, CloseAll, CloseTasks, FinalDrain, CloseResults, JoinLanes,
       sync, Close
  <1>4. CASE Plain
    BY <1>1, <1>4, MainGoes DEF Plain, PlainTop, EncodeTile, AppendTile, PushTile, TilePushed, NextTile,
       CommitBlock, FinishWriter, CloseTiles, JoinWriter, sync, Close
  <1>5. CASE Io \/ UNCHANGED vars
    BY <1>1, <1>5, IoFrame DEF vars, sync
  <1>6. CASE Writer
    BY <1>1, <1>6 DEF Writer, WriterPop, WriterAppend, WriterFail, sync, Close, At, IInv, WriterControl
  <1>7. CASE \E l \in Lanes : LaneStep(l)
    BY <1>1, <1>7 DEF LaneStep, LaneCheck, LanePop, LaneEncode, LaneFail, LanePush, sync, Close
  <1> QED BY <1>2, <1>3, <1>4, <1>5, <1>6, <1>7, Steps DEF Elsewhere

LEMMA LimitsKept == ASSUME IInv, JInv, [Next]_vars PROVE Limits'
  <1>1. CASE Reading
    <2>1. queue' = queue
      BY <1>1 DEF Reading, ReadBlock, PopBlock, PopBlockWaits, PopBlockSleeps, StopIo, WakeIo, JoinIo, sync
    <2> QED BY <2>1, SameFits, ClosedGrows DEF Limits, Capacity
  <1>2. CASE ~Reading
    <2>1. \A r \in Queues : Len(queue'[r]) <= Capacity(r)
      BY <1>2, Steps, HybridFits, PlainFits, ElsewhereFits
    <2> QED BY <2>1, ClosedGrows DEF Limits, Capacity
  <1> QED BY <1>1, <1>2

-----------------------------------------------------------------------------
(* Every step keeps the prefetcher's account *)

\* The steps of the others do not touch what the prefetcher keeps.
LEMMA PrefetchOf ==
    ASSUME IInv, [Next]_vars, ~Io
    PROVE  /\ done' = done /\ ioNext' = ioNext /\ pc'["io"] = pc["io"]
           /\ stop' = stop \/ (stop' = TRUE /\ pc'["main"] = "wakeio")
           /\ ~PopBlock => ahead' = ahead
  <1>1. CASE Reading
    <2>1. pc'["io"] = pc["io"]
      BY <1>1, MainGoes DEF Reading, ReadBlock, PopBlock, PopBlockWaits, PopBlockSleeps, StopIo,
         WakeIo, JoinIo, GiveUp
    <2> QED BY <1>1, <2>1, MainGoes DEF Reading, ReadBlock, PopBlock, PopBlockWaits, PopBlockSleeps,
           StopIo, WakeIo, JoinIo, prefetch
  <1>2. CASE Hybrid /\ ~Reading
    <2>1. UNCHANGED <<done, ioNext, stop, ahead>>
      BY <1>2 DEF Hybrid, Top, Dispatch, PushTask, Drain, TryDrain, Tried, WriteBlock, WriteBlockFails,
         NothingToWrite, CloseAll, CloseTasks, FinalDrain, CloseResults, JoinLanes, prefetch
    <2>2. pc'["io"] = pc["io"]
      <3>1. pc' = pc \/ \E p : Goto("main", p)
        BY <1>2 DEF Hybrid, Top, Dispatch, PushTask, Drain, TryDrain, Tried, WriteBlock, WriteBlockFails,
           NothingToWrite, CloseAll, CloseTasks, FinalDrain, CloseResults, JoinLanes, Push, Arrive,
           PopItem, PopClosed, PopSleep
      <3> QED BY <3>1, MainGoes
    <2> QED BY <1>2, <2>1, <2>2 DEF Reading
  <1>3. CASE Plain /\ ~Reading
    <2>1. UNCHANGED <<done, ioNext, stop, ahead>>
      BY <1>3 DEF Plain, PlainTop, EncodeTile, AppendTile, PushTile, TilePushed, NextTile,
         CommitBlock, FinishWriter, CloseTiles, JoinWriter, prefetch
    <2>2. pc'["io"] = pc["io"]
      <3>1. pc' = pc \/ \E p : Goto("main", p)
        BY <1>3 DEF Plain, PlainTop, EncodeTile, AppendTile, PushTile, TilePushed, NextTile,
           CommitBlock, FinishWriter, CloseTiles, JoinWriter, GiveUp, Push
      <3> QED BY <3>1, MainGoes
    <2> QED BY <1>3, <2>1, <2>2 DEF Reading
  <1>4. CASE (Elsewhere \/ UNCHANGED vars) /\ ~Reading
    <2>1. "io" \in Threads /\ "io" # "writer" /\ "io" \notin Lanes
      BY DEF Threads, Lanes
    <2>2. CASE Writer
      BY <1>4, <2>1, <2>2, WriterFrame DEF prefetch, Reading
    <2>3. CASE \E l \in Lanes : LaneStep(l)
      BY <1>4, <2>1, <2>3, LaneFrame DEF prefetch, Reading
    <2>4. CASE UNCHANGED vars
      BY <1>4, <2>4 DEF vars, prefetch, Reading
    <2> QED BY <1>4, <2>2, <2>3, <2>4 DEF Elsewhere
  <1> QED BY <1>1, <1>2, <1>3, <1>4, Steps

LEMMA FaultGrows ==
    ASSUME [Next]_vars
    PROVE  fault' = fault \/ fault' = TRUE
  <1>1. CASE Main
    <2>1. CASE Reading
      BY <2>1 DEF Reading, ReadBlock, PopBlock, PopBlockWaits, PopBlockSleeps, StopIo, WakeIo, JoinIo
    <2>2. CASE Hybrid
      BY <2>2 DEF Hybrid, Top, Dispatch, PushTask, Drain, TryDrain, Tried, WriteBlock, WriteBlockFails,
         NothingToWrite, CloseAll, CloseTasks, FinalDrain, CloseResults, JoinLanes
    <2>3. CASE Plain
      BY <2>3 DEF Plain, PlainTop, EncodeTile, AppendTile, PushTile, TilePushed, NextTile,
         CommitBlock, FinishWriter, CloseTiles, JoinWriter
    <2> QED BY <1>1, <2>1, <2>2, <2>3 DEF Main
  <1>2. CASE Io
    BY <1>2 DEF Io, IoRead, IoPush, IoFail, IoDone, IoExit
  <1>3. CASE Writer
    BY <1>3 DEF Writer, WriterPop, WriterAppend, WriterFail
  <1>4. CASE \E l \in Lanes : LaneStep(l)
    BY <1>4 DEF LaneStep, LaneCheck, LanePop, LaneEncode, LaneFail, LanePush
  <1>5. CASE UNCHANGED vars
    BY <1>5 DEF vars
  <1> QED BY <1>1, <1>2, <1>3, <1>4, <1>5 DEF Next

LEMMA IoControlKept == ASSUME IInv, JInv, [Next]_vars PROVE IoControl'
  <1>0. IoControl /\ opt' = opt /\ "io" \in Threads
    BY NextKeeps DEF JInv, Quiet, Extends, Commits, Threads
  <1>1. CASE ~Io
    <2>1. /\ done' = done /\ ioNext' = ioNext /\ pc'["io"] = pc["io"]
          /\ stop' = stop \/ (stop' = TRUE /\ pc'["main"] = "wakeio")
      BY <1>1, PrefetchOf
    <2>2. stop => stop'
      BY <2>1
    <2> QED BY <1>0, <2>1, <2>2 DEF IoControl
  <1>2. CASE IoRead
    BY <1>0, <1>2, Goes DEF IoRead, At, IoControl, JInv, ReaderLimits
  <1>3. CASE IoPush
    <2>1. CASE Goto("io", "done") /\ stop /\ UNCHANGED ioNext
      BY <1>0, <1>3, <2>1, Goes DEF IoPush, At, IoControl, prefetch
    <2>2. CASE Goto("io", "loop")
      BY <1>0, <1>3, <2>2, Goes DEF IoPush, At, IoControl, prefetch
    <2>3. CASE UNCHANGED <<pc, ioNext>>
      BY <1>0, <1>3, <2>3 DEF IoPush, At, IoControl, prefetch
    <2> QED BY <1>3, <2>1, <2>2, <2>3 DEF IoPush
  <1>4. CASE IoFail \/ IoDone \/ IoExit
    BY <1>0, <1>4, Goes DEF IoFail, IoDone, IoExit, At, IoControl, prefetch
  <1> QED BY <1>1, <1>2, <1>3, <1>4 DEF Io

LEMMA ReaderLimitsKept == ASSUME IInv, JInv, [Next]_vars PROVE ReaderLimits'
  <1>1. ReaderLimits /\ IoControl
    BY DEF JInv
  <1>2. fault' \in BOOLEAN
    BY <1>1, FaultGrows, Zenon DEF ReaderLimits
  <1>3. stop' = stop \/ stop' = TRUE
    <2>1. CASE Io
      BY <2>1 DEF Io, IoRead, IoPush, IoFail, IoDone, IoExit, prefetch
    <2>2. CASE ~Io
      BY <2>2, PrefetchOf
    <2> QED BY <2>1, <2>2
  <1>4. done' = done \/ done' = TRUE
    <2>1. CASE Io
      BY <2>1 DEF Io, IoRead, IoPush, IoFail, IoDone, IoExit, prefetch
    <2>2. CASE ~Io
      BY <2>2, PrefetchOf
    <2> QED BY <2>1, <2>2
  <1>5. stop' \in BOOLEAN /\ done' \in BOOLEAN
    BY <1>1, <1>3, <1>4, Zenon DEF ReaderLimits
  <1>6. ahead' \in Seq(Block) /\ Len(ahead') <= IoDepth /\ ioNext' \in 0 .. Blocks
    <2>1. CASE UNCHANGED <<ahead, ioNext>>
      BY <1>1, <2>1 DEF ReaderLimits
    <2>2. CASE PopBlock /\ ahead' # ahead
      <3>1. ahead # <<>> /\ ahead' = Tail(ahead) /\ ioNext' = ioNext
        BY <2>2 DEF PopBlock
      <3>2. Len(ahead) \in Nat /\ Len(ahead') = Len(ahead) - 1 /\ ahead' \in Seq(Block)
        BY <1>1, <3>1 DEF ReaderLimits
      <3> QED BY <1>1, <3>1, <3>2, EncodeAssumption DEF ReaderLimits
    <2>3. CASE Io /\ ~UNCHANGED <<ahead, ioNext>>
      <3>1. pc["io"] = "push" /\ ahead' = Append(ahead, ioNext) /\ ioNext' = ioNext + 1 /\ Len(ahead) < IoDepth
        BY <2>3 DEF Io, IoRead, IoPush, IoFail, IoDone, IoExit, prefetch, At
      <3>2. ioNext \in Block /\ ioNext' \in 0 .. Blocks
        BY <1>1, <3>1, ConstFacts DEF ReaderLimits, IoControl, Block
      <3>3. Len(ahead) \in Nat /\ Len(ahead') = Len(ahead) + 1 /\ ahead' \in Seq(Block)
        BY <1>1, <3>1, <3>2 DEF ReaderLimits
      <3> QED BY <3>1, <3>2, <3>3, EncodeAssumption
    <2>4. CASE ~Io /\ ~PopBlock
      BY <1>1, <2>4, PrefetchOf DEF ReaderLimits
    <2>5. PopBlock => ioNext' = ioNext
      BY DEF PopBlock
    <2> QED BY <2>1, <2>2, <2>3, <2>4, <2>5
  <1> QED BY <1>2, <1>5, <1>6 DEF ReaderLimits

-----------------------------------------------------------------------------
(* A result has its place in the ring *)

LEMMA RingHasRoom ==
    ASSUME IInv, JInv, NEW b \in Contents["res"]
    PROVE  b \in Window /\ ring[Slot(b)] = None
  <1>1. /\ "res" \in Places /\ "ring" \in Places /\ b \in Span
        /\ next \in Nat /\ inflight \in Nat /\ inflight <= Depth
    <2>1. "res" \in Places /\ "ring" \in Places
      BY DEF Places, Moved
    <2> QED BY <2>1, PlaceFacts
  <1>2. b \in Window /\ b \in Nat
    BY <1>1, ConstFacts DEF Span, Window
  <1>3. Slot(b) \in 0 .. Depth - 1
    BY <1>2, ConstFacts DEF Slot
  <1>4. ASSUME ring[Slot(b)] # None PROVE FALSE
    <2>1. ring[Slot(b)] \in Window /\ Slot(ring[Slot(b)]) = Slot(b)
      BY <1>3, <1>4 DEF IInv, Stored, RingInPlace
    <2>2. ring[Slot(b)] = b
      BY <1>1, <1>2, <2>1, SlotsOfWindow DEF Window
    <2>3. ring[Slot(b)] \in Contents["ring"]
      BY <1>3, <1>4, ContentsAre
    <2> QED BY <1>1, <2>2, <2>3, PlaceFacts DEF Apart
  <1> QED BY <1>2, <1>4

LEMMA ArriveFits ==
    ASSUME IInv, JInv, queue["res"] # <<>>, Arrive(Head(queue["res"]))
    PROVE  failed' = failed /\ PopItem("main", "res", "write")
  <1>1. queue["res"] \in Seq(Nat) /\ OneEach(queue["res"]) /\ "res" \in Moved
    BY PlaceFacts DEF Moved
  <1>2. Head(queue["res"]) \in Contents["res"]
    BY <1>1, TailOf, ContentsAre
  <1> QED BY <1>2, RingHasRoom DEF Arrive

-----------------------------------------------------------------------------
(* Every failure is a fault *)

LEMMA HybridFaults == ASSUME IInv, JInv, Hybrid PROVE FaultKnown'
  <1>0. /\ failed \/ writerFailed => fault
        /\ writerFailed' = writerFailed
    <2>1. failed \/ writerFailed => fault
      BY DEF JInv, FaultKnown
    <2> QED BY <2>1 DEF Hybrid, Top, Dispatch, PushTask, Drain, TryDrain, Tried, WriteBlock, WriteBlockFails,
         NothingToWrite, CloseAll, CloseTasks, FinalDrain, CloseResults, JoinLanes
  <1>1. CASE WriteBlockFails
    BY <1>1 DEF WriteBlockFails, FaultKnown
  <1>2. CASE Drain \/ TryDrain
    <2>1. failed' = failed /\ fault' = fault
      BY <1>2, ArriveFits DEF Drain, TryDrain
    <2> QED BY <1>0, <2>1 DEF FaultKnown
  <1>3. CASE Top \/ Dispatch \/ PushTask \/ Tried \/ WriteBlock \/ NothingToWrite \/ CloseAll
             \/ CloseTasks \/ FinalDrain \/ CloseResults \/ JoinLanes
    <2>1. failed' = failed /\ fault' = fault
      BY <1>3 DEF Top, Dispatch, PushTask, Tried, WriteBlock, NothingToWrite, CloseAll, CloseTasks,
         FinalDrain, CloseResults, JoinLanes
    <2> QED BY <1>0, <2>1 DEF FaultKnown
  <1> QED BY <1>1, <1>2, <1>3 DEF Hybrid

\* The prefetcher has nothing to give only if it was stopped by a fault: what
\* the caller has not asked for is still to be read, or waits in its queue.
LEMMA PopBlockFaults == ASSUME IInv, JInv, PopBlock, failed' # failed PROVE fault
  <1>1. /\ opt.read /\ pc["main"] = "read" /\ (stop \/ ahead = <<>>) /\ (stop \/ ahead # <<>> \/ done)
    BY DEF PopBlock, At
  <1>2. Early
    BY <1>1 DEF Early
  <1>3. CASE stop
    BY <1>2, <1>3 DEF JInv, StillOpen
  <1>4. CASE failed
    BY <1>4 DEF JInv, FaultKnown
  <1>5. CASE ~stop /\ ~failed
    <2>1. ioNext = Blocks /\ ahead = <<>>
      BY <1>1, <1>5 DEF JInv, IoControl
    <2>2. Len(ahead) + bid = ioNext
      BY <1>1, <1>2, <1>5 DEF JInv, ReadAhead, Taken, Back, InBlock
    <2>3. bid \in Nat /\ bid < Blocks
      <3>1. CASE opt.hybrid
        BY <1>1, <3>1, ConstFacts DEF IInv, Path, Locals, HybridControl, InLoop
      <3>2. CASE ~opt.hybrid
        BY <1>1, <3>2, ConstFacts DEF IInv, Path, Locals, PlainControl
      <3> QED BY <3>1, <3>2
    <2>4. Len(ahead) = 0
      BY <2>1
    <2> QED BY <2>1, <2>2, <2>3, <2>4, ConstFacts
  <1> QED BY <1>3, <1>4, <1>5

LEMMA ReadingFaults == ASSUME IInv, JInv, Reading PROVE FaultKnown'
  <1>0. /\ failed \/ writerFailed => fault
        /\ writerFailed' = writerFailed
    <2>1. failed \/ writerFailed => fault
      BY DEF JInv, FaultKnown
    <2> QED BY <2>1 DEF Reading, ReadBlock, PopBlock, PopBlockWaits, PopBlockSleeps, StopIo, WakeIo, JoinIo
  <1>1. CASE ReadBlock
    BY <1>0, <1>1 DEF ReadBlock, FaultKnown
  <1>2. CASE PopBlock
    <2>1. fault' = fault
      BY <1>2 DEF PopBlock
    <2> QED BY <1>0, <1>2, <2>1, PopBlockFaults DEF FaultKnown
  <1>3. CASE PopBlockWaits \/ PopBlockSleeps \/ StopIo \/ WakeIo \/ JoinIo
    <2>1. failed' = failed /\ fault' = fault
      BY <1>3 DEF PopBlockWaits, PopBlockSleeps, StopIo, WakeIo, JoinIo
    <2> QED BY <1>0, <2>1 DEF FaultKnown
  <1> QED BY <1>1, <1>2, <1>3 DEF Reading

LEMMA PlainFaults == ASSUME IInv, JInv, ~opt.hybrid, Plain PROVE FaultKnown'
  <1>0. /\ failed \/ writerFailed => fault
        /\ writerFailed' = writerFailed
    <2>1. failed \/ writerFailed => fault
      BY DEF JInv, FaultKnown
    <2> QED BY <2>1 DEF Plain, PlainTop, EncodeTile, AppendTile, PushTile, TilePushed, NextTile,
         CommitBlock, FinishWriter, CloseTiles, JoinWriter
  <1>1. CASE AppendTile
    BY <1>0, <1>1 DEF AppendTile, FaultKnown
  <1>2. CASE CommitBlock
    BY <1>0, <1>2 DEF CommitBlock, FaultKnown
  <1>3. CASE EncodeTile \/ TilePushed
    <2>1. fault' = fault /\ (failed' => failed \/ writerFailed)
      BY <1>3 DEF EncodeTile, TilePushed
    <2> QED BY <1>0, <2>1 DEF FaultKnown
  <1>4. CASE JoinWriter
    <2>1. fault' = fault /\ (failed' => failed \/ writerFailed)
      BY <1>4 DEF JoinWriter
    <2> QED BY <1>0, <2>1 DEF FaultKnown
  <1>5. CASE PushTile
    <2>1. /\ pc["main"] = "push" /\ fault' = fault /\ (failed' => failed \/ pc'["main"] = "closetile")
          /\ Push("main", "tile", bid * Tiles + tile, "pushed", "closetile")
      BY <1>5 DEF PushTile, At
    <2>2. pc'["main"] = "closetile" => "tile" \in closed
      BY <2>1, MainGoes DEF Push
    <2>3. "tile" \in closed => fault
      BY <2>1 DEF JInv, StillOpen, Early, InBlock
    <2> QED BY <1>0, <2>1, <2>2, <2>3 DEF FaultKnown
  <1>6. CASE PlainTop \/ NextTile \/ FinishWriter \/ CloseTiles
    <2>1. failed' = failed /\ fault' = fault
      BY <1>6 DEF PlainTop, NextTile, FinishWriter, CloseTiles
    <2> QED BY <1>0, <2>1 DEF FaultKnown
  <1> QED BY <1>1, <1>2, <1>3, <1>4, <1>5, <1>6 DEF Plain

LEMMA ElsewhereFaults == ASSUME IInv, JInv, Elsewhere, [Next]_vars PROVE FaultKnown'
  <1>0. failed \/ writerFailed => fault
    BY DEF JInv, FaultKnown
  <1>1. fault => fault'
    BY FaultGrows
  <1>2. \/ failed' = failed /\ writerFailed' = writerFailed
        \/ fault'
    <2>1. CASE Io
      BY <2>1, IoFrame
    <2>2. CASE Writer
      BY <2>2 DEF Writer, WriterPop, WriterAppend, WriterFail
    <2>3. CASE \E l \in Lanes : LaneStep(l)
      BY <2>3 DEF LaneStep, LaneCheck, LanePop, LaneEncode, LaneFail, LanePush
    <2>4. CASE UNCHANGED vars
      BY <2>4 DEF vars
    <2> QED BY <2>1, <2>2, <2>3, <2>4 DEF Elsewhere
  <1> QED BY <1>0, <1>1, <1>2 DEF FaultKnown

LEMMA FaultsKept == ASSUME IInv, JInv, [Next]_vars PROVE FaultKnown'
  BY Steps, HybridFaults, ReadingFaults, PlainFaults, ElsewhereFaults

-----------------------------------------------------------------------------
(* Every step keeps the caller's account with the prefetcher *)

\* Taking a block is leaving "read" for the encoding.
Takes == pc["main"] = "read" /\ pc'["main"] \in {"push", "encode"}
Onward == Early /\ Taken' = IF Takes THEN Taken + 1 ELSE Taken

LEMMA ReadingOnward == ASSUME IInv, JInv, Reading, Early', ~failed' PROVE Onward
  <1>1. UNCHANGED <<bid, resume>>
    BY DEF Reading, ReadBlock, PopBlock, PopBlockWaits, PopBlockSleeps, StopIo, WakeIo, JoinIo, order
  <1>2. \/ pc["main"] = "read" /\ pc'["main"] \in {"push", "encode", "blocking"}
        \/ pc["main"] = "blocking" /\ pc'["main"] = "read"
        \/ pc'["main"] \in {"wakeio", "joinio", "close", "ended", "finish"}
    BY MainGoes, MayBe DEF Reading, ReadBlock, PopBlock, PopBlockWaits, PopBlockSleeps, StopIo,
       WakeIo, JoinIo, GiveUp, At
  <1> QED BY <1>1, <1>2 DEF Onward, Takes, Early, Back, InBlock, Taken

LEMMA HybridOnward == ASSUME IInv, JInv, opt.hybrid, Hybrid, Early', ~failed' PROVE Onward
  <1>0. HybridControl /\ resume \in {"top", "try", "final"}
    BY MayBe DEF IInv, Path
  <1>1. CASE Top
    <2>1. pc["main"] = "top" /\ resume' = "top" /\ bid' = bid
          /\ pc'["main"] \in {Leave, "drain", "dispatch"}
      BY <1>1, MainGoes DEF Top, At, order
    <2> QED BY <2>1, MayBe DEF Onward, Takes, Early, Back, InBlock, Taken
  <1>2. CASE Dispatch
    <2>1. pc["main"] = "dispatch" /\ UNCHANGED <<bid, resume>> /\ pc'["main"] \in {Leave, "read"}
      BY <1>2, MainGoes DEF Dispatch, At, order
    <2> QED BY <2>1, MayBe DEF Onward, Takes, Early, Back, InBlock, Taken
  <1>3. CASE PushTask
    <2>1. pc["main"] = "push" /\ bid' = bid /\ resume' = "try" /\ Push("main", Lane(bid), bid, "try", Leave)
      BY <1>3 DEF PushTask, At
    <2>2. pc'["main"] \in {"try", Leave, "push"}
      BY <2>1, PushGoes DEF Threads
    <2> QED BY <2>1, <2>2, MayBe DEF Onward, Takes, Early, Back, InBlock, Taken
  <1>4. CASE Drain
    <2>1. pc["main"] = "drain" /\ UNCHANGED <<bid, resume>>
      BY <1>4 DEF Drain, At
    <2>2. \/ pc'["main"] \in {"write", "drain"}
          \/ "res" \in closed /\ failed' = failed
      <3>1. \/ Goto("main", "write") \/ pc' = pc \/ ("res" \in closed /\ failed' = failed)
        BY <1>4, ArriveFits DEF Drain, PopItem, PopClosed, PopSleep
      <3> QED BY <2>1, <3>1, MainGoes
    <2>3. pc'["main"] \in {"write", "drain"}
      BY <1>0, <2>1, <2>2 DEF HybridControl
    <2> QED BY <2>1, <2>3 DEF Onward, Takes, Early, Back, InBlock, Taken
  <1>5. CASE TryDrain
    <2>1. pc["main"] = "try" /\ UNCHANGED <<bid, resume>> /\ resume = "try"
      BY <1>0, <1>5 DEF TryDrain, At, HybridControl
    <2>2. pc'["main"] \in {"write", "tried"}
      <3>1. Goto("main", "write") \/ Goto("main", "tried")
        BY <1>5, ArriveFits DEF TryDrain, PopItem
      <3> QED BY <3>1, MainGoes
    <2> QED BY <2>1, <2>2 DEF Onward, Takes, Early, Back, InBlock, Taken
  <1>6. CASE Tried
    <2>1. pc["main"] = "tried" /\ resume' = resume
          /\ \/ pc'["main"] = Leave
             \/ pc'["main"] = "top" /\ bid' = bid + 1
      BY <1>6, MainGoes DEF Tried, At
    <2> QED BY <2>1, MayBe DEF Onward, Takes, Early, Back, InBlock, Taken
  <1>7. CASE WriteBlock
    <2>1. UNCHANGED <<pc, bid, resume>> /\ pc["main"] = "write"
      BY <1>7 DEF WriteBlock, At
    <2> QED BY <2>1 DEF Onward, Takes, Early, Back, InBlock, Taken
  <1>8. CASE NothingToWrite
    <2>1. /\ pc["main"] = "write" /\ UNCHANGED <<bid, resume>>
          /\ pc'["main"] = IF resume = "try" /\ failed THEN "tried" ELSE resume
      BY <1>8, MainGoes DEF NothingToWrite, At, order
    <2> QED BY <1>0, <2>1 DEF Onward, Takes, Early, Back, InBlock, Taken
  <1>9. CASE WriteBlockFails \/ CloseAll
    BY <1>0, <1>9 DEF WriteBlockFails, CloseAll, At, HybridControl
  <1>10. CASE CloseTasks \/ FinalDrain \/ CloseResults \/ JoinLanes
    <2>1. \/ pc'["main"] \in {"final", "closeres", "join", "ended"}
          \/ pc'["main"] = "drain" /\ resume' = "final"
      BY <1>0, <1>10, MainGoes DEF CloseTasks, FinalDrain, CloseResults, JoinLanes, At, HybridControl
    <2> QED BY <2>1 DEF Early, Back, InBlock
  <1> QED BY <1>1, <1>2, <1>3, <1>4, <1>5, <1>6, <1>7, <1>8, <1>9, <1>10 DEF Hybrid

LEMMA PlainOnward == ASSUME IInv, JInv, ~opt.hybrid, Plain, Early', ~failed' PROVE Onward
  <1>0. ~GiveUp
    BY DEF GiveUp
  <1>1. CASE PlainTop
    <2>1. pc["main"] = "top" /\ UNCHANGED <<bid, resume>> /\ pc'["main"] \in {Leave, "read"}
      BY <1>1, MainGoes DEF PlainTop, At
    <2> QED BY <2>1, MayBe DEF Onward, Takes, Early, Back, InBlock, Taken
  <1>2. CASE EncodeTile \/ AppendTile \/ TilePushed \/ NextTile
    <2>1. pc["main"] \in InBlock /\ UNCHANGED <<bid, resume>>
          /\ pc'["main"] \in InBlock
      <3>1. UNCHANGED <<bid, resume>>
        BY <1>2 DEF EncodeTile, AppendTile, TilePushed, NextTile, order
      <3>2. pc["main"] \in InBlock
        BY <1>2 DEF EncodeTile, AppendTile, TilePushed, NextTile, At, InBlock
      <3>3. \E p \in InBlock : Goto("main", p)
        BY <1>0, <1>2 DEF EncodeTile, AppendTile, TilePushed, NextTile, InBlock
      <3> QED BY <3>1, <3>2, <3>3, MainGoes
    <2>2. pc["main"] # "read"
      BY <2>1 DEF InBlock
    <2> QED BY <2>1, <2>2 DEF Onward, Takes, Early, Taken
  <1>3. CASE PushTile
    <2>1. pc["main"] = "push" /\ UNCHANGED <<bid, resume>>
          /\ Push("main", "tile", bid * Tiles + tile, "pushed", "closetile")
      BY <1>3 DEF PushTile, At, order
    <2>2. pc'["main"] \in {"pushed", "closetile", "push"}
      BY <2>1, PushGoes DEF Threads
    <2> QED BY <2>1, <2>2 DEF Onward, Takes, Early, Back, InBlock, Taken
  <1>4. CASE CommitBlock
    <2>1. pc["main"] = "commit" /\ resume' = resume /\ bid' = bid + 1 /\ pc'["main"] = "top"
      BY <1>0, <1>4, MainGoes DEF CommitBlock, At
    <2> QED BY <2>1 DEF Onward, Takes, Early, Back, InBlock, Taken
  <1>5. CASE FinishWriter \/ CloseTiles \/ JoinWriter
    <2>1. pc'["main"] \in {"closetile", "ended", "jointile", "stopio"}
      BY <1>5, MainGoes DEF FinishWriter, CloseTiles, JoinWriter
    <2> QED BY <2>1 DEF Early, Back, InBlock
  <1> QED BY <1>1, <1>2, <1>3, <1>4, <1>5 DEF Plain

LEMMA ElsewhereOnward ==
    ASSUME IInv, JInv, Elsewhere PROVE Early' = Early /\ Taken' = Taken /\ ~Takes
  <1>1. pc'["main"] = pc["main"] /\ UNCHANGED <<bid, resume>>
    BY ElsewhereFrame DEF Aside
  <1>2. Early' = Early
    BY <1>1 DEF Early, Back
  <1>3. Taken' = Taken /\ ~Takes
    BY <1>1 DEF Taken, Back, Takes
  <1> QED BY <1>2, <1>3

LEMMA StepOnward == ASSUME IInv, JInv, [Next]_vars, Early', ~failed' PROVE Onward
  <1>1. CASE Elsewhere
    BY <1>1, ElsewhereOnward DEF Onward
  <1>2. CASE ~Elsewhere
    BY <1>2, Steps, ReadingOnward, HybridOnward, PlainOnward
  <1> QED BY <1>1, <1>2

\* Only a fault stops the prefetcher or closes the tile queue early.
LEMMA StillOpenKept == ASSUME IInv, JInv, [Next]_vars PROVE StillOpen'
  <1> SUFFICES ASSUME Early', stop' \/ "tile" \in closed', ~fault' PROVE FALSE
    BY DEF StillOpen
  <1>1. ~failed' /\ ~writerFailed' /\ ~fault
    <2>1. ~failed' /\ ~writerFailed'
      BY FaultsKept DEF FaultKnown
    <2>2. ~fault
      BY FaultGrows
    <2> QED BY <2>1, <2>2
  <1>2. Early /\ ~failed /\ ~writerFailed
    BY <1>1, StepOnward DEF Onward, JInv, FaultKnown
  <1>3. ~stop /\ "tile" \notin closed
    BY <1>1, <1>2 DEF JInv, StillOpen
  <1>4. pc'["main"] \notin {"wakeio", "jointile"}
    BY DEF Early, Back, InBlock
  <1>5. "tile" \notin closed'
    BY <1>2, <1>3, <1>4, ClosedGrows
  <1>6. ~stop'
    <2>1. CASE ~Io
      BY <1>3, <1>4, <2>1, PrefetchOf
    <2>2. CASE Io
      BY <1>3, <2>2 DEF Io, IoRead, IoPush, IoFail, IoDone, IoExit, prefetch
    <2> QED BY <2>1, <2>2
  <1> QED BY <1>5, <1>6

LEMMA ReadAheadKept == ASSUME IInv, JInv, [Next]_vars PROVE ReadAhead'
  <1>0. opt' = opt
    BY NextKeeps DEF Quiet, Extends, Commits
  <1> SUFFICES ASSUME opt.read, Early', ~failed' PROVE Len(ahead') + Taken' = ioNext'
    BY <1>0 DEF ReadAhead
  <1>1. Early /\ Taken' = IF Takes THEN Taken + 1 ELSE Taken
    BY StepOnward DEF Onward
  <1>2. ~failed
    <2>1. CASE Elsewhere
      BY <2>1, ElsewhereFrame
    <2>2. CASE ~Elsewhere
      <3>1. failed => failed'
        BY <2>2, Steps, ArriveFits DEF Reading, ReadBlock, PopBlock, PopBlockWaits, PopBlockSleeps,
           StopIo, WakeIo, JoinIo, GiveUp, Hybrid, Top, Dispatch, PushTask, Drain, TryDrain, Tried,
           WriteBlock, WriteBlockFails, NothingToWrite, CloseAll, CloseTasks, FinalDrain,
           CloseResults, JoinLanes, Plain, PlainTop, EncodeTile, AppendTile, PushTile, TilePushed,
           NextTile, CommitBlock, FinishWriter, CloseTiles, JoinWriter
      <3> QED BY <3>1
    <2> QED BY <2>1, <2>2
  <1>3. Len(ahead) + Taken = ioNext /\ Taken \in Nat /\ ahead \in Seq(Block) /\ ioNext \in Nat
    BY <1>1, <1>2, ConstFacts DEF JInv, ReadAhead, ReaderLimits, Taken, IInv, Path, Locals
  <1>4. CASE Io
    <2>1. Taken' = Taken
      BY <1>1, <1>4, ElsewhereOnward DEF Elsewhere
    <2>2. CASE UNCHANGED <<ahead, ioNext>>
      BY <1>3, <2>1, <2>2
    <2>3. CASE ~UNCHANGED <<ahead, ioNext>>
      <3>1. pc["io"] = "push" /\ ahead' = Append(ahead, ioNext) /\ ioNext' = ioNext + 1
        BY <1>4, <2>3 DEF Io, IoRead, IoPush, IoFail, IoDone, IoExit, prefetch, At
      <3>2. ioNext \in Block
        BY <1>3, <3>1, ConstFacts DEF JInv, IoControl, Block
      <3>3. Len(ahead') = Len(ahead) + 1 /\ Len(ahead) \in Nat
        BY <1>3, <3>1, <3>2
      <3> QED BY <1>3, <2>1, <3>1, <3>3
    <2> QED BY <2>2, <2>3
  <1>5. CASE PopBlock
    <2>1. /\ ahead # <<>> /\ ahead' = Tail(ahead) /\ ioNext' = ioNext /\ Takes
      BY <1>5, MainGoes DEF PopBlock, GiveUp, At, Takes
    <2>2. Len(ahead') = Len(ahead) - 1 /\ Len(ahead) \in Nat
      BY <1>3, <2>1
    <2> QED BY <1>1, <1>3, <2>1, <2>2
  <1>6. CASE ~Io /\ ~PopBlock
    <2>1. ahead' = ahead /\ ioNext' = ioNext
      BY <1>6, PrefetchOf
    <2>2. ~Takes
      <3>1. CASE Elsewhere
        BY <3>1, ElsewhereOnward
      <3>2. CASE ~Elsewhere
        <4>1. pc["main"] = "read" => ReadBlock \/ PopBlockWaits
          BY <1>6, <3>2, Steps DEF Reading, PopBlockSleeps, StopIo, WakeIo, JoinIo,
             Hybrid, Top, Dispatch, PushTask, Drain, TryDrain, Tried, WriteBlock, WriteBlockFails,
             NothingToWrite, CloseAll, CloseTasks, FinalDrain, CloseResults, JoinLanes,
             Plain, PlainTop, EncodeTile, AppendTile, PushTile, TilePushed, NextTile, CommitBlock,
             FinishWriter, CloseTiles, JoinWriter, At
        <4>2. ~ReadBlock
          BY DEF ReadBlock
        <4>3. PopBlockWaits => pc'["main"] = "blocking"
          BY MainGoes DEF PopBlockWaits
        <4> QED BY <4>1, <4>2, <4>3 DEF Takes
      <3> QED BY <3>1, <3>2
    <2> QED BY <1>1, <1>3, <2>1, <2>2
  <1> QED BY <1>4, <1>5, <1>6

-----------------------------------------------------------------------------
(* The first state *)

LEMMA JInitHolds == Init => JInv
  <1> SUFFICES ASSUME Init PROVE JInv
    OBVIOUS
  <1>1. /\ pc["main"] = "top" /\ pc["io"] = (IF opt.read THEN "loop" ELSE "exit")
        /\ \A l \in Lanes : pc[l] \in {"check", "exit"}
    BY DEF Init, Threads, Lanes
  <1>2. first \in Nat /\ first <= Blocks /\ next = first /\ bid = first /\ ioNext = first /\ inflight = 0
    BY ConstFacts DEF Init
  <1>3. Limits
    <2>1. \A q \in Queues : queue[q] = <<>> /\ Capacity(q) \in Nat
      BY EncodeAssumption DEF Init, Capacity
    <2> QED BY <2>1 DEF Init, Limits
  <1>4. ReaderLimits
    <2>1. ahead = <<>> /\ ahead \in Seq(Block) /\ Len(ahead) = 0
      BY DEF Init
    <2>2. stop = FALSE /\ done = FALSE /\ fault = FALSE
      BY DEF Init
    <2>3. ioNext \in 0 .. Blocks /\ Len(ahead) <= IoDepth
      BY <1>2, <2>1, EncodeAssumption
    <2> QED BY <2>1, <2>2, <2>3 DEF ReaderLimits
  <1>5. OnePlace
    <2>1. \A q \in Moved : queue[q] = <<>> /\ Items(queue[q]) = {} /\ OneEach(queue[q])
      <3>1. \A q \in Moved : queue[q] = <<>>
        BY DEF Init, Moved, Queues, Lanes
      <3> QED BY <3>1 DEF Items, OneEach
    <2>2. \A p \in Places : Contents[p] = {}
      <3>1. held["gpu"] = None /\ held["cpu"] = None /\ \A s \in 0 .. Depth - 1 : ring[s] = None
        BY DEF Init, Lanes
      <3> QED BY <2>1, <3>1, ContentsAre DEF Places
    <2> QED BY <1>2, <2>1, <2>2, ConstFacts DEF OnePlace, Apart
  <1>6. Pace
    <2>1. HandedOut = bid - 1
      BY <1>1 DEF HandedOut
    <2> QED BY <1>1, <1>2, <2>1 DEF Pace
  <1>7. Awake
    BY <1>1 DEF Init, Awake
  <1>8. FaultKnown
    BY DEF Init, FaultKnown
  <1>9. StillOpen
    BY DEF Init, StillOpen
  <1>10. ReadAhead
    <2>1. Taken = bid /\ Len(ahead) = 0
      BY <1>1 DEF Init, Taken, InBlock, Back
    <2> QED BY <1>2, <2>1 DEF ReadAhead
  <1>11. IoControl
    BY <1>1 DEF Init, IoControl
  <1> QED BY <1>3, <1>4, <1>5, <1>6, <1>7, <1>8, <1>9, <1>10, <1>11 DEF JInv

LEMMA InductiveWindow == Spec => [](IInv /\ JInv)
  <1>1. Init => IInv /\ JInv
    BY InitHolds, JInitHolds
  <1>2. IInv /\ JInv /\ [Next]_vars => (IInv /\ JInv)'
    <2> SUFFICES ASSUME IInv, JInv, [Next]_vars PROVE IInv' /\ JInv'
      OBVIOUS
    <2>1. JInv'
      BY LimitsKept, ReaderLimitsKept, PlacesKept, PaceKept, AwakeKept, FaultsKept, StillOpenKept,
         ReadAheadKept, IoControlKept DEF JInv
    <2> QED BY <2>1, NextKeeps
  <1> QED BY <1>1, <1>2, PTL DEF Spec

-----------------------------------------------------------------------------
(* The theorems *)

\* Every variable has its type; above all the three queues, the ring and the
\* count of blocks in flight stay within Depth, which one test on the count
\* alone must ensure.
THEOREM TypesHold == Spec => []TypeOK
  <1>1. IInv /\ JInv => TypeOK
    <2> SUFFICES ASSUME IInv, JInv PROVE TypeOK
      OBVIOUS
    <2>1. Types /\ Locals /\ Limits /\ ReaderLimits /\ asleep \subseteq Threads
      BY DEF IInv, Path, JInv, Awake
    <2>2. opt \in [hybrid : BOOLEAN, read : BOOLEAN, write : BOOLEAN, commit : BOOLEAN]
      BY <2>1 DEF Types, Settings
    <2>3. committed \in 0 .. Blocks * Tiles
      <3>1. committed \in Nat /\ committed <= appended /\ appended + (Hand + Len(queue["tile"])) <= End
        BY <2>1 DEF Types, IInv, Stored, Bounds, Total
      <3>2. Hand \in {0, 1} /\ Len(queue["tile"]) \in Nat
        BY <2>1 DEF Hand, Types, Queues
      <3>3. appended \in Nat
        <4>1. first * Tiles \in Nat /\ Len(log) \in Nat
          BY <2>1, NextProduct, ConstFacts DEF Types
        <4> QED BY <4>1 DEF appended
      <3>4. committed <= End
        BY <3>1, <3>2, <3>3, ConstFacts
      <3> QED BY <3>1, <3>4, ConstFacts DEF End
    <2>4. inflight \in 0 .. Depth
      BY DEF JInv, OnePlace
    <2>5. {failed, stop, done, writerFailed, fault} \subseteq BOOLEAN
      BY <2>1 DEF Types, Locals, ReaderLimits
    <2> QED BY <2>1, <2>2, <2>3, <2>4, <2>5 DEF TypeOK, Types, Locals, Limits, ReaderLimits
  <1> QED BY <1>1, InductiveWindow, PTL

\* A result that waits for the caller is in the window and its slot is free:
\* "reorder depth too small" and "slot collision" are never reported.
THEOREM ResultsAlwaysFit == Spec => []ResultsFit
  <1>1. IInv /\ JInv => ResultsFit
    <2> SUFFICES ASSUME IInv, JInv, NEW i \in 1 .. Len(queue["res"])
                 PROVE  queue["res"][i] \in Window /\ ring[Slot(queue["res"][i])] = None
      BY DEF ResultsFit
    <2>1. queue["res"][i] \in Contents["res"]
      BY ContentsAre DEF Items, Moved
    <2> QED BY <2>1, RingHasRoom
  <1> QED BY <1>1, InductiveWindow, PTL

\* Neither the caller nor a lane ever waits to hand a block over, so they
\* cannot wait for each other's queues.
THEOREM PushNeverWaits == Spec => []HybridPushNeverWaits
  <1>1. JInv => HybridPushNeverWaits
    BY DEF JInv, Awake, HybridPushNeverWaits
  <1> QED BY <1>1, InductiveWindow, PTL

\* The call returns false only after a read, an encode, an append or a commit
\* has failed.
THEOREM FalseMeansFault == Spec => []NoFalseAlarm
  <1>1. JInv => NoFalseAlarm
    BY DEF JInv, FaultKnown, NoFalseAlarm
  <1> QED BY <1>1, InductiveWindow, PTL

-----------------------------------------------------------------------------
(***************************************************************************)
(* EncodeBaseStreaming loses no block: one that was handed out and is not  *)
(* written is in exactly one place, until something fails.                 *)
(*                                                                         *)
(* Above, it is in one place at most.  Here, a block that leaves a place   *)
(* arrives at the next: a lane takes a block only with free hands, a       *)
(* result lands in an empty slot of the ring, and the queue of results is  *)
(* closed only when everything is written.                                 *)
(***************************************************************************)
\* A lane that looks for a block has none.
HandsFree == \A l \in Lanes : pc[l] \in {"check", "pop"} => held[l] = None
\* Every block of the span is somewhere.
Covered == opt.hybrid /\ ~failed => \A b \in Span : \E k \in Places : b \in Contents[k]

KInv == HandsFree /\ Covered

LEMMA TailLeaves ==
    ASSUME NEW s \in Seq(Nat), s # <<>>
    PROVE  Items(s) \subseteq Items(Tail(s)) \cup {Head(s)}
  <1>1. /\ Len(s) \in Nat /\ Len(s) > 0 /\ Head(s) = s[1] /\ Len(Tail(s)) = Len(s) - 1
        /\ \A i \in 1 .. Len(s) - 1 : Tail(s)[i] = s[i + 1]
    OBVIOUS
  <1> SUFFICES ASSUME NEW i \in 1 .. Len(s), i # 1 PROVE s[i] \in Items(Tail(s))
    BY <1>1 DEF Items
  <1>2. i - 1 \in 1 .. Len(s) - 1 /\ (i - 1) + 1 = i
    BY <1>1
  <1>3. Tail(s)[i - 1] = s[i]
    BY <1>1, <1>2
  <1> QED BY <1>1, <1>2, <1>3 DEF Items

LEMMA AppendAdds ==
    ASSUME NEW s \in Seq(Nat), NEW b \in Nat
    PROVE  Items(s) \cup {b} \subseteq Items(Append(s, b))
  <1>1. /\ Len(s) \in Nat /\ Len(Append(s, b)) = Len(s) + 1
        /\ \A i \in 1 .. Len(s) : Append(s, b)[i] = s[i]
        /\ Append(s, b)[Len(s) + 1] = b
    OBVIOUS
  <1>2. Len(s) + 1 \in 1 .. Len(s) + 1 /\ \A i \in 1 .. Len(s) : i \in 1 .. Len(s) + 1
    BY <1>1
  <1> QED BY <1>1, <1>2 DEF Items

\* A block that moves is in its new place, and all others are where they were.
LEMMA MovesCovered ==
    ASSUME Covered, opt' = opt, failed => failed', Span' \subseteq Span,
           NEW j \in Places, NEW k \in Places, NEW b,
           Contents[j] \subseteq Contents'[j] \cup {b},
           Contents[k] \cup {b} \subseteq Contents'[k],
           \A p \in Places \ {j, k} : Contents[p] \subseteq Contents'[p]
    PROVE  Covered'
  <1> SUFFICES ASSUME opt.hybrid, ~failed', NEW x \in Span'
               PROVE  \E p \in Places : x \in Contents'[p]
    BY DEF Covered
  <1>1. PICK p \in Places : x \in Contents[p]
    BY DEF Covered
  <1>2. CASE x = b
    BY <1>2
  <1>3. CASE x # b
    BY <1>1, <1>3
  <1> QED BY <1>2, <1>3

LEMMA UnmovedCovered ==
    ASSUME Covered, opt' = opt, failed => failed', UNCHANGED <<next, inflight, ring>>,
           \A q \in Moved : queue'[q] = queue[q], \A l \in Lanes : held'[l] = held[l]
    PROVE  Covered'
  <1>1. Contents' = Contents
    <2>1. held'["gpu"] = held["gpu"] /\ held'["cpu"] = held["cpu"]
      BY DEF Lanes
    <2> QED BY <2>1 DEF Contents, Items, Places, Moved
  <1>2. Span' = Span
    BY DEF Span
  <1> QED BY <1>1, <1>2 DEF Covered

LEMMA PoppedLeaves ==
    ASSUME IInv, JInv, NEW t, NEW q \in Moved, NEW p, PopItem(t, q, p)
    PROVE  /\ Contents[q] \subseteq Contents'[q] \cup {Head(queue[q])}
           /\ \A r \in Moved \ {q} : Contents'[r] = Contents[r]
  <1>1. queue[q] # <<>> /\ queue' = [queue EXCEPT ![q] = Tail(@)] /\ q \in Queues
    BY PlaceFacts DEF PopItem
  <1>2. queue'[q] = Tail(queue[q]) /\ \A r \in Moved \ {q} : queue'[r] = queue[r]
    BY <1>1, PlaceFacts
  <1>3. Items(queue[q]) \subseteq Items(queue'[q]) \cup {Head(queue[q])}
    BY <1>1, <1>2, PlaceFacts, TailLeaves
  <1> QED BY <1>2, <1>3, ContentsAre, ContentsBecome

LEMMA PushTaskCovered ==
    ASSUME IInv, JInv, KInv, PushTask, opt' = opt PROVE Covered'
  <1> DEFINE q == Lane(bid)
  <1>1. /\ opt.hybrid /\ pc["main"] = "push" /\ Push("main", q, bid, "try", Leave)
        /\ inflight' = IF pc'["main"] = "try" THEN inflight + 1 ELSE inflight
        /\ UNCHANGED <<held, ring, next, failed>>
    BY DEF PushTask, At
  <1>2. /\ Leave \in {"stopio", "close"} /\ q \in Lanes
        /\ bid = next + inflight /\ bid \in Nat /\ next \in Nat /\ inflight \in Nat
    <2>1. Leave \in {"stopio", "close"} /\ q \in Lanes
      BY <1>1 DEF Leave, AfterIo, Lane, Lanes
    <2>2. bid = next + inflight
      BY <1>1 DEF JInv, Pace
    <2> QED BY <2>1, <2>2, PlaceFacts
  <1> HIDE DEF q
  <1>3. CASE queue' = queue /\ pc'["main"] # "try"
    BY <1>1, <1>3, UnmovedCovered DEF KInv
  <1>4. CASE queue' = [queue EXCEPT ![q] = Append(@, bid)] /\ pc'["main"] = "try"
    <2>1. Span' = Span \cup {bid}
      <3>1. inflight' = inflight + 1 /\ next' = next
        BY <1>1, <1>4
      <3>2. next' .. (next' + inflight') - 1 = (next .. (next + inflight) - 1) \cup {bid}
        BY <1>2, <3>1
      <3> QED BY <3>2 DEF Span
    <2>2. q \in Moved /\ q \in Places /\ q \in Queues /\ queue[q] \in Seq(Nat)
      BY <1>2, HandsOf, PlaceFacts
    <2>3. /\ Items(queue[q]) \cup {bid} \subseteq Items(queue'[q])
          /\ \A p \in Moved \ {q} : queue'[p] = queue[p]
      <3>1. queue'[q] = Append(queue[q], bid) /\ \A p \in Moved \ {q} : queue'[p] = queue[p]
        BY <1>4, <2>2, PlaceFacts
      <3> QED BY <1>2, <2>2, <3>1, AppendAdds
    <2>4. /\ Contents[q] \cup {bid} \subseteq Contents'[q]
          /\ \A p \in Places \ {q} : Contents[p] \subseteq Contents'[p]
      <3>1. Contents[q] \cup {bid} \subseteq Contents'[q]
        BY <2>2, <2>3, ContentsAre, ContentsBecome
      <3>2. \A p \in Moved \ {q} : Contents'[p] = Contents[p]
        BY <2>3, ContentsAre, ContentsBecome
      <3>3. Contents'["gpuhands"] = Contents["gpuhands"] /\ Contents'["cpuhands"] = Contents["cpuhands"]
        BY <1>1, ContentsAre, ContentsBecome
      <3>4. Contents'["ring"] = Contents["ring"]
        BY <1>1, ContentsAre, ContentsBecome
      <3> QED BY <3>1, <3>2, <3>3, <3>4 DEF Places
    <2> SUFFICES ASSUME ~failed', NEW x \in Span'
                 PROVE  \E p \in Places : x \in Contents'[p]
      BY DEF Covered
    <2>5. CASE x = bid
      BY <2>2, <2>4, <2>5
    <2>6. CASE x \in Span
      <3>1. PICK p \in Places : x \in Contents[p]
        BY <1>1, <2>6 DEF KInv, Covered
      <3> QED BY <2>4, <3>1
    <2> QED BY <2>1, <2>5, <2>6
  <1>5. \/ queue' = queue /\ pc'["main"] # "try"
        \/ queue' = [queue EXCEPT ![q] = Append(@, bid)] /\ pc'["main"] = "try"
    <2>1. pc \in [Threads -> Points] /\ "main" \in Threads
      BY DEF IInv, Types, Threads
    <2> QED BY <1>1, <1>2, <2>1 DEF Push, Goto
  <1> QED BY <1>3, <1>4, <1>5

LEMMA ArriveCovered ==
    ASSUME IInv, JInv, KInv, opt' = opt, queue["res"] # <<>>, Arrive(Head(queue["res"])),
           UNCHANGED <<next, inflight, held>>
    PROVE  Covered'
  <1> DEFINE b == Head(queue["res"])
  <1>1. /\ b \in Contents["res"] /\ b \in Block
    <2>1. queue["res"] \in Seq(Nat) /\ OneEach(queue["res"]) /\ "res" \in Moved
          /\ queue["res"] \in Seq(Block)
      BY PlaceFacts DEF Moved, IInv, Types
    <2> QED BY <2>1, TailOf, ContentsAre
  <1>2. ring[Slot(b)] = None /\ b \in Window
    BY <1>1, RingHasRoom
  <1>3. ring' = [ring EXCEPT ![Slot(b)] = b] /\ PopItem("main", "res", "write") /\ failed' = failed
    BY <1>2 DEF Arrive
  <1>4. /\ Contents["res"] \subseteq Contents'["res"] \cup {b}
        /\ \A r \in Moved \ {"res"} : Contents'[r] = Contents[r]
    <2>1. "res" \in Moved
      BY DEF Moved
    <2> QED BY <1>3, <2>1, PoppedLeaves
  <1>5. Slot(b) \in 0 .. Depth - 1 /\ b # None
    <2>1. b \in Nat
      BY <1>1, ConstFacts DEF Block
    <2> QED BY <2>1, ConstFacts DEF Slot
  <1> HIDE DEF b
  <1>6. ring'[Slot(b)] = b /\ \A s \in 0 .. Depth - 1 : s # Slot(b) => ring'[s] = ring[s]
    BY <1>3, <1>5, PlaceFacts
  <1>7. Contents["ring"] \cup {b} \subseteq Contents'["ring"]
    <2>1. Contents["ring"] = {ring[s] : s \in 0 .. Depth - 1} \ {None}
          /\ Contents'["ring"] = {ring'[s] : s \in 0 .. Depth - 1} \ {None}
      BY ContentsAre, ContentsBecome
    <2>2. \A s \in 0 .. Depth - 1 : ring[s] # None => ring'[s] = ring[s]
      BY <1>2, <1>6
    <2> QED BY <1>5, <1>6, <2>1, <2>2
  <1>8. Contents'["gpuhands"] = Contents["gpuhands"] /\ Contents'["cpuhands"] = Contents["cpuhands"]
    BY ContentsAre, ContentsBecome
  <1>9. \A p \in Places \ {"res", "ring"} : Contents[p] \subseteq Contents'[p]
    BY <1>4, <1>8 DEF Places
  <1>10. "res" \in Places /\ "ring" \in Places /\ Span' = Span
    BY DEF Places, Moved, Span
  <1> QED BY <1>3, <1>4, <1>7, <1>9, <1>10, MovesCovered DEF KInv

LEMMA WriteBlockCovered ==
    ASSUME IInv, JInv, KInv, opt.hybrid, opt' = opt, WriteBlock PROVE Covered'
  <1>1. /\ pc["main"] = "write" /\ next < Blocks /\ ring[Slot(next)] # None
        /\ ring' = [ring EXCEPT ![Slot(next)] = None]
        /\ next' = next + 1 /\ inflight' = inflight - 1 /\ UNCHANGED <<queue, held, failed>>
    BY DEF WriteBlock, At, sync
  <1>2. ring[Slot(next)] = next /\ Slot(next) \in 0 .. Depth - 1 /\ next \in Nat /\ inflight \in Nat
    BY <1>1, SlotOfNext, PlaceFacts
  <1>3. Span' \subseteq Span \ {next}
    <2>1. next' .. (next' + inflight') - 1 \subseteq (next .. (next + inflight) - 1) \ {next}
      BY <1>1, <1>2
    <2> QED BY <2>1 DEF Span
  <1>4. \A s \in 0 .. Depth - 1 : s # Slot(next) => ring'[s] = ring[s]
    BY <1>1, PlaceFacts
  <1>5. Contents["ring"] \subseteq Contents'["ring"] \cup {next}
    <2>1. Contents["ring"] = {ring[s] : s \in 0 .. Depth - 1} \ {None}
          /\ Contents'["ring"] = {ring'[s] : s \in 0 .. Depth - 1} \ {None}
      BY ContentsAre, ContentsBecome
    <2> QED BY <1>2, <1>4, <2>1
  <1>6. \A p \in Places \ {"ring"} : Contents'[p] = Contents[p]
    <2>1. \A q \in Moved : Contents'[q] = Contents[q]
      BY <1>1, ContentsAre, ContentsBecome
    <2>2. Contents'["gpuhands"] = Contents["gpuhands"] /\ Contents'["cpuhands"] = Contents["cpuhands"]
      BY <1>1, ContentsAre, ContentsBecome
    <2> QED BY <2>1, <2>2 DEF Places
  <1> SUFFICES ASSUME ~failed', NEW x \in Span'
               PROVE  \E p \in Places : x \in Contents'[p]
    BY DEF Covered
  <1>7. x \in Span /\ x # next
    BY <1>3
  <1>8. PICK p \in Places : x \in Contents[p]
    BY <1>1, <1>7 DEF KInv, Covered
  <1> QED BY <1>5, <1>6, <1>7, <1>8

LEMMA LanePopCovered ==
    ASSUME IInv, JInv, KInv, NEW l \in Lanes, LanePop(l), opt' = opt PROVE Covered'
  <1>1. pc[l] = "pop" /\ UNCHANGED <<next, inflight, ring, failed>>
    BY DEF LanePop, At, order
  <1>2. CASE UNCHANGED <<queue, held>>
    BY <1>1, <1>2, UnmovedCovered DEF KInv
  <1>3. CASE PopItem(l, l, "encode") /\ held' = [held EXCEPT ![l] = Head(queue[l])]
    <2> DEFINE b == Head(queue[l])
    <2>1. /\ Contents[l] \subseteq Contents'[l] \cup {b} /\ b \in Block
          /\ \A r \in Moved \ {l} : Contents'[r] = Contents[r]
      <3>1. l \in Moved /\ l \in Threads /\ "encode" \in Points /\ l \in Lanes \cup {"res"} /\ Types
        BY HandsOf DEF Points, IInv
      <3> QED BY <1>3, <3>1, PoppedLeaves, PopFacts
    <2>2. held[l] = None /\ held'[l] = b /\ \A k \in Lanes \ {l} : held'[k] = held[k]
      BY <1>1, <1>3, PlaceFacts DEF KInv, HandsFree
    <2>3. b # None
      BY <2>1, ConstFacts DEF Block
    <2> HIDE DEF b
    <2>4. Contents[Hands(l)] \cup {b} \subseteq Contents'[Hands(l)]
      BY <2>2, <2>3, HandsOf
    <2>5. \A p \in Places \ {l, Hands(l)} : Contents[p] \subseteq Contents'[p]
      BY <1>1, <2>1, <2>2, OtherHands
    <2>6. l \in Places /\ Hands(l) \in Places /\ Span' = Span
      BY <1>1, HandsOf DEF Span
    <2> QED BY <1>1, <2>1, <2>4, <2>5, <2>6, MovesCovered DEF KInv
  <1>4. UNCHANGED <<queue, held>> \/ (PopItem(l, l, "encode") /\ held' = [held EXCEPT ![l] = Head(queue[l])])
    BY DEF LanePop, PopClosed, PopSleep
  <1> QED BY <1>2, <1>3, <1>4

\* A lane finds the queue of results closed only when something has failed or
\* everything is written.
LEMMA ClosedIsLate ==
    ASSUME IInv, JInv, opt.hybrid, "res" \in closed, ~failed
    PROVE  Span = {}
  <1>1. pc["main"] \in {"join", "ended"} /\ next = Blocks
    BY DEF IInv, Path, HybridControl
  <1>2. HandedOut = bid - 1 /\ bid \in Nat /\ bid <= Blocks
    BY <1>1, ConstFacts DEF HandedOut, IInv, Path, Locals
  <1>3. next + inflight = HandedOut + 1
    BY DEF JInv, Pace
  <1>4. inflight = 0 /\ next \in Nat
    BY <1>1, <1>2, <1>3, PlaceFacts
  <1> QED BY <1>4 DEF Span

LEMMA LanePushCovered ==
    ASSUME IInv, JInv, KInv, NEW l \in Lanes, opt.hybrid, LanePush(l), opt' = opt PROVE Covered'
  <1>1. /\ pc[l] = "push" /\ UNCHANGED <<next, inflight, ring, failed>>
        /\ Push(l, "res", held[l], "check", "exit")
        /\ held' = IF pc'[l] = "push" THEN held ELSE [held EXCEPT ![l] = None]
    BY DEF LanePush, At, order
  <1>2. held[l] \in Nat /\ Span' = Span
    BY <1>1, ConstFacts DEF IInv, LaneControl, Block, Span
  <1>3. CASE "res" \in closed
    <2>1. ~failed => Span = {}
      BY <1>3, ClosedIsLate
    <2> QED BY <1>1, <1>2, <2>1 DEF Covered
  <1>4. CASE UNCHANGED <<queue, pc>>
    <2>1. held' = held
      BY <1>1, <1>4
    <2> QED BY <1>1, <1>4, <2>1, UnmovedCovered DEF KInv
  <1>5. CASE queue' = [queue EXCEPT !["res"] = Append(@, held[l])] /\ Goto(l, "check")
    <2> DEFINE b == held[l]
    <2>1. held'[l] = None /\ \A k \in Lanes \ {l} : held'[k] = held[k]
      BY <1>1, <1>5, HandsOf, Goes, PlaceFacts
    <2>2. Contents[Hands(l)] \subseteq Contents'[Hands(l)] \cup {b}
      BY HandsOf
    <2>3. "res" \in Moved /\ queue'["res"] = Append(queue["res"], b)
          /\ \A r \in Moved \ {"res"} : queue'[r] = queue[r]
      BY <1>5, PlaceFacts DEF Moved
    <2>4. Contents["res"] \cup {b} \subseteq Contents'["res"]
          /\ \A r \in Moved \ {"res"} : Contents'[r] = Contents[r]
      <3>1. Items(queue["res"]) \cup {b} \subseteq Items(queue'["res"])
        BY <1>2, <2>3, PlaceFacts, AppendAdds
      <3>2. Contents["res"] = Items(queue["res"]) /\ Contents'["res"] = Items(queue'["res"])
        BY <2>3, ContentsAre, ContentsBecome
      <3>3. \A r \in Moved \ {"res"} : Contents'[r] = Contents[r]
        BY <2>3, ContentsAre, ContentsBecome
      <3> QED BY <3>1, <3>2, <3>3
    <2>5. \A p \in Places \ {Hands(l), "res"} : Contents[p] \subseteq Contents'[p]
      BY <1>1, <2>1, <2>4, OtherHands
    <2>6. "res" \in Places /\ Hands(l) \in Places
      BY HandsOf
    <2> HIDE DEF b
    <2> QED BY <1>1, <1>2, <2>2, <2>4, <2>5, <2>6, MovesCovered DEF KInv
  <1> QED BY <1>1, <1>3, <1>4, <1>5 DEF Push

LEMMA CoveredKept == ASSUME IInv, JInv, KInv, [Next]_vars PROVE Covered'
  <1>0. opt' = opt
    BY NextKeeps DEF Quiet, Extends, Commits
  <1>1. CASE ~opt.hybrid
    BY <1>0, <1>1 DEF Covered
  <1>2. CASE opt.hybrid /\ Reading
    <2>1. UNCHANGED <<queue, held, next, inflight, ring>> /\ (failed => failed')
      BY <1>2 DEF Reading, ReadBlock, PopBlock, PopBlockWaits, PopBlockSleeps, StopIo, WakeIo, JoinIo,
         sync, order, GiveUp
    <2> QED BY <1>0, <2>1, UnmovedCovered DEF KInv
  <1>3. CASE opt.hybrid /\ Hybrid
    <2>1. CASE PushTask
      BY <1>0, <2>1, PushTaskCovered
    <2>2. CASE WriteBlock
      BY <1>0, <1>3, <2>2, WriteBlockCovered
    <2>3. CASE Drain \/ TryDrain
      <3>1. UNCHANGED <<next, inflight, held>>
        BY <2>3 DEF Drain, TryDrain
      <3>2. CASE queue["res"] # <<>> /\ Arrive(Head(queue["res"]))
        BY <1>0, <3>1, <3>2, ArriveCovered
      <3>3. CASE UNCHANGED <<queue, ring, failed>>
        BY <1>0, <3>1, <3>3, UnmovedCovered DEF KInv
      <3> QED BY <2>3, <3>2, <3>3 DEF Drain, TryDrain, PopClosed, PopSleep
    <2>4. CASE Top \/ Dispatch \/ Tried \/ WriteBlockFails \/ NothingToWrite \/ CloseAll
               \/ CloseTasks \/ FinalDrain \/ CloseResults \/ JoinLanes
      <3>1. UNCHANGED <<queue, held, next, inflight, ring>> /\ (failed => failed')
        BY <2>4 DEF Top, Dispatch, Tried, WriteBlockFails, NothingToWrite, CloseAll, CloseTasks,
           FinalDrain, CloseResults, JoinLanes, sync, order
      <3> QED BY <1>0, <3>1, UnmovedCovered DEF KInv
    <2> QED BY <1>3, <2>1, <2>2, <2>3, <2>4 DEF Hybrid
  <1>4. CASE opt.hybrid /\ Elsewhere
    <2>1. UNCHANGED <<next, inflight, ring>> /\ (failed => failed')
      BY <1>4, ElsewhereFrame DEF Aside
    <2>2. CASE Io \/ UNCHANGED vars
      <3>1. UNCHANGED <<queue, held>>
        BY <2>2, IoFrame DEF vars, sync
      <3> QED BY <1>0, <2>1, <3>1, UnmovedCovered DEF KInv
    <2>3. CASE Writer
      <3>1. queue' = queue \/ \E s : queue' = [queue EXCEPT !["tile"] = s]
        BY <2>3 DEF Writer, WriterPop, WriterAppend, WriterFail, PopItem, PopClosed, PopSleep, sync
      <3>2. held' = held \/ \E b : held' = [held EXCEPT !["writer"] = b]
        BY <2>3 DEF Writer, WriterPop, WriterAppend, WriterFail
      <3> QED BY <1>0, <2>1, <3>1, <3>2, TileQueue, WriterHand, UnmovedCovered DEF KInv
    <2>4. CASE \E l \in Lanes : LaneStep(l)
      <3> PICK l \in Lanes : LaneStep(l)
        BY <2>4
      <3>1. CASE LaneCheck(l) \/ LaneEncode(l) \/ LaneFail(l)
        <4>1. UNCHANGED <<queue, held>>
          BY <3>1 DEF LaneCheck, LaneEncode, LaneFail, sync
        <4> QED BY <1>0, <2>1, <4>1, UnmovedCovered DEF KInv
      <3> QED BY <1>0, <1>4, <3>1, LanePopCovered, LanePushCovered DEF LaneStep
    <2> QED BY <1>4, <2>2, <2>3, <2>4 DEF Elsewhere
  <1> QED BY <1>1, <1>2, <1>3, <1>4, Steps

LEMMA HandsKept == ASSUME IInv, JInv, KInv, [Next]_vars PROVE HandsFree'
  <1>0. HandsFree /\ pc \in [Threads -> Points] /\ Lanes \subseteq Threads
        /\ held \in [Lanes \cup {"writer"} -> Nat \cup {None}]
    BY PlaceFacts DEF KInv, IInv, Types, Threads, Lanes
  <1>1. CASE (\A l \in Lanes : pc'[l] = pc[l]) /\ (\A l \in Lanes : held'[l] = held[l])
    BY <1>0, <1>1 DEF HandsFree
  <1>2. CASE Reading \/ Hybrid \/ Plain
    <2>1. held' = held
      <3>1. CASE Reading
        BY <3>1 DEF Reading, ReadBlock, PopBlock, PopBlockWaits, PopBlockSleeps, StopIo, WakeIo, JoinIo
      <3>2. CASE Hybrid
        BY <3>2 DEF Hybrid, Top, Dispatch, PushTask, Drain, TryDrain, Tried, WriteBlock,
           WriteBlockFails, NothingToWrite, CloseAll, CloseTasks, FinalDrain, CloseResults, JoinLanes
      <3>3. CASE Plain
        BY <3>3 DEF Plain, PlainTop, EncodeTile, AppendTile, PushTile, TilePushed, NextTile,
           CommitBlock, FinishWriter, CloseTiles, JoinWriter
      <3> QED BY <1>2, <3>1, <3>2, <3>3
    <2>2. pc' = pc \/ \E p : Goto("main", p)
      <3>1. CASE Reading
        BY <3>1 DEF Reading, ReadBlock, PopBlock, PopBlockWaits, PopBlockSleeps, StopIo, WakeIo,
           JoinIo, GiveUp
      <3>2. CASE Hybrid
        BY <3>2 DEF Hybrid, Top, Dispatch, PushTask, Drain, TryDrain, Tried, WriteBlock,
           WriteBlockFails, NothingToWrite, CloseAll, CloseTasks, FinalDrain, CloseResults,
           JoinLanes, Push, Arrive, PopItem, PopClosed, PopSleep
      <3>3. CASE Plain
        BY <3>3 DEF Plain, PlainTop, EncodeTile, AppendTile, PushTile, TilePushed, NextTile,
           CommitBlock, FinishWriter, CloseTiles, JoinWriter, GiveUp, Push
      <3> QED BY <1>2, <3>1, <3>2, <3>3
    <2>3. \A l \in Lanes : pc'[l] = pc[l]
      BY <2>2, Goes DEF Threads, Lanes
    <2> QED BY <1>1, <2>1, <2>3
  <1>3. CASE Io \/ UNCHANGED vars
    <2>1. \A l \in Lanes : pc'[l] = pc[l]
      BY <1>3, IoFrame DEF Threads, Lanes, vars
    <2>2. held' = held
      BY <1>3, IoFrame DEF vars
    <2> QED BY <1>1, <2>1, <2>2
  <1>4. CASE Writer
    <2>1. held' = held \/ \E b : held' = [held EXCEPT !["writer"] = b]
      BY <1>4 DEF Writer, WriterPop, WriterAppend, WriterFail
    <2>2. \A l \in Lanes : pc'[l] = pc[l]
      BY <1>4, WriterFrame DEF Threads, Lanes
    <2> QED BY <1>1, <2>1, <2>2, WriterHand
  <1>5. CASE \E l \in Lanes : LaneStep(l)
    <2> PICK l \in Lanes : LaneStep(l)
      BY <1>5
    <2>1. /\ \A k \in Lanes \ {l} : pc'[k] = pc[k]
          /\ held' = held \/ \E b : held' = [held EXCEPT ![l] = b]
      BY <1>0, LaneFrame DEF LaneStep, LaneCheck, LanePop, LaneEncode, LaneFail, LanePush
    <2>2. \A k \in Lanes \ {l} : held'[k] = held[k]
      BY <1>0, <2>1
    <2>3. pc'[l] \in {"check", "pop"} => held'[l] = None
      <3>1. CASE LaneCheck(l)
        BY <1>0, <3>1 DEF LaneCheck, At, HandsFree
      <3>2. CASE LanePop(l)
        <4>1. pc[l] = "pop" /\ l \in Threads
          BY <1>0, <3>2 DEF LanePop, At
        <4>2. CASE PopItem(l, l, "encode")
          BY <4>1, <4>2, Goes DEF PopItem
        <4>3. CASE held' = held
          BY <1>0, <4>1, <4>3 DEF HandsFree
        <4> QED BY <3>2, <4>2, <4>3 DEF LanePop
      <3>3. CASE LaneEncode(l) \/ LaneFail(l)
        <4>1. \E p \in {"push", "fail", "exit"} : Goto(l, p)
          BY <3>3 DEF LaneEncode, LaneFail
        <4> QED BY <1>0, <4>1, Goes
      <3>4. CASE LanePush(l)
        <4>1. held' = IF pc'[l] = "push" THEN held ELSE [held EXCEPT ![l] = None]
          BY <3>4 DEF LanePush
        <4> QED BY <1>0, <4>1
      <3> QED BY <3>1, <3>2, <3>3, <3>4 DEF LaneStep
    <2> QED BY <1>0, <2>1, <2>2, <2>3 DEF HandsFree
  <1> QED BY <1>2, <1>3, <1>4, <1>5, Steps DEF Elsewhere

LEMMA KInitHolds == Init => KInv
  <1> SUFFICES ASSUME Init PROVE KInv
    OBVIOUS
  <1>1. HandsFree
    BY DEF Init, HandsFree, Lanes
  <1>2. Span = {}
    <2>1. next \in Nat /\ inflight = 0
      BY ConstFacts DEF Init
    <2> QED BY <2>1 DEF Span
  <1> QED BY <1>1, <1>2 DEF KInv, Covered

-----------------------------------------------------------------------------
(* A block of the span has exactly one place *)

\* What it is to be a place of b.
LEMMA PlaceIs ==
    ASSUME IInv, NEW b \in Block, NEW x \in PlacesOf(b)
    PROVE  \/ \E q \in Moved, i \in 1 .. Depth : x = <<q, i>> /\ i <= Len(queue[q]) /\ queue[q][i] = b
           \/ \E l \in Lanes : x = <<l, 0>> /\ held[l] = b
           \/ \E s \in 0 .. Depth - 1 : x = <<"ring", s>> /\ ring[s] = b
  <1>1. CASE x \in {p \in (Lanes \cup {"res"}) \X (1 .. Depth) :
                        p[2] <= Len(queue[p[1]]) /\ queue[p[1]][p[2]] = b}
    <2>1. PICK q \in Lanes \cup {"res"}, i \in 1 .. Depth : x = <<q, i>>
      BY <1>1
    <2>2. i <= Len(queue[q]) /\ queue[q][i] = b
      BY <1>1, <2>1
    <2>3. q \in Moved
      BY DEF Moved, Lanes
    <2> QED BY <2>1, <2>2, <2>3
  <1>2. CASE x \in {<<l, 0>> : l \in {l \in Lanes : held[l] = b}}
    BY <1>2
  <1>3. CASE x \in {<<"ring", s>> : s \in {s \in DOMAIN ring : ring[s] = b}}
    <2>1. DOMAIN ring = 0 .. Depth - 1
      BY DEF IInv, Types
    <2> QED BY <1>3, <2>1
  <1> QED BY <1>1, <1>2, <1>3 DEF PlacesOf

LEMMA IsPlace ==
    ASSUME IInv, NEW b \in Block
    PROVE  /\ \A q \in Moved, i \in 1 .. Depth :
                i <= Len(queue[q]) /\ queue[q][i] = b => <<q, i>> \in PlacesOf(b)
           /\ \A l \in Lanes : held[l] = b => <<l, 0>> \in PlacesOf(b)
           /\ \A s \in 0 .. Depth - 1 : ring[s] = b => <<"ring", s>> \in PlacesOf(b)
  <1>1. \A q \in Moved, i \in 1 .. Depth :
            i <= Len(queue[q]) /\ queue[q][i] = b => <<q, i>> \in PlacesOf(b)
    <2> SUFFICES ASSUME NEW q \in Moved, NEW i \in 1 .. Depth, i <= Len(queue[q]), queue[q][i] = b
                 PROVE  <<q, i>> \in PlacesOf(b)
      OBVIOUS
    <2>1. <<q, i>> \in (Lanes \cup {"res"}) \X (1 .. Depth)
      BY DEF Moved, Lanes
    <2> QED BY <2>1 DEF PlacesOf
  <1>2. \A l \in Lanes : held[l] = b => <<l, 0>> \in PlacesOf(b)
    BY DEF PlacesOf
  <1>3. \A s \in 0 .. Depth - 1 : ring[s] = b => <<"ring", s>> \in PlacesOf(b)
    <2>1. DOMAIN ring = 0 .. Depth - 1
      BY DEF IInv, Types
    <2> QED BY <2>1 DEF PlacesOf
  <1> QED BY <1>1, <1>2, <1>3

\* The part of the system a place belongs to.
LEMMA PlaceIsIn ==
    ASSUME IInv, JInv, NEW b \in Block
    PROVE  /\ \A q \in Moved, i \in 1 .. Depth :
                i <= Len(queue[q]) /\ queue[q][i] = b => b \in Contents[q]
           /\ \A l \in Lanes : held[l] = b => b \in Contents[Hands(l)]
           /\ \A s \in 0 .. Depth - 1 : ring[s] = b => b \in Contents["ring"]
  <1>0. b # None
    BY ConstFacts DEF Block
  <1>1. \A q \in Moved, i \in 1 .. Depth : i <= Len(queue[q]) /\ queue[q][i] = b => b \in Contents[q]
    <2> SUFFICES ASSUME NEW q \in Moved, NEW i \in 1 .. Depth, i <= Len(queue[q]), queue[q][i] = b
                 PROVE  b \in Contents[q]
      OBVIOUS
    <2>1. i \in 1 .. Len(queue[q])
      BY QueueFits, ConstFacts
    <2> QED BY <2>1, ContentsAre DEF Items
  <1>2. \A l \in Lanes : held[l] = b => b \in Contents[Hands(l)]
    BY <1>0, HandsOf
  <1>3. \A s \in 0 .. Depth - 1 : ring[s] = b => b \in Contents["ring"]
    BY <1>0, ContentsAre
  <1> QED BY <1>1, <1>2, <1>3

LEMMA AtMostOnePlace ==
    ASSUME IInv, JInv, NEW b \in Block, NEW x \in PlacesOf(b), NEW y \in PlacesOf(b)
    PROVE  x = y
  <1>0. /\ \A q \in Moved : q \in Places /\ q # "ring"
        /\ \A l \in Lanes : Hands(l) \in Places /\ Hands(l) # "ring" /\ Hands(l) \notin Moved
        /\ Hands("gpu") # Hands("cpu") /\ "ring" \in Places
    BY HandsOf DEF Places, Moved, Hands
  <1>1. \A j, k \in Places : b \in Contents[j] /\ b \in Contents[k] => j = k
    BY PlaceFacts DEF Apart
  <1>2. ASSUME NEW q \in Moved, NEW i \in 1 .. Depth, i <= Len(queue[q]), queue[q][i] = b,
               NEW r \in Moved, NEW j \in 1 .. Depth, j <= Len(queue[r]), queue[r][j] = b
        PROVE  q = r /\ i = j
    <2>1. q = r
      BY <1>0, <1>1, <1>2, PlaceIsIn
    <2>2. i \in 1 .. Len(queue[q]) /\ j \in 1 .. Len(queue[q]) /\ queue[q][i] = queue[q][j]
      BY <1>2, <2>1, QueueFits, ConstFacts
    <2> QED BY <2>1, <2>2, PlaceFacts DEF OneEach
  <1>3. ASSUME NEW l \in Lanes, held[l] = b, NEW k \in Lanes, held[k] = b PROVE l = k
    BY <1>0, <1>1, <1>3, PlaceIsIn DEF Lanes
  <1>4. ASSUME NEW s \in 0 .. Depth - 1, ring[s] = b, NEW t \in 0 .. Depth - 1, ring[t] = b PROVE s = t
    <2>1. b # None
      BY ConstFacts DEF Block
    <2> QED BY <1>4, <2>1 DEF IInv, Stored, RingInPlace
  <1>5. ASSUME NEW q \in Moved, NEW i \in 1 .. Depth, i <= Len(queue[q]), queue[q][i] = b
        PROVE  (\A l \in Lanes : held[l] # b) /\ (\A s \in 0 .. Depth - 1 : ring[s] # b)
    BY <1>0, <1>1, <1>5, PlaceIsIn
  <1>6. ASSUME NEW l \in Lanes, held[l] = b
        PROVE  \A s \in 0 .. Depth - 1 : ring[s] # b
    BY <1>0, <1>1, <1>6, PlaceIsIn
  <1>7. CASE \E q \in Moved, i \in 1 .. Depth : x = <<q, i>> /\ i <= Len(queue[q]) /\ queue[q][i] = b
    BY <1>2, <1>5, <1>7, PlaceIs
  <1>8. CASE \E l \in Lanes : x = <<l, 0>> /\ held[l] = b
    BY <1>3, <1>5, <1>6, <1>8, PlaceIs
  <1>9. CASE \E s \in 0 .. Depth - 1 : x = <<"ring", s>> /\ ring[s] = b
    BY <1>4, <1>5, <1>6, <1>9, PlaceIs
  <1> QED BY <1>7, <1>8, <1>9, PlaceIs

\* A block has a place just when it is somewhere.
LEMMA PlacedIsSomewhere ==
    ASSUME IInv, JInv, NEW b \in Block
    PROVE  PlacesOf(b) # {} <=> \E k \in Places : b \in Contents[k]
  <1>1. ASSUME NEW x \in PlacesOf(b) PROVE \E k \in Places : b \in Contents[k]
    BY PlaceIs, PlaceIsIn, HandsOf DEF Places
  <1>2. ASSUME NEW k \in Places, b \in Contents[k] PROVE PlacesOf(b) # {}
    <2>1. CASE k \in Moved
      <3>1. PICK i \in 1 .. Len(queue[k]) : queue[k][i] = b
        BY <1>2, <2>1, ContentsAre DEF Items
      <3>2. i \in 1 .. Depth /\ i <= Len(queue[k])
        BY <2>1, QueueFits, PlaceFacts, ConstFacts
      <3> QED BY <2>1, <3>1, <3>2, IsPlace
    <2>2. CASE k = "gpuhands"
      <3>1. held["gpu"] = b /\ "gpu" \in Lanes
        BY <1>2, <2>2, ContentsAre DEF Lanes
      <3> QED BY <3>1, IsPlace
    <2>3. CASE k = "cpuhands"
      <3>1. held["cpu"] = b /\ "cpu" \in Lanes
        BY <1>2, <2>3, ContentsAre DEF Lanes
      <3> QED BY <3>1, IsPlace
    <2>4. CASE k = "ring"
      <3>1. \E s \in 0 .. Depth - 1 : ring[s] = b
        BY <1>2, <2>4, ContentsAre
      <3> QED BY <3>1, IsPlace
    <2> QED BY <2>1, <2>2, <2>3, <2>4 DEF Places
  <1> QED BY <1>1, <1>2

LEMMA OnePlaceEach == ASSUME IInv, JInv, KInv PROVE EveryBlockInOnePlace
  <1> SUFFICES ASSUME opt.hybrid, ~failed
               PROVE  /\ inflight = HandedOut - next + 1
                      /\ \A b \in Block : Cardinality(PlacesOf(b)) = (IF b \in next .. HandedOut THEN 1 ELSE 0)
    BY DEF EveryBlockInOnePlace
  <1>1. next + inflight = HandedOut + 1 /\ next \in Nat /\ inflight \in Nat /\ HandedOut \in Int
    <2>1. next + inflight = HandedOut + 1 /\ bid \in Nat
      BY ConstFacts DEF JInv, Pace, IInv, Path, Locals
    <2>2. HandedOut \in Int
      BY <2>1 DEF HandedOut
    <2> QED BY <2>1, <2>2, PlaceFacts
  <1>2. inflight = HandedOut - next + 1 /\ Span = next .. HandedOut
    <2>1. (next + inflight) - 1 = HandedOut
      BY <1>1
    <2> QED BY <1>1, <2>1 DEF Span
  <1>3. ASSUME NEW b \in Block
        PROVE  Cardinality(PlacesOf(b)) = (IF b \in Span THEN 1 ELSE 0)
    <2>1. b \in Span <=> PlacesOf(b) # {}
      BY PlacedIsSomewhere, PlaceFacts DEF KInv, Covered
    <2>2. CASE PlacesOf(b) = {}
      BY <2>1, <2>2, FS_EmptySet
    <2>3. CASE PlacesOf(b) # {}
      <3>1. PICK x : x \in PlacesOf(b)
        BY <2>3
      <3>2. PlacesOf(b) = {x}
        BY <3>1, AtMostOnePlace
      <3>3. Cardinality({x}) = 1
        BY FS_Singleton
      <3> QED BY <2>1, <2>3, <3>2, <3>3
    <2> QED BY <2>2, <2>3
  <1> QED BY <1>2, <1>3

LEMMA InductivePlaces == Spec => [](IInv /\ JInv /\ KInv)
  <1>1. Init => KInv
    BY KInitHolds
  <1>2. IInv /\ JInv /\ KInv /\ [Next]_vars => KInv'
    BY HandsKept, CoveredKept DEF KInv
  <1> QED BY <1>1, <1>2, InductiveWindow, PTL DEF Spec

\* A block that was handed out and is not written is in exactly one place, a
\* queue, a lane's hands or the ring, and inflight counts such blocks: none is
\* lost and none is written twice, as long as nothing has failed.
THEOREM BlocksAreConserved == Spec => []EveryBlockInOnePlace
  <1>1. IInv /\ JInv /\ KInv => EveryBlockInOnePlace
    BY OnePlaceEach
  <1> QED BY <1>1, InductivePlaces, PTL
===============================================================================
