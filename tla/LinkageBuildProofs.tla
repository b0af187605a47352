--------------------------- MODULE LinkageBuildProofs ---------------------------
(***************************************************************************)
(* LinkageBuild's invariants, for any number of clusters, workers, streams *)
(* and restarts.  One lemma per action shows that it preserves IInv.  The  *)
(* actions of a worker inside its cluster share BusyStepKeeps, which       *)
(* leaves to each of them the types, the cursor, the disjointness of the   *)
(* extents and what its own worker knows; what the other workers and the   *)
(* published clusters know survives because the step writes only into its  *)
(* own cluster's slots and into bytes nobody has written (PayloadKept).    *)
(***************************************************************************)
EXTENDS LinkageBuild, TLAPS

(* The ranges of the constants, and the types of the content functions. *)
LEMMA ConstFacts ==
    /\ Cids \subseteq Nat
    /\ Streams \subseteq Nat \ {0}
    /\ ListFiles \subseteq Nat \ {0}
    /\ 1 \in Streams /\ 1 \in ListFiles /\ 0 \in Cids
    /\ \A c \in Cids, s \in Streams, q \in Knobs : PayloadBytes[q, c, s] \in Nat
    /\ \A c \in Cids : NReal[c] \in Nat
  <1>1. Cids \subseteq Nat /\ 0 \in Cids
    BY SizesAssumption DEF Cids
  <1>2. Streams \subseteq Nat \ {0} /\ 1 \in Streams
    BY SizesAssumption DEF Streams
  <1>3. ListFiles \subseteq Nat \ {0} /\ 1 \in ListFiles
    BY SizesAssumption DEF ListFiles
  <1>4. \A c \in Cids, s \in Streams, q \in Knobs : PayloadBytes[q, c, s] \in Nat
    BY ContentAssumption
  <1>5. \A c \in Cids : NReal[c] \in Nat
    BY ContentAssumption
  <1> QED BY <1>1, <1>2, <1>3, <1>4, <1>5

PayloadKept ==
    /\ DOMAIN payload \subseteq DOMAIN payload'
    /\ \A i \in DOMAIN payload : payload'[i] = payload[i]

(* A written stream stays readable when no byte of the payload file changes and
   its own slots are left alone. *)
LEMMA StreamKept ==
    ASSUME NEW c \in Cids, NEW s \in Streams, NEW q \in Knobs,
           PayloadKept, StreamIntact(c, s, q),
           lens'[<<c, s>>] = lens[<<c, s>>],
           offs'[<<c, s>>] = offs[<<c, s>>],
           sizes'[<<c, s>>] = sizes[<<c, s>>]
    PROVE  StreamIntact(c, s, q)'
  BY DEF StreamIntact, PayloadKept

(* The same for the whole codec record of a cluster. *)
LEMMA CodecKept ==
    ASSUME NEW c \in Cids, NEW q \in Knobs,
           PayloadKept, CodecIntact(c, q), scales'[c] = scales[c],
           \A s \in Streams : /\ lens'[<<c, s>>] = lens[<<c, s>>]
                              /\ offs'[<<c, s>>] = offs[<<c, s>>]
                              /\ sizes'[<<c, s>>] = sizes[<<c, s>>]
    PROVE  CodecIntact(c, q)'
  BY StreamKept DEF CodecIntact

-----------------------------------------------------------------------------
(* What a step of one worker leaves alone *)

Untouched(c) ==
    /\ listData'[c] = listData[c]
    /\ statsFile'[c] = statsFile[c]
    /\ clusterReal'[c] = clusterReal[c]
    /\ scales'[c] = scales[c]
    /\ \A s \in Streams : /\ lens'[<<c, s>>] = lens[<<c, s>>]
                          /\ offs'[<<c, s>>] = offs[<<c, s>>]
                          /\ sizes'[<<c, s>>] = sizes[<<c, s>>]

WorkerKept(v) ==
    pc'[v] = pc[v] /\ cid'[v] = cid[v] /\ k'[v] = k[v] /\ off'[v] = off[v] /\ pos'[v] = pos[v]

\* The rest of a worker's extent is still free after the step.
StillFree(v) ==
    pc[v] = "payload" =>
        \A i \in Extent(off[v] + pos[v], Size(cid[v], k[v]) - pos[v]) : i \notin DOMAIN payload'

(* A published cluster that a step does not touch stays complete. *)
LEMMA CompleteKept ==
    ASSUME NEW c \in Cids, PayloadKept, Untouched(c), Complete(c)
    PROVE  Complete(c)'
  <1>1. PICK q \in Knobs : CodecIntact(c, q)
    BY DEF Complete
  <1>2. CodecIntact(c, q)'
    BY <1>1, CodecKept DEF Untouched
  <1> QED BY <1>2 DEF Complete, ListIntact, Untouched

(* A worker that a step does not touch keeps its invariant. *)
LEMMA OtherWorker ==
    ASSUME TypeOK, NEW v \in Workers, WorkerInv(v), WorkerKept(v), StillFree(v),
           PayloadKept, Untouched(cid[v]), knob' = knob, cursor' \in Nat, cursor <= cursor'
    PROVE  WorkerInv(v)'
  <1>1. /\ cid[v] \in Cids /\ knob \in Knobs /\ cursor \in Nat /\ off[v] \in Nat
        /\ \A s \in Streams : Size(cid[v], s) \in Nat
    BY ConstFacts DEF TypeOK, Size
  <1>2. pc'[v] = pc[v] /\ cid'[v] = cid[v] /\ k'[v] = k[v] /\ off'[v] = off[v] /\ pos'[v] = pos[v]
    BY DEF WorkerKept
  <1>3. LoopInv(v)'
    BY <1>2 DEF WorkerInv, LoopInv, InStream
  <1>4. CodecInv(v)'
    <2>1. ASSUME NEW s \in Streams, StreamIntact(cid[v], s, knob)
          PROVE  StreamIntact(cid[v], s, knob)'
      BY <1>1, <1>2, <2>1 DEF Untouched, StreamIntact, PayloadKept, Extent
    <2>2. CodecIntact(cid[v], knob) => CodecIntact(cid[v], knob)'
      BY <1>1, <1>2, <2>1 DEF Untouched, CodecIntact
    <2>3. InStream(v) => k[v] \in Streams
      BY DEF WorkerInv, LoopInv
    <2>4. InStream(v)' =>
             /\ scales'[cid'[v]] = knob'
             /\ \A s \in Streams : s < k'[v] => StreamIntact(cid[v], s, knob)'
      BY <1>1, <1>2, <2>1 DEF WorkerInv, CodecInv, InStream, Untouched
    <2>5. InStream(v)' /\ pc'[v] # "lens" => lens'[<<cid'[v], k'[v]>>] = knob'
      BY <1>1, <1>2, <2>3 DEF WorkerInv, CodecInv, InStream, Untouched
    <2>6. pc'[v] = "sizes" => offs'[<<cid'[v], k'[v]>>] = off'[v]
      BY <1>1, <1>2, <2>3 DEF WorkerInv, CodecInv, InStream, CodecPoints, Untouched
    <2>7. pc'[v] \in {"list", "stats", "mark"} => CodecIntact(cid[v], knob)'
      BY <1>2, <2>2 DEF WorkerInv, CodecInv
    <2> QED BY <2>4, <2>5, <2>6, <2>7 DEF CodecInv
  <1>5. ListInv(v)'
    BY <1>2 DEF WorkerInv, ListInv, ListIntact, Untouched
  <1>6. StatsInv(v)'
    BY <1>1, <1>2 DEF WorkerInv, StatsInv, Busy, Untouched
  <1>7. ExtentInv(v)'
    <2>1. Size(cid[v], k[v])' = Size(cid[v], k[v]) /\ Tag(cid[v], k[v])' = Tag(cid[v], k[v])
      BY <1>2 DEF Size, Tag
    <2>2. \A first, n : Holds(v, first, n) =>
             \A i \in Extent(first, n) : i \in DOMAIN payload' /\ payload'[i] = Tag(cid[v], k[v])'
      BY <2>1 DEF Holds, PayloadKept
    <2>3. pc[v] = "payload" => k[v] \in Streams
      BY DEF WorkerInv, LoopInv, InStream, CodecPoints
    <2> QED BY <1>1, <1>2, <2>1, <2>2, <2>3 DEF WorkerInv, ExtentInv, StillFree, Holds
  <1> QED BY <1>3, <1>4, <1>5, <1>6, <1>7 DEF WorkerInv

\* A step of a worker inside its cluster.
BusyStep(w) ==
    /\ Busy(w) /\ Busy(w)'
    /\ UNCHANGED <<doneFile, listMeta, phase, knob, ok, nextCid>>
    /\ cid'[w] = cid[w]
    /\ cursor <= cursor'
    /\ PayloadKept
    /\ \A v \in Workers : v # w => WorkerKept(v) /\ StillFree(v)
    /\ \A c \in Cids : c # cid[w] => Untouched(c)

(* A step inside a cluster preserves the invariant when it preserves the
   types, the cursor, the disjointness of extents and the worker's own part. *)
LEMMA BusyStepKeeps ==
    ASSUME IInv, NEW w \in Workers, BusyStep(w), TypeOK', CursorInv', DisjointInv', WorkerInv(w)'
    PROVE  IInv'
  <1>1. cid[w] \in Cids /\ \A v \in Workers : cid[v] \in Cids
    BY DEF IInv, TypeOK
  <1>2. \A v \in Workers : v # w => pc'[v] = pc[v] /\ cid'[v] = cid[v]
    BY DEF BusyStep, WorkerKept
  <1>3. Busy(w) /\ Busy(w)' /\ cid'[w] = cid[w]
    BY DEF BusyStep
  <1>4. PhaseInv'
    BY <1>2, <1>3 DEF IInv, BusyStep, PhaseInv, Busy, BusyPoints, CodecPoints
  <1>5. \A v \in Workers : Busy(v)' <=> Busy(v)
    BY <1>2, <1>3 DEF Busy
  <1>6. ClaimInv'
    <2>1. \A v \in Workers : cid'[v] = cid[v]
      BY <1>2, <1>3
    <2>2. \A v \in Workers : pc'[v] = "exit" => pc[v] = "exit"
      BY <1>2, <1>3 DEF Busy, BusyPoints, CodecPoints
    <2> QED BY <1>5, <2>1, <2>2 DEF IInv, ClaimInv, BusyStep
  <1>7. \A c \in Cids : doneFile[c] => c # cid[w]
    BY <1>3 DEF IInv, ClaimInv
  <1>8. DoneIsComplete'
    BY <1>7, CompleteKept DEF IInv, DoneIsComplete, BusyStep
  <1>9. MemoryInv'
    BY <1>7 DEF IInv, MemoryInv, BusyStep, Untouched
  <1>10. MetaMeansAllDone'
    BY DEF IInv, MetaMeansAllDone, BusyStep
  <1>11. StatsOfAllClusters'
    <2>1. pc[w] # "off"
      BY <1>3 DEF Busy, BusyPoints, CodecPoints
    <2>2. phase = "running" /\ phase' = phase
      BY <2>1 DEF IInv, PhaseInv, BusyStep
    <2> QED BY <2>2 DEF StatsOfAllClusters
  <1>12. \A v \in Workers : v # w => WorkerInv(v)'
    <2> SUFFICES ASSUME NEW v \in Workers, v # w PROVE WorkerInv(v)'
      OBVIOUS
    <2>1. CASE Busy(v)
      <3>1. cid[v] # cid[w]
        BY <2>1, <1>3 DEF IInv, ClaimInv
      <3>2. Untouched(cid[v]) /\ WorkerKept(v) /\ StillFree(v) /\ PayloadKept
        BY <1>1, <3>1 DEF BusyStep
      <3>3. knob' = knob /\ cursor <= cursor' /\ cursor' \in Nat
        BY DEF BusyStep, TypeOK
      <3> QED BY <3>2, <3>3, OtherWorker DEF IInv
    <2>2. CASE ~Busy(v)
      <3>1. pc'[v] = pc[v] /\ ~Busy(v)
        BY <1>2, <2>2
      <3> QED BY <3>1 DEF WorkerInv, LoopInv, CodecInv, ListInv, StatsInv, ExtentInv,
                          Busy, InStream, BusyPoints, CodecPoints
    <2> QED BY <2>1, <2>2
  <1> QED BY <1>4, <1>6, <1>8, <1>9, <1>10, <1>11, <1>12 DEF IInv

-----------------------------------------------------------------------------
(* The initial states *)

(* IInv holds of an empty directory with no process running. *)
LEMMA InitIInv == Init => IInv
  <1> SUFFICES ASSUME Init PROVE IInv
    OBVIOUS
  <1>1. TypeOK
    <2>1. DOMAIN payload = {} /\ payload \in [DOMAIN payload -> Knobs \X Cids \X Streams]
      BY DEF Init, NoPayload
    <2>2. /\ doneFile \in [Cids -> BOOLEAN] /\ statsFile \in [Cids -> Nat]
          /\ listData \in [Cids -> SUBSET ListFiles] /\ listMeta \in BOOLEAN
          /\ scales \in [Cids -> Knobs \cup {None}] /\ lens \in [Slots -> Knobs \cup {None}]
      BY DEF Init, ZeroStats
    <2>3. /\ payloadLen \in Nat /\ offs \in [Slots -> Nat] /\ sizes \in [Slots -> Nat]
          /\ phase \in {"down", "running", "finished"} /\ starts \in 0 .. MaxStarts
          /\ knob \in Knobs /\ ok \in BOOLEAN
      BY SizesAssumption DEF Init
    <2>4. /\ nextCid \in Nat /\ cursor \in Nat /\ clusterReal \in [Cids -> Nat]
          /\ pc \in [Workers -> Points] /\ cid \in [Workers -> Cids]
          /\ k \in [Workers -> Nat \ {0}] /\ off \in [Workers -> Nat] /\ pos \in [Workers -> Nat]
      BY ConstFacts DEF Init, ZeroStats, Points
    <2> QED BY <2>1, <2>2, <2>3, <2>4 DEF TypeOK
  <1>2. \A w \in Workers : pc[w] = "off"
    BY DEF Init
  <1>3. \A c \in Cids : ~(c < nextCid)
    BY DEF Init, Cids
  <1>4. PhaseInv /\ ClaimInv /\ DisjointInv
    BY <1>2, <1>3 DEF Init, PhaseInv, ClaimInv, DisjointInv, Busy, BusyPoints, CodecPoints
  <1>5. \A w \in Workers : WorkerInv(w)
    BY <1>2 DEF WorkerInv, LoopInv, CodecInv, ListInv, StatsInv, ExtentInv, Busy, InStream,
                BusyPoints, CodecPoints
  <1>6. CursorInv /\ MemoryInv /\ MetaMeansAllDone /\ StatsOfAllClusters
    BY DEF Init, CursorInv, MemoryInv, MetaMeansAllDone, StatsOfAllClusters
  <1>7. DoneIsComplete
    BY DEF Init, DoneIsComplete
  <1> QED BY <1>1, <1>4, <1>5, <1>6, <1>7 DEF IInv

-----------------------------------------------------------------------------
(* The steps of a worker inside its cluster *)

(* Building a cluster in memory preserves IInv. *)
LEMMA ComputeClusterStep ==
    ASSUME IInv, NEW w \in Workers, ComputeCluster(w) PROVE IInv'
  <1> USE DEF ComputeCluster, Goto, disk
  <1>T. TypeOK BY DEF IInv
  <1>1. cid[w] \in Cids /\ NReal[cid[w]] \in Nat
    BY <1>T, ConstFacts DEF TypeOK
  <1>2. TypeOK'
    BY <1>T, <1>1 DEF TypeOK, Points, BusyPoints, CodecPoints
  <1>3. BusyStep(w)
    BY <1>T, <1>1 DEF TypeOK, BusyStep, Busy, BusyPoints, CodecPoints, PayloadKept, WorkerKept,
                      StillFree, Untouched, IInv, WorkerInv, ExtentInv
  <1>4. CursorInv'
    BY DEF IInv, CursorInv
  <1>5. DisjointInv'
    BY <1>T DEF TypeOK, IInv, DisjointInv, Size
  <1>6. WorkerInv(w)'
    BY <1>T, <1>1 DEF TypeOK, WorkerInv, LoopInv, CodecInv, ListInv, StatsInv, ExtentInv, Busy,
                InStream, BusyPoints, CodecPoints
  <1> QED BY <1>2, <1>3, <1>4, <1>5, <1>6, BusyStepKeeps

(* Writing the scales of a cluster, the first of its writes, preserves IInv. *)
LEMMA WriteScalesStep ==
    ASSUME IInv, NEW w \in Workers, WriteScales(w) PROVE IInv'
  <1> USE DEF WriteScales, Goto, process
  <1>T. TypeOK BY DEF IInv
  <1>1. cid[w] \in Cids /\ knob \in Knobs
    BY <1>T DEF TypeOK
  <1>2. TypeOK'
    BY <1>T, <1>1 DEF TypeOK, Points, BusyPoints, CodecPoints
  <1>3. BusyStep(w)
    BY <1>T, <1>1 DEF TypeOK, BusyStep, Busy, BusyPoints, CodecPoints, PayloadKept, WorkerKept,
                      StillFree, Untouched, IInv, WorkerInv, ExtentInv
  <1>4. CursorInv'
    BY DEF IInv, CursorInv
  <1>5. DisjointInv'
    BY <1>T DEF TypeOK, IInv, DisjointInv, Size
  <1>6. WorkerInv(w)'
    <2>1. pc'[w] = "lens" /\ k'[w] = 1 /\ cid'[w] = cid[w] /\ scales'[cid[w]] = knob
      BY <1>T, <1>1 DEF TypeOK
    <2>2. \A s \in Streams : ~(s < 1)
      BY DEF Streams
    <2>3. clusterReal[cid[w]] = NReal[cid[w]]
      BY DEF IInv, WorkerInv, StatsInv, Busy, BusyPoints, CodecPoints
    <2> QED BY <2>1, <2>2, <2>3, ConstFacts DEF WorkerInv, LoopInv, CodecInv, ListInv, StatsInv,
                ExtentInv, InStream, CodecPoints
  <1> QED BY <1>2, <1>3, <1>4, <1>5, <1>6, BusyStepKeeps

(* Writing the code lengths of a stream preserves IInv. *)
LEMMA WriteLensStep ==
    ASSUME IInv, NEW w \in Workers, WriteLens(w) PROVE IInv'
  <1> USE DEF WriteLens, Goto, process
  <1>T. TypeOK BY DEF IInv
  <1>1. cid[w] \in Cids /\ knob \in Knobs /\ k[w] \in Streams /\ <<cid[w], k[w]>> \in Slots
    BY <1>T DEF TypeOK, IInv, WorkerInv, LoopInv, InStream, CodecPoints, Slots
  <1>2. TypeOK'
    BY <1>T, <1>1 DEF TypeOK, Points, BusyPoints, CodecPoints
  <1>3. BusyStep(w)
    <2>1. \A c \in Cids, s \in Streams : c # cid[w] => lens'[<<c, s>>] = lens[<<c, s>>]
      BY <1>T, <1>1 DEF TypeOK, Slots
    <2> QED BY <1>T, <1>1, <2>1 DEF TypeOK, BusyStep, Busy, BusyPoints, CodecPoints, PayloadKept,
                WorkerKept, StillFree, Untouched, IInv, WorkerInv, ExtentInv
  <1>4. CursorInv'
    BY DEF IInv, CursorInv
  <1>5. DisjointInv'
    BY <1>T DEF TypeOK, IInv, DisjointInv, Size
  <1>6. WorkerInv(w)'
    <2>1. pc'[w] = "reserve" /\ k' = k /\ cid' = cid /\ knob' = knob
      BY <1>T DEF TypeOK
    <2>2. lens'[<<cid[w], k[w]>>] = knob /\ scales'[cid[w]] = knob
      BY <1>T, <1>1 DEF TypeOK, IInv, WorkerInv, CodecInv, InStream, CodecPoints
    <2>3. ASSUME NEW s \in Streams, s < k[w] PROVE StreamIntact(cid[w], s, knob)'
      <3>1. StreamIntact(cid[w], s, knob)
        BY <2>3 DEF IInv, WorkerInv, CodecInv, InStream, CodecPoints
      <3>2. s # k[w] /\ <<cid[w], s>> \in Slots
        BY <2>3, <1>1 DEF Slots, Streams
      <3>3. lens'[<<cid[w], s>>] = lens[<<cid[w], s>>]
        BY <1>T, <3>2 DEF TypeOK
      <3> QED BY <2>1, <3>1, <3>3 DEF StreamIntact
    <2>4. clusterReal[cid[w]] = NReal[cid[w]]
      BY DEF IInv, WorkerInv, StatsInv, Busy, BusyPoints, CodecPoints
    <2> QED BY <1>1, <2>1, <2>2, <2>3, <2>4 DEF WorkerInv, LoopInv, CodecInv, ListInv, StatsInv,
                ExtentInv, InStream, CodecPoints
  <1> QED BY <1>2, <1>3, <1>4, <1>5, <1>6, BusyStepKeeps

(* Reserving an extent preserves IInv: the cursor is past the end of the file and
   past every reserved extent, so the new one is free and disjoint from theirs. *)
LEMMA ReserveExtentStep ==
    ASSUME IInv, NEW w \in Workers, ReserveExtent(w) PROVE IInv'
  <1> USE DEF ReserveExtent, Goto, disk
  <1>T. TypeOK BY DEF IInv
  <1>1. cid[w] \in Cids /\ knob \in Knobs /\ k[w] \in Streams /\ cursor \in Nat
    BY <1>T DEF TypeOK, IInv, WorkerInv, LoopInv, InStream, CodecPoints
  <1>2. Size(cid[w], k[w]) \in Nat
    BY <1>1, ConstFacts DEF Size
  <1>3. TypeOK'
    BY <1>T, <1>1, <1>2 DEF TypeOK, Points, BusyPoints, CodecPoints
  <1>4. BusyStep(w)
    BY <1>T, <1>1, <1>2 DEF TypeOK, BusyStep, Busy, BusyPoints, CodecPoints, PayloadKept, WorkerKept,
                      StillFree, Untouched, IInv, WorkerInv, ExtentInv
  <1>5. CursorInv'
    BY <1>T, <1>1, <1>2 DEF TypeOK, IInv, CursorInv
  <1>r. phase = "running"
    BY DEF IInv, PhaseInv
  <1>6. DisjointInv'
    <2>1. \A v \in Workers : v # w /\ pc[v] = "payload" => off[v] + Size(cid[v], k[v]) <= cursor
      BY DEF IInv, WorkerInv, ExtentInv
    <2>2. \A v \in Workers : v # w => pc'[v] = pc[v] /\ off'[v] = off[v]
      BY <1>T DEF TypeOK
    <2>3. off'[w] = cursor /\ cid' = cid /\ k' = k /\ knob' = knob
      BY <1>T DEF TypeOK
    <2>4. \A v \in Workers : Size(cid[v], k[v])' = Size(cid[v], k[v])
      BY <2>3 DEF Size
    <2> SUFFICES ASSUME NEW u \in Workers, NEW v \in Workers, u # v,
                        pc'[u] = "payload", pc'[v] = "payload"
                 PROVE  \/ off'[u] + Size(cid[u], k[u]) <= off'[v]
                        \/ off'[v] + Size(cid[v], k[v]) <= off'[u]
      BY <2>4 DEF DisjointInv
    <2>5. CASE u = w
      BY <2>1, <2>2, <2>3, <2>5
    <2>6. CASE v = w
      BY <2>1, <2>2, <2>3, <2>6
    <2>7. CASE u # w /\ v # w
      <3>1. pc[u] = "payload" /\ pc[v] = "payload" /\ off'[u] = off[u] /\ off'[v] = off[v]
        BY <2>2, <2>7
      <3> QED BY <3>1 DEF IInv, DisjointInv
    <2> QED BY <2>5, <2>6, <2>7
  <1>7. WorkerInv(w)'
    <2>1. /\ k' = k /\ cid' = cid /\ knob' = knob /\ off'[w] = cursor /\ pos'[w] = 0
          /\ pc'[w] = IF Size(cid[w], k[w]) > 0 THEN "payload" ELSE "offs"
          /\ cursor' = cursor + Size(cid[w], k[w])
      BY <1>T DEF TypeOK
    <2>2. LoopInv(w)' /\ ListInv(w)' /\ StatsInv(w)'
      BY <1>1, <2>1 DEF IInv, WorkerInv, LoopInv, ListInv, StatsInv, Busy, InStream, BusyPoints, CodecPoints
    <2>3. CodecInv(w)'
      <3>1. CodecInv(w) /\ pc[w] = "reserve" /\ pc'[w] \in {"payload", "offs"}
        BY <2>1 DEF IInv, WorkerInv
      <3>2. \A s \in Streams : StreamIntact(cid[w], s, knob) => StreamIntact(cid[w], s, knob)'
        BY <2>1 DEF StreamIntact
      <3> QED BY <2>1, <3>1, <3>2 DEF CodecInv, InStream, CodecPoints
    <2>4. Size(cid[w], k[w])' = Size(cid[w], k[w])
      BY <2>1 DEF Size
    <2>5. ExtentInv(w)'
      <3>1. payloadLen <= cursor
        BY <1>r DEF IInv, CursorInv
      <3>2. \A i \in DOMAIN payload : i \in Nat /\ i < cursor
        BY <1>T, <1>1, <3>1 DEF TypeOK
      <3>3. CASE Size(cid[w], k[w]) > 0
        <4>1. pc'[w] = "payload"
          BY <2>1, <3>3
        <4>2. \A i \in Extent(cursor + 0, Size(cid[w], k[w]) - 0) : i \notin DOMAIN payload
          BY <1>1, <1>2, <3>2 DEF Extent
        <4>3. \A i \in Extent(cursor, 0) : FALSE
          BY <1>1 DEF Extent
        <4> QED BY <1>1, <1>2, <2>1, <2>4, <3>3, <4>1, <4>2, <4>3 DEF ExtentInv, Holds
      <3>4. CASE ~(Size(cid[w], k[w]) > 0)
        <4>1. pc'[w] = "offs"
          BY <2>1, <3>4
        <4>2. \A i \in Extent(cursor, Size(cid[w], k[w])) : FALSE
          BY <1>1, <1>2, <3>4 DEF Extent
        <4> QED BY <2>1, <2>4, <4>1, <4>2 DEF ExtentInv, Holds
      <3> QED BY <3>3, <3>4
    <2> QED BY <2>2, <2>3, <2>5 DEF WorkerInv
  <1> QED BY <1>3, <1>4, <1>5, <1>6, <1>7, BusyStepKeeps

(* A partial write into a reserved extent preserves IInv: it changes no byte that
   was there, and none of another worker's extent. *)
LEMMA WritePayloadStep ==
    ASSUME IInv, NEW w \in Workers, WritePayload(w) PROVE IInv'
  <1>T. TypeOK BY DEF IInv
  <1> DEFINE sz == Size(cid[w], k[w])
  <1>1. cid[w] \in Cids /\ knob \in Knobs /\ k[w] \in Streams /\ cursor \in Nat /\ pc[w] = "payload"
        /\ off[w] \in Nat /\ pos[w] \in Nat /\ payloadLen \in Nat
    BY <1>T DEF TypeOK, IInv, WorkerInv, LoopInv, InStream, CodecPoints, WritePayload
  <1>2. sz \in Nat /\ \A v \in Workers : pc[v] = "payload" => Size(cid[v], k[v]) \in Nat
    BY <1>T, <1>1, ConstFacts DEF TypeOK, Size, IInv, WorkerInv, LoopInv, InStream, CodecPoints
  <1>3. PICK n \in 1 .. (sz - pos[w]) :
          /\ payload' = [i \in DOMAIN payload \cup Extent(off[w] + pos[w], n) |->
                           IF i \in Extent(off[w] + pos[w], n) THEN Tag(cid[w], k[w]) ELSE payload[i]]
          /\ payloadLen' = IF off[w] + pos[w] + n > payloadLen THEN off[w] + pos[w] + n ELSE payloadLen
          /\ pos' = [pos EXCEPT ![w] = pos[w] + n]
          /\ pc' = [pc EXCEPT ![w] = IF pos[w] + n = sz THEN "offs" ELSE "payload"]
    BY DEF WritePayload, Goto
  <1> DEFINE new == Extent(off[w] + pos[w], n)
  <1>4. /\ doneFile' = doneFile /\ statsFile' = statsFile /\ listData' = listData
        /\ listMeta' = listMeta /\ scales' = scales /\ lens' = lens /\ offs' = offs /\ sizes' = sizes
        /\ phase' = phase /\ starts' = starts /\ knob' = knob /\ ok' = ok
        /\ nextCid' = nextCid /\ cursor' = cursor /\ clusterReal' = clusterReal
        /\ cid' = cid /\ k' = k /\ off' = off
    BY DEF WritePayload, process
  <1>5. n \in Nat /\ n >= 1 /\ pos[w] + n <= sz /\ off[w] + sz <= cursor
    BY <1>1, <1>2, <1>3 DEF IInv, WorkerInv, ExtentInv
  <1>6. \A i \in new : i \in Nat /\ i >= off[w] + pos[w] /\ i < off[w] + pos[w] + n
    BY <1>1, <1>5 DEF Extent
  <1>7. \A i \in new : i \notin DOMAIN payload
    <2>1. \A i \in new : i \in Extent(off[w] + pos[w], sz - pos[w])
      BY <1>1, <1>2, <1>5 DEF Extent
    <2> QED BY <1>1, <2>1 DEF IInv, WorkerInv, ExtentInv
  <1>8. PayloadKept
    BY <1>3, <1>7 DEF PayloadKept
  <1>9. DOMAIN payload' = DOMAIN payload \cup new
    BY <1>3
  <1>10. TypeOK'
    <2>1. payloadLen' \in Nat /\ payloadLen' >= payloadLen /\ payloadLen' >= off[w] + pos[w] + n
      BY <1>1, <1>3, <1>5
    <2>2. DOMAIN payload' \subseteq 0 .. payloadLen' - 1
      BY <1>T, <1>1, <1>5, <1>6, <1>9, <2>1 DEF TypeOK
    <2>3. Tag(cid[w], k[w]) \in Knobs \X Cids \X Streams
      BY <1>1 DEF Tag
    <2>4. payload' \in [DOMAIN payload' -> Knobs \X Cids \X Streams]
      BY <1>T, <1>3, <1>9, <2>3 DEF TypeOK
    <2>5. pos' \in [Workers -> Nat] /\ pc' \in [Workers -> Points]
      BY <1>T, <1>1, <1>3, <1>5 DEF TypeOK, Points, BusyPoints, CodecPoints
    <2> QED BY <1>T, <1>4, <2>1, <2>2, <2>4, <2>5 DEF TypeOK
  <1>11. \A v \in Workers : v # w => WorkerKept(v)
    BY <1>T, <1>3, <1>4 DEF TypeOK, WorkerKept
  <1>12. ASSUME NEW v \in Workers, v # w, pc[v] = "payload",
                NEW i \in Extent(off[v] + pos[v], Size(cid[v], k[v]) - pos[v])
         PROVE  i \notin DOMAIN payload'
    <2>1. i \notin DOMAIN payload
      BY <1>12 DEF IInv, WorkerInv, ExtentInv
    <2>2. \/ off[v] + Size(cid[v], k[v]) <= off[w]
          \/ off[w] + sz <= off[v]
      BY <1>1, <1>12 DEF IInv, DisjointInv
    <2>3. off[v] \in Nat /\ pos[v] \in Nat /\ Size(cid[v], k[v]) \in Nat
      BY <1>T, <1>2, <1>12 DEF TypeOK
    <2>4. i >= off[v] /\ i < off[v] + Size(cid[v], k[v]) /\ i \in Int
      BY <1>12, <2>3 DEF Extent
    <2>5. i \notin new
      BY <1>1, <1>2, <1>5, <1>6, <2>2, <2>3, <2>4
    <2> QED BY <1>9, <2>1, <2>5
  <1>13. BusyStep(w)
    <2>1. \A v \in Workers : v # w => StillFree(v)
      BY <1>12 DEF StillFree
    <2>2. Busy(w) /\ Busy(w)'
      BY <1>T, <1>1, <1>3 DEF TypeOK, Busy, BusyPoints, CodecPoints
    <2>3. \A c \in Cids : Untouched(c)
      BY <1>4 DEF Untouched
    <2> QED BY <1>1, <1>4, <1>8, <1>11, <2>1, <2>2, <2>3 DEF BusyStep
  <1>14. CursorInv'
    <2>1. phase = "running" /\ payloadLen <= cursor
      BY <1>1 DEF IInv, PhaseInv, CursorInv
    <2> QED BY <1>1, <1>2, <1>3, <1>4, <1>5, <2>1 DEF CursorInv
  <1>15. DisjointInv'
    <2>1. \A v \in Workers : pc'[v] = "payload" => pc[v] = "payload"
      BY <1>1, <1>11 DEF WorkerKept
    <2> QED BY <1>4, <2>1 DEF IInv, DisjointInv, Size
  <1>16. WorkerInv(w)'
    <2>1. pos'[w] = pos[w] + n /\ pc'[w] = IF pos[w] + n = sz THEN "offs" ELSE "payload"
      BY <1>T, <1>3 DEF TypeOK
    <2>2. Size(cid[w], k[w])' = sz /\ Tag(cid[w], k[w])' = Tag(cid[w], k[w])
      BY <1>4 DEF Size, Tag
    <2>3. LoopInv(w)' /\ ListInv(w)' /\ StatsInv(w)'
      BY <1>1, <1>4, <2>1 DEF IInv, WorkerInv, LoopInv, ListInv, StatsInv, Busy, InStream, BusyPoints, CodecPoints
    <2>4. CodecInv(w)'
      <3>1. ASSUME NEW s \in Streams, s < k[w] PROVE StreamIntact(cid[w], s, knob)'
        <4>1. StreamIntact(cid[w], s, knob)
          BY <1>1, <3>1 DEF IInv, WorkerInv, CodecInv, InStream, CodecPoints
        <4> QED BY <1>4, <1>8, <4>1 DEF StreamIntact, PayloadKept
      <3>2. scales[cid[w]] = knob /\ lens[<<cid[w], k[w]>>] = knob
        BY <1>1 DEF IInv, WorkerInv, CodecInv, InStream, CodecPoints
      <3> QED BY <1>4, <2>1, <3>1, <3>2 DEF CodecInv, InStream, CodecPoints
    <2>5. ASSUME NEW i \in Extent(off[w], pos[w] + n)
          PROVE  i \in DOMAIN payload' /\ payload'[i] = Tag(cid[w], k[w])
      <3>1. CASE i \in Extent(off[w], pos[w])
        <4>1. i \in DOMAIN payload /\ payload[i] = Tag(cid[w], k[w])
          BY <1>1, <3>1 DEF IInv, WorkerInv, ExtentInv, Holds
        <4> QED BY <1>8, <4>1 DEF PayloadKept
      <3>2. CASE i \notin Extent(off[w], pos[w])
        <4>1. i \in new
          BY <1>1, <1>5, <3>2 DEF Extent
        <4> QED BY <1>3, <4>1
      <3> QED BY <3>1, <3>2
    <2>6. ExtentInv(w)'
      <3>1. CASE pos[w] + n = sz
        <4>1. pc'[w] = "offs"
          BY <2>1, <3>1
        <4> QED BY <1>4, <2>2, <2>5, <3>1, <4>1 DEF ExtentInv, Holds
      <3>2. CASE pos[w] + n # sz
        <4>1. \A i \in Extent(off[w] + (pos[w] + n), sz - (pos[w] + n)) : i \notin DOMAIN payload'
          <5> SUFFICES ASSUME NEW i \in Extent(off[w] + (pos[w] + n), sz - (pos[w] + n))
                       PROVE  i \notin DOMAIN payload'
            OBVIOUS
          <5>1. i \in Extent(off[w] + pos[w], sz - pos[w]) /\ i \notin new
            BY <1>1, <1>2, <1>5 DEF Extent
          <5>2. i \notin DOMAIN payload
            BY <1>1, <5>1 DEF IInv, WorkerInv, ExtentInv
          <5> QED BY <1>9, <5>1, <5>2
        <4>2. pc'[w] = "payload" /\ pos[w] + n < sz /\ off[w] + sz <= cursor
          BY <1>1, <1>2, <1>5, <2>1, <3>2
        <4>3. Holds(w, off[w], pos[w])'
          BY <1>4, <2>1, <2>2, <2>5 DEF Holds
        <4> QED BY <1>4, <2>1, <2>2, <4>1, <4>2, <4>3 DEF ExtentInv
      <3> QED BY <3>1, <3>2
    <2> QED BY <2>3, <2>4, <2>6 DEF WorkerInv
  <1> QED BY <1>10, <1>13, <1>14, <1>15, <1>16, BusyStepKeeps

(* Recording the offset of a stream preserves IInv. *)
LEMMA WriteOffsStep ==
    ASSUME IInv, NEW w \in Workers, WriteOffs(w) PROVE IInv'
  <1> USE DEF WriteOffs, Goto, process
  <1>T. TypeOK BY DEF IInv
  <1>1. cid[w] \in Cids /\ knob \in Knobs /\ k[w] \in Streams /\ <<cid[w], k[w]>> \in Slots
    BY <1>T DEF TypeOK, IInv, WorkerInv, LoopInv, InStream, CodecPoints, Slots
  <1>2. TypeOK'
    BY <1>T, <1>1 DEF TypeOK, Points, BusyPoints, CodecPoints
  <1>3. BusyStep(w)
    <2>1. \A c \in Cids, s \in Streams : c # cid[w] => offs'[<<c, s>>] = offs[<<c, s>>]
      BY <1>T, <1>1 DEF TypeOK, Slots
    <2> QED BY <1>T, <1>1, <2>1 DEF TypeOK, BusyStep, Busy, BusyPoints, CodecPoints, PayloadKept,
                WorkerKept, StillFree, Untouched, IInv, WorkerInv, ExtentInv
  <1>4. CursorInv'
    BY DEF IInv, CursorInv
  <1>5. DisjointInv'
    BY <1>T DEF TypeOK, IInv, DisjointInv, Size
  <1>6. WorkerInv(w)'
    <2>1. pc'[w] = "sizes" /\ pc[w] = "offs" /\ offs'[<<cid[w], k[w]>>] = off[w]
      BY <1>T, <1>1 DEF TypeOK
    <2>2. ASSUME NEW s \in Streams, s < k[w] PROVE StreamIntact(cid[w], s, knob)'
      <3>1. StreamIntact(cid[w], s, knob)
        BY <2>2 DEF IInv, WorkerInv, CodecInv, InStream, CodecPoints
      <3>2. s # k[w] /\ <<cid[w], s>> \in Slots
        BY <2>2, <1>1 DEF Slots, Streams
      <3>3. offs'[<<cid[w], s>>] = offs[<<cid[w], s>>]
        BY <1>T, <3>2 DEF TypeOK
      <3> QED BY <3>1, <3>3 DEF StreamIntact
    <2>3. scales[cid[w]] = knob /\ lens[<<cid[w], k[w]>>] = knob
      BY <2>1 DEF IInv, WorkerInv, CodecInv, InStream, CodecPoints
    <2>4. CodecInv(w)'
      BY <2>1, <2>2, <2>3 DEF CodecInv, InStream, CodecPoints
    <2>5. LoopInv(w)' /\ ListInv(w)' /\ StatsInv(w)'
      BY <1>1, <2>1 DEF IInv, WorkerInv, LoopInv, ListInv, StatsInv, Busy, InStream, BusyPoints, CodecPoints
    <2>6. ExtentInv(w)'
      BY <2>1 DEF IInv, WorkerInv, ExtentInv, Holds, Size, Tag
    <2> QED BY <2>4, <2>5, <2>6 DEF WorkerInv
  <1> QED BY <1>2, <1>3, <1>4, <1>5, <1>6, BusyStepKeeps

(* Recording the size of a stream, which makes it readable, preserves IInv. *)
LEMMA WriteSizesStep ==
    ASSUME IInv, NEW w \in Workers, WriteSizes(w) PROVE IInv'
  <1>T. TypeOK BY DEF IInv
  <1>1. cid[w] \in Cids /\ knob \in Knobs /\ k[w] \in Streams /\ <<cid[w], k[w]>> \in Slots
        /\ pc[w] = "sizes" /\ k[w] \in Nat
    BY <1>T, ConstFacts DEF TypeOK, IInv, WorkerInv, LoopInv, InStream, CodecPoints, Slots, WriteSizes
  <1>2. Size(cid[w], k[w]) \in Nat
    BY <1>1, ConstFacts DEF Size
  <1>3. /\ doneFile' = doneFile /\ statsFile' = statsFile /\ listData' = listData
        /\ listMeta' = listMeta /\ scales' = scales /\ lens' = lens /\ offs' = offs
        /\ payload' = payload /\ payloadLen' = payloadLen
        /\ phase' = phase /\ starts' = starts /\ knob' = knob /\ ok' = ok
        /\ nextCid' = nextCid /\ cursor' = cursor /\ clusterReal' = clusterReal
        /\ cid' = cid /\ off' = off /\ pos' = pos
    BY DEF WriteSizes, process
  <1>4. sizes' = [sizes EXCEPT ![<<cid[w], k[w]>>] = Size(cid[w], k[w])]
    BY DEF WriteSizes
  <1>5. \/ /\ k[w] < NStreams /\ pc' = [pc EXCEPT ![w] = "lens"] /\ k' = [k EXCEPT ![w] = k[w] + 1]
        \/ /\ k[w] >= NStreams /\ pc' = [pc EXCEPT ![w] = "list"] /\ k' = [k EXCEPT ![w] = 1]
    BY DEF WriteSizes, Goto
  <1>6. TypeOK'
    <2>1. sizes' \in [Slots -> Nat]
      BY <1>T, <1>1, <1>2, <1>4 DEF TypeOK
    <2>2. pc' \in [Workers -> Points] /\ k' \in [Workers -> Nat \ {0}]
      BY <1>T, <1>1, <1>5 DEF TypeOK, Points, BusyPoints, CodecPoints
    <2> QED BY <1>T, <1>3, <2>1, <2>2 DEF TypeOK
  <1>7. BusyStep(w)
    <2>1. \A c \in Cids, s \in Streams : c # cid[w] => sizes'[<<c, s>>] = sizes[<<c, s>>]
      BY <1>T, <1>1, <1>4 DEF TypeOK, Slots
    <2>2. \A v \in Workers : v # w => WorkerKept(v)
      BY <1>T, <1>3, <1>5 DEF TypeOK, WorkerKept
    <2>3. \A v \in Workers : StillFree(v)
      BY <1>3 DEF IInv, WorkerInv, ExtentInv, StillFree
    <2>4. Busy(w) /\ Busy(w)'
      BY <1>T, <1>1, <1>5 DEF TypeOK, Busy, BusyPoints, CodecPoints
    <2> QED BY <1>T, <1>1, <1>3, <2>1, <2>2, <2>3, <2>4 DEF TypeOK, BusyStep, PayloadKept, Untouched
  <1>8. CursorInv'
    BY <1>3 DEF IInv, CursorInv
  <1>9. DisjointInv'
    <2>1. \A v \in Workers : pc'[v] = "payload" => pc[v] = "payload" /\ k'[v] = k[v]
      BY <1>T, <1>1, <1>5 DEF TypeOK
    <2> QED BY <1>3, <2>1 DEF IInv, DisjointInv, Size
  <1>10. WorkerInv(w)'
    <2>1. CodecInv(w) /\ ExtentInv(w) /\ StatsInv(w)
      BY DEF IInv, WorkerInv
    <2>3. /\ lens[<<cid[w], k[w]>>] = knob
          /\ offs[<<cid[w], k[w]>>] = off[w]
          /\ sizes'[<<cid[w], k[w]>>] = PayloadBytes[knob, cid[w], k[w]]
          /\ \A i \in Extent(off[w], PayloadBytes[knob, cid[w], k[w]]) :
                i \in DOMAIN payload /\ payload[i] = <<knob, cid[w], k[w]>>
      BY <1>T, <1>1, <1>4, <2>1 DEF TypeOK, CodecInv, ExtentInv, InStream, CodecPoints, Holds, Size, Tag
    <2>4. ASSUME NEW s \in Streams, s <= k[w] PROVE StreamIntact(cid[w], s, knob)'
      <3>1. CASE s = k[w]
        BY <1>3, <2>3, <3>1 DEF StreamIntact
      <3>2. CASE s # k[w]
        <4>1. s < k[w] /\ <<cid[w], s>> \in Slots
          BY <1>1, <2>4, <3>2 DEF Streams, Slots
        <4>2. StreamIntact(cid[w], s, knob)
          BY <1>1, <2>1, <4>1 DEF CodecInv, InStream, CodecPoints
        <4>3. sizes'[<<cid[w], s>>] = sizes[<<cid[w], s>>]
          BY <1>T, <1>4, <3>2, <4>1 DEF TypeOK
        <4> QED BY <1>3, <4>2, <4>3 DEF StreamIntact
      <3> QED BY <3>1, <3>2
    <2>5. scales[cid[w]] = knob /\ clusterReal[cid[w]] = NReal[cid[w]]
      BY <1>1, <2>1 DEF CodecInv, StatsInv, Busy, InStream, BusyPoints, CodecPoints
    <2>6. CASE k[w] < NStreams
      <3>1. pc'[w] = "lens" /\ k'[w] = k[w] + 1 /\ k[w] + 1 \in Streams
        BY <1>T, <1>1, <1>5, <2>6, SizesAssumption DEF TypeOK, Streams
      <3>2. \A s \in Streams : s < k'[w] => s <= k[w]
        BY <1>1, <3>1 DEF Streams
      <3>3. CodecInv(w)'
        BY <1>3, <2>4, <2>5, <3>1, <3>2 DEF CodecInv, InStream, CodecPoints
      <3>4. LoopInv(w)' /\ ListInv(w)' /\ StatsInv(w)' /\ ExtentInv(w)'
        BY <1>3, <2>5, <3>1 DEF LoopInv, ListInv, StatsInv, ExtentInv, InStream, CodecPoints
      <3> QED BY <3>3, <3>4 DEF WorkerInv
    <2>7. CASE ~(k[w] < NStreams)
      <3>1. pc'[w] = "list" /\ k'[w] = 1
        BY <1>T, <1>5, <2>7 DEF TypeOK
      <3>2. \A s \in Streams : s <= k[w]
        BY <1>1, <2>7, SizesAssumption DEF Streams
      <3>3. CodecInv(w)'
        BY <1>3, <2>4, <2>5, <3>1, <3>2 DEF CodecInv, CodecIntact, InStream, CodecPoints
      <3>4. \A f \in ListFiles : ~(f < 1)
        BY DEF ListFiles
      <3>5. LoopInv(w)' /\ ListInv(w)' /\ StatsInv(w)' /\ ExtentInv(w)'
        BY <1>3, <2>5, <3>1, <3>4, ConstFacts DEF LoopInv, ListInv, StatsInv, ExtentInv, InStream, CodecPoints
      <3> QED BY <3>3, <3>5 DEF WorkerInv
    <2> QED BY <2>6, <2>7
  <1> QED BY <1>6, <1>7, <1>8, <1>9, <1>10, BusyStepKeeps

(* Writing one file of the list record preserves IInv. *)
LEMMA WriteListFileStep ==
    ASSUME IInv, NEW w \in Workers, WriteListFile(w) PROVE IInv'
  <1>T. TypeOK BY DEF IInv
  <1>1. cid[w] \in Cids /\ knob \in Knobs /\ k[w] \in ListFiles /\ pc[w] = "list" /\ k[w] \in Nat
    BY <1>T DEF TypeOK, IInv, WorkerInv, LoopInv, WriteListFile
  <1>2. /\ doneFile' = doneFile /\ statsFile' = statsFile /\ sizes' = sizes
        /\ listMeta' = listMeta /\ scales' = scales /\ lens' = lens /\ offs' = offs
        /\ payload' = payload /\ payloadLen' = payloadLen
        /\ phase' = phase /\ starts' = starts /\ knob' = knob /\ ok' = ok
        /\ nextCid' = nextCid /\ cursor' = cursor /\ clusterReal' = clusterReal
        /\ cid' = cid /\ off' = off /\ pos' = pos
    BY DEF WriteListFile, process
  <1>3. listData' = [listData EXCEPT ![cid[w]] = listData[cid[w]] \cup {k[w]}]
    BY DEF WriteListFile
  <1>4. \/ /\ k[w] < NListFiles /\ pc' = pc /\ k' = [k EXCEPT ![w] = k[w] + 1]
        \/ /\ k[w] >= NListFiles /\ pc' = [pc EXCEPT ![w] = "stats"] /\ k' = k
    BY DEF WriteListFile, Goto
  <1>5. TypeOK'
    <2>1. listData' \in [Cids -> SUBSET ListFiles]
      BY <1>T, <1>1, <1>3 DEF TypeOK
    <2>2. pc' \in [Workers -> Points] /\ k' \in [Workers -> Nat \ {0}]
      BY <1>T, <1>1, <1>4 DEF TypeOK, Points, BusyPoints
    <2> QED BY <1>T, <1>2, <2>1, <2>2 DEF TypeOK
  <1>6. BusyStep(w)
    <2>1. \A c \in Cids : c # cid[w] => listData'[c] = listData[c]
      BY <1>T, <1>3 DEF TypeOK
    <2>2. \A v \in Workers : v # w => WorkerKept(v)
      BY <1>T, <1>2, <1>4 DEF TypeOK, WorkerKept
    <2>3. \A v \in Workers : StillFree(v)
      BY <1>2 DEF IInv, WorkerInv, ExtentInv, StillFree
    <2>4. Busy(w) /\ Busy(w)'
      BY <1>T, <1>1, <1>4 DEF TypeOK, Busy, BusyPoints
    <2> QED BY <1>T, <1>1, <1>2, <2>1, <2>2, <2>3, <2>4 DEF TypeOK, BusyStep, PayloadKept, Untouched
  <1>7. CursorInv'
    BY <1>2 DEF IInv, CursorInv
  <1>8. DisjointInv'
    <2>1. \A v \in Workers : pc'[v] = "payload" => pc[v] = "payload" /\ k'[v] = k[v]
      BY <1>T, <1>1, <1>4 DEF TypeOK
    <2> QED BY <1>2, <2>1 DEF IInv, DisjointInv, Size
  <1>9. WorkerInv(w)'
    <2>1. CodecIntact(cid[w], knob) /\ clusterReal[cid[w]] = NReal[cid[w]]
      BY <1>1 DEF IInv, WorkerInv, CodecInv, StatsInv, Busy, BusyPoints
    <2>2. CodecIntact(cid[w], knob)'
      BY <1>2, <2>1 DEF CodecIntact, StreamIntact
    <2>3. listData'[cid[w]] = listData[cid[w]] \cup {k[w]}
      BY <1>T, <1>1, <1>3 DEF TypeOK
    <2>4. \A f \in ListFiles : f <= k[w] => f \in listData'[cid[w]]
      <3>1. \A f \in ListFiles : f < k[w] => f \in listData[cid[w]]
        BY <1>1 DEF IInv, WorkerInv, ListInv
      <3> QED BY <1>1, <2>3, <3>1 DEF ListFiles
    <2>5. CASE k[w] < NListFiles
      <3>1. pc'[w] = "list" /\ k'[w] = k[w] + 1 /\ k[w] + 1 \in ListFiles
        BY <1>T, <1>1, <1>4, <2>5, SizesAssumption DEF TypeOK, ListFiles
      <3>2. \A f \in ListFiles : f < k'[w] => f <= k[w]
        BY <1>1, <3>1 DEF ListFiles
      <3> QED BY <1>2, <2>1, <2>2, <2>4, <3>1, <3>2 DEF WorkerInv, LoopInv, CodecInv, ListInv, StatsInv,
                 ExtentInv, InStream, CodecPoints
    <2>6. CASE ~(k[w] < NListFiles)
      <3>1. pc'[w] = "stats"
        BY <1>T, <1>4, <2>6 DEF TypeOK
      <3>2. \A f \in ListFiles : f <= k[w]
        BY <1>1, <2>6, SizesAssumption DEF ListFiles
      <3>3. listData'[cid[w]] \in SUBSET ListFiles
        BY <1>1, <1>5 DEF TypeOK
      <3>4. ListIntact(cid[w])'
        BY <1>2, <2>4, <3>2, <3>3 DEF ListIntact
      <3> QED BY <1>2, <2>1, <2>2, <3>1, <3>4 DEF WorkerInv, LoopInv, CodecInv, ListInv, StatsInv,
                 ExtentInv, InStream, CodecPoints
    <2> QED BY <2>5, <2>6
  <1> QED BY <1>5, <1>6, <1>7, <1>8, <1>9, BusyStepKeeps

(* Persisting the statistics of a cluster preserves IInv. *)
LEMMA MarkDoneStatsStep ==
    ASSUME IInv, NEW w \in Workers, MarkDoneStats(w) PROVE IInv'
  <1> USE DEF MarkDoneStats, Goto, process
  <1>T. TypeOK BY DEF IInv
  <1>1. cid[w] \in Cids /\ clusterReal[cid[w]] \in Nat /\ pc[w] = "stats"
    BY <1>T DEF TypeOK
  <1>2. clusterReal[cid[w]] = NReal[cid[w]]
    BY <1>1 DEF IInv, WorkerInv, StatsInv, Busy, BusyPoints
  <1>3. TypeOK'
    BY <1>T, <1>1 DEF TypeOK, Points, BusyPoints
  <1>4. BusyStep(w)
    BY <1>T, <1>1 DEF TypeOK, BusyStep, Busy, BusyPoints, PayloadKept, WorkerKept,
                      StillFree, Untouched, IInv, WorkerInv, ExtentInv
  <1>5. CursorInv'
    BY DEF IInv, CursorInv
  <1>6. DisjointInv'
    BY <1>T DEF TypeOK, IInv, DisjointInv, Size
  <1>7. WorkerInv(w)'
    <2>1. pc'[w] = "mark" /\ statsFile'[cid[w]] = NReal[cid[w]]
      BY <1>T, <1>1, <1>2 DEF TypeOK
    <2>2. CodecIntact(cid[w], knob) /\ ListIntact(cid[w])
      BY <1>1 DEF IInv, WorkerInv, CodecInv, ListInv
    <2>3. CodecIntact(cid[w], knob)' /\ ListIntact(cid[w])'
      BY <2>2 DEF CodecIntact, StreamIntact, ListIntact
    <2> QED BY <1>2, <2>1, <2>3 DEF WorkerInv, LoopInv, CodecInv, ListInv, StatsInv,
                 ExtentInv, InStream, CodecPoints
  <1> QED BY <1>3, <1>4, <1>5, <1>6, <1>7, BusyStepKeeps

-----------------------------------------------------------------------------
(* The steps by which a worker leaves a cluster or takes the next *)

\* A step that writes nothing into the output directory.
DiskKept ==
    /\ doneFile' = doneFile /\ statsFile' = statsFile /\ listData' = listData
    /\ listMeta' = listMeta /\ scales' = scales /\ lens' = lens /\ offs' = offs
    /\ sizes' = sizes /\ payload' = payload /\ payloadLen' = payloadLen

(* Published clusters stay complete when nothing is written. *)
LEMMA DiskKeptDone ==
    ASSUME IInv, DiskKept PROVE DoneIsComplete' /\ MetaMeansAllDone'
  <1>1. \A c \in Cids, q \in Knobs : CodecIntact(c, q)' <=> CodecIntact(c, q)
    BY DEF DiskKept, CodecIntact, StreamIntact
  <1>2. \A c \in Cids : Complete(c)' <=> Complete(c)
    BY <1>1 DEF DiskKept, Complete, ListIntact
  <1> QED BY <1>2 DEF IInv, DoneIsComplete, MetaMeansAllDone, DiskKept

(* A worker outside any cluster owes nothing. *)
LEMMA IdleWorker ==
    ASSUME NEW v \in Workers, pc'[v] \in {"off", "top", "exit", "compute"}
    PROVE  WorkerInv(v)'
  BY DEF WorkerInv, LoopInv, CodecInv, ListInv, StatsInv, ExtentInv, Busy, InStream,
         BusyPoints, CodecPoints

(* Setting the done byte preserves IInv: everything it promises is on disk. *)
LEMMA MarkDoneStep ==
    ASSUME IInv, NEW w \in Workers, MarkDone(w) PROVE IInv'
  <1> USE DEF MarkDone, Goto, process
  <1>T. TypeOK BY DEF IInv
  <1>1. cid[w] \in Cids /\ knob \in Knobs /\ pc[w] = "mark" /\ pc'[w] = "top" /\ phase = "running"
    BY <1>T DEF TypeOK, IInv, PhaseInv
  <1>2. TypeOK'
    BY <1>T, <1>1 DEF TypeOK, Points, BusyPoints
  <1>3. PhaseInv'
    BY <1>T DEF TypeOK, IInv, PhaseInv
  <1>4. /\ \A v \in Workers : v # w => pc'[v] = pc[v]
        /\ \A c \in Cids : doneFile'[c] <=> (doneFile[c] \/ c = cid[w])
    BY <1>T, <1>1 DEF TypeOK
  <1>5. \A v \in Workers : Busy(v)' <=> (Busy(v) /\ v # w)
    BY <1>1, <1>4 DEF Busy, BusyPoints, CodecPoints
  <1>6. ClaimInv'
    <2>1. Busy(w)
      BY <1>1 DEF Busy, BusyPoints
    <2>2. \A v \in Workers : Busy(v)' => cid[v] < nextCid /\ ~doneFile'[cid[v]]
      BY <1>T, <1>4, <1>5, <2>1 DEF IInv, ClaimInv, TypeOK
    <2>3. \A u, v \in Workers : u # v /\ Busy(u)' /\ Busy(v)' => cid[u] # cid[v]
      BY <1>5 DEF IInv, ClaimInv
    <2>4. \A c \in Cids : c < nextCid /\ ok =>
             doneFile'[c] \/ \E v \in Workers : Busy(v)' /\ cid[v] = c
      BY <1>4, <1>5 DEF IInv, ClaimInv
    <2>5. \A v \in Workers : pc'[v] = "exit" /\ ok => nextCid >= NList
      BY <1>1, <1>4 DEF IInv, ClaimInv
    <2> QED BY <2>2, <2>3, <2>4, <2>5 DEF ClaimInv
  <1>7. CursorInv' /\ MetaMeansAllDone' /\ StatsOfAllClusters'
    BY <1>1, <1>4 DEF IInv, CursorInv, MetaMeansAllDone, StatsOfAllClusters
  <1>8. DisjointInv'
    BY <1>1, <1>4 DEF IInv, DisjointInv, Size
  <1>9. MemoryInv'
    <2>1. clusterReal[cid[w]] = NReal[cid[w]]
      BY <1>1 DEF IInv, WorkerInv, StatsInv, Busy, BusyPoints
    <2> QED BY <1>4, <2>1 DEF IInv, MemoryInv
  <1>10. \A q \in Knobs, c \in Cids : CodecIntact(c, q)' <=> CodecIntact(c, q)
    BY DEF CodecIntact, StreamIntact
  <1>11. DoneIsComplete'
    <2>1. \A c \in Cids : Complete(c)' <=> Complete(c)
      BY <1>10 DEF Complete, ListIntact
    <2>2. Complete(cid[w])
      BY <1>1 DEF IInv, WorkerInv, CodecInv, ListInv, StatsInv, Complete
    <2> QED BY <1>4, <2>1, <2>2 DEF IInv, DoneIsComplete
  <1>12. \A v \in Workers : WorkerInv(v)'
    <2>1. ASSUME NEW v \in Workers, v # w PROVE WorkerInv(v)'
      <3>1. WorkerKept(v) /\ StillFree(v) /\ PayloadKept /\ Untouched(cid[v])
        BY <1>4, <2>1 DEF WorkerKept, StillFree, PayloadKept, Untouched, IInv, WorkerInv, ExtentInv
      <3>2. knob' = knob /\ cursor' \in Nat /\ cursor <= cursor' /\ WorkerInv(v)
        BY <1>T DEF TypeOK, IInv
      <3> QED BY <1>T, <2>1, <3>1, <3>2, OtherWorker
    <2> QED BY <1>1, <2>1, IdleWorker
  <1> QED BY <1>2, <1>3, <1>6, <1>7, <1>8, <1>9, <1>11, <1>12 DEF IInv

(* Abandoning a cluster preserves IInv: it stays unpublished and ok is false. *)
LEMMA FailClusterStep ==
    ASSUME IInv, NEW w \in Workers, FailCluster(w) PROVE IInv'
  <1> USE DEF FailCluster, Goto, disk
  <1>T. TypeOK BY DEF IInv
  <1>1. DiskKept
    BY DEF DiskKept
  <1>2. /\ pc'[w] = "top" /\ pc[w] # "off"
        /\ \A v \in Workers : v # w => pc'[v] = pc[v]
    BY <1>T DEF TypeOK, BusyPoints, CodecPoints
  <1>3. TypeOK'
    BY <1>T DEF TypeOK, Points, BusyPoints
  <1>4. PhaseInv'
    BY <1>2 DEF IInv, PhaseInv
  <1>5. ClaimInv'
    <2>1. \A v \in Workers : Busy(v)' => Busy(v) /\ v # w
      BY <1>2 DEF Busy, BusyPoints, CodecPoints
    <2> QED BY <2>1 DEF IInv, ClaimInv
  <1>6. CursorInv' /\ MemoryInv' /\ StatsOfAllClusters'
    BY DEF IInv, CursorInv, MemoryInv, StatsOfAllClusters
  <1>7. DisjointInv'
    BY <1>2 DEF IInv, DisjointInv, Size
  <1>8. \A v \in Workers : WorkerInv(v)'
    <2>1. ASSUME NEW v \in Workers, v # w PROVE WorkerInv(v)'
      <3>1. WorkerKept(v) /\ StillFree(v) /\ PayloadKept /\ Untouched(cid[v])
        BY <1>2, <2>1 DEF WorkerKept, StillFree, PayloadKept, Untouched, IInv, WorkerInv, ExtentInv
      <3>2. knob' = knob /\ cursor' \in Nat /\ cursor <= cursor' /\ WorkerInv(v)
        BY <1>T DEF TypeOK, IInv
      <3> QED BY <1>T, <2>1, <3>1, <3>2, OtherWorker
    <2> QED BY <1>2, <2>1, IdleWorker
  <1> QED BY <1>1, <1>3, <1>4, <1>5, <1>6, <1>7, <1>8, DiskKeptDone DEF IInv

(* Claiming a cluster, skipping a done one or leaving the loop preserves IInv. *)
LEMMA ClaimClusterStep ==
    ASSUME IInv, NEW w \in Workers, ClaimCluster(w) PROVE IInv'
  <1> USE DEF Goto, disk
  <1>T. TypeOK BY DEF IInv
  <1>1. /\ DiskKept /\ phase' = phase /\ starts' = starts /\ knob' = knob /\ ok' = ok
        /\ cursor' = cursor /\ clusterReal' = clusterReal /\ k' = k /\ off' = off /\ pos' = pos
        /\ pc[w] = "top"
    BY DEF ClaimCluster, DiskKept
  <1>2. \/ ~ok /\ nextCid' = nextCid /\ cid' = cid /\ pc' = [pc EXCEPT ![w] = "exit"]
        \/ ok /\ nextCid \notin Cids /\ nextCid' = nextCid + 1 /\ cid' = cid
              /\ pc' = [pc EXCEPT ![w] = "exit"]
        \/ ok /\ nextCid \in Cids /\ doneFile[nextCid] /\ nextCid' = nextCid + 1 /\ cid' = cid
              /\ pc' = pc
        \/ ok /\ nextCid \in Cids /\ ~doneFile[nextCid] /\ nextCid' = nextCid + 1
              /\ cid' = [cid EXCEPT ![w] = nextCid] /\ pc' = [pc EXCEPT ![w] = "compute"]
    BY DEF ClaimCluster
  <1>3. nextCid \in Nat /\ nextCid' \in Nat /\ nextCid <= nextCid'
    BY <1>T, <1>2 DEF TypeOK
  <1>4. TypeOK'
    <2>1. cid' \in [Workers -> Cids] /\ pc' \in [Workers -> Points]
      BY <1>T, <1>2 DEF TypeOK, Points, BusyPoints
    <2> QED BY <1>T, <1>1, <1>3, <2>1 DEF TypeOK, DiskKept
  <1>5. /\ \A v \in Workers : v # w => pc'[v] = pc[v] /\ cid'[v] = cid[v]
        /\ pc'[w] \in {"top", "exit", "compute"}
        /\ pc'[w] = "compute" => ok /\ cid'[w] = nextCid /\ nextCid' = nextCid + 1
                                    /\ nextCid \in Cids /\ ~doneFile[nextCid]
        /\ pc'[w] = "exit" /\ ok => nextCid \notin Cids
        /\ nextCid' # nextCid => nextCid' = nextCid + 1
        /\ nextCid' # nextCid /\ nextCid \in Cids => doneFile[nextCid] \/ pc'[w] = "compute"
    BY <1>T, <1>1, <1>2, <1>3 DEF TypeOK
  <1>6. PhaseInv'
    BY <1>1, <1>5 DEF IInv, PhaseInv
  <1>7. ClaimInv'
    <2>1. \A v \in Workers : v # w => (Busy(v)' <=> Busy(v))
      BY <1>5 DEF Busy
    <2>2. ~Busy(w) /\ (Busy(w)' => pc'[w] = "compute")
      BY <1>1, <1>5 DEF Busy, BusyPoints, CodecPoints
    <2>3. \A v \in Workers : Busy(v) => cid[v] \in Nat /\ cid[v] < nextCid /\ ~doneFile[cid[v]]
      BY <1>T, ConstFacts DEF TypeOK, IInv, ClaimInv
    <2>4. \A v \in Workers : Busy(v)' => cid'[v] < nextCid' /\ ~doneFile'[cid'[v]]
      BY <1>1, <1>3, <1>5, <2>1, <2>2, <2>3 DEF DiskKept
    <2>5. \A u, v \in Workers : u # v /\ Busy(u)' /\ Busy(v)' => cid'[u] # cid'[v]
      <3> SUFFICES ASSUME NEW u \in Workers, NEW v \in Workers, u # v, Busy(u)', Busy(v)'
                   PROVE  cid'[u] # cid'[v]
        OBVIOUS
      <3>1. CASE u = w
        BY <1>3, <1>5, <2>1, <2>2, <2>3, <3>1
      <3>2. CASE v = w
        BY <1>3, <1>5, <2>1, <2>2, <2>3, <3>2
      <3>3. CASE u # w /\ v # w
        BY <1>5, <2>1, <3>3 DEF IInv, ClaimInv
      <3> QED BY <3>1, <3>2, <3>3
    <2>6. ASSUME NEW c \in Cids, c < nextCid', ok'
          PROVE  doneFile'[c] \/ \E v \in Workers : Busy(v)' /\ cid'[v] = c
      <3>1. CASE c < nextCid
        <4>1. doneFile[c] \/ \E v \in Workers : Busy(v) /\ cid[v] = c
          BY <1>1, <2>6, <3>1 DEF IInv, ClaimInv
        <4> QED BY <1>1, <1>5, <2>1, <2>2, <4>1 DEF DiskKept
      <3>2. CASE ~(c < nextCid)
        <4>1. c = nextCid /\ nextCid' # nextCid
          <5>1. c \in Nat
            BY ConstFacts
          <5>2. nextCid' # nextCid => nextCid' = nextCid + 1
            BY <1>5
          <5> QED BY <1>3, <2>6, <3>2, <5>1, <5>2
        <4>2. doneFile[c] \/ (pc'[w] = "compute" /\ cid'[w] = c)
          BY <1>5, <4>1
        <4> QED BY <1>1, <4>2 DEF DiskKept, Busy, BusyPoints
      <3> QED BY <3>1, <3>2
    <2>7. ASSUME NEW v \in Workers, pc'[v] = "exit", ok' PROVE nextCid' >= NList
      <3>1. CASE v = w
        <4>1. nextCid \notin Cids
          BY <1>1, <1>5, <2>7, <3>1
        <4> QED BY <1>3, <4>1, SizesAssumption DEF Cids
      <3>2. CASE v # w
        <4>1. nextCid >= NList
          BY <1>1, <1>5, <2>7, <3>2 DEF IInv, ClaimInv
        <4> QED BY <1>3, <4>1, SizesAssumption
      <3> QED BY <3>1, <3>2
    <2> QED BY <2>4, <2>5, <2>6, <2>7 DEF ClaimInv
  <1>8. CursorInv' /\ MemoryInv' /\ StatsOfAllClusters'
    BY <1>1 DEF IInv, CursorInv, MemoryInv, StatsOfAllClusters, DiskKept
  <1>9. DisjointInv'
    <2>1. \A v \in Workers : pc'[v] = "payload" => pc[v] = "payload" /\ cid'[v] = cid[v]
      BY <1>5
    <2> QED BY <1>1, <2>1 DEF IInv, DisjointInv, Size
  <1>10. \A v \in Workers : WorkerInv(v)'
    <2>1. ASSUME NEW v \in Workers, v # w PROVE WorkerInv(v)'
      <3>1. WorkerKept(v) /\ PayloadKept /\ Untouched(cid[v])
        BY <1>1, <1>5, <2>1 DEF WorkerKept, PayloadKept, Untouched, DiskKept
      <3>2. StillFree(v)
        BY <1>1 DEF StillFree, IInv, WorkerInv, ExtentInv, DiskKept
      <3>3. knob' = knob /\ cursor' \in Nat /\ cursor <= cursor' /\ WorkerInv(v)
        BY <1>T, <1>1 DEF TypeOK, IInv
      <3> QED BY <1>T, <2>1, <3>1, <3>2, <3>3, OtherWorker
    <2> QED BY <1>5, <2>1, IdleWorker
  <1> QED BY <1>1, <1>4, <1>6, <1>7, <1>8, <1>9, <1>10, DiskKeptDone DEF IInv

-----------------------------------------------------------------------------
(* Start, end and kill of the process *)

(* With every worker out of the region, the invariant is about the disk only. *)
LEMMA TeamOff ==
    ASSUME TypeOK', \A v \in Workers : pc'[v] = "off", phase' # "running",
           DoneIsComplete', MetaMeansAllDone', StatsOfAllClusters',
           nextCid' = 0
    PROVE  IInv'
  <1>1. PhaseInv' /\ CursorInv' /\ MemoryInv' /\ DisjointInv'
    BY DEF PhaseInv, CursorInv, MemoryInv, DisjointInv
  <1>2. \A c \in Cids : ~(c < 0)
    BY DEF Cids
  <1>3. ClaimInv'
    BY <1>2 DEF ClaimInv, Busy, BusyPoints, CodecPoints
  <1>4. \A v \in Workers : WorkerInv(v)'
    BY IdleWorker
  <1> QED BY <1>1, <1>3, <1>4 DEF IInv

(* The end of the parallel region preserves IInv: without a failure no claimed
   cluster is left unpublished, so the list may be announced. *)
LEMMA JoinTeamStep == IInv /\ JoinTeam => IInv'
  <1> SUFFICES ASSUME IInv, JoinTeam PROVE IInv'
    OBVIOUS
  <1>T. TypeOK BY DEF IInv
  <1>1. /\ doneFile' = doneFile /\ statsFile' = statsFile /\ listData' = listData
        /\ scales' = scales /\ lens' = lens /\ offs' = offs
        /\ sizes' = sizes /\ payload' = payload /\ payloadLen' = payloadLen
        /\ starts' = starts /\ knob' = knob /\ clusterReal' = clusterReal
    BY DEF JoinTeam
  <1>2. /\ phase = "running" /\ \A v \in Workers : pc[v] = "exit"
        /\ \/ ~ok /\ phase' = "down" /\ listMeta' = listMeta
           \/ ok /\ phase' = "finished" /\ listMeta' = TRUE
    BY DEF JoinTeam
  <1>3. nextCid' = 0 /\ \A v \in Workers : pc'[v] = "off"
    BY DEF JoinTeam, ResetVolatile
  <1>4. TypeOK'
    <2>1. /\ ok' \in BOOLEAN /\ nextCid' \in Nat /\ cursor' \in Nat
          /\ pc' \in [Workers -> Points] /\ cid' \in [Workers -> Cids]
          /\ k' \in [Workers -> Nat \ {0}] /\ off' \in [Workers -> Nat] /\ pos' \in [Workers -> Nat]
      BY ConstFacts DEF JoinTeam, ResetVolatile, Points
    <2>2. phase' \in {"down", "running", "finished"} /\ listMeta' \in BOOLEAN
      BY <1>T, <1>2 DEF TypeOK
    <2> QED BY <1>T, <1>1, <2>1, <2>2 DEF TypeOK
  <1>5. ok => \A c \in Cids : doneFile[c]
    <2> SUFFICES ASSUME ok, NEW c \in Cids PROVE doneFile[c]
      OBVIOUS
    <2>1. \A v \in Workers : ~Busy(v)
      BY <1>2 DEF Busy, BusyPoints, CodecPoints
    <2>2. nextCid >= NList
      BY <1>2, WorkersAssumption DEF IInv, ClaimInv
    <2>3. c < nextCid
      BY <1>T, <2>2, SizesAssumption DEF TypeOK, Cids
    <2> QED BY <2>1, <2>3 DEF IInv, ClaimInv
  <1>6. DoneIsComplete'
    <2>1. \A c \in Cids, q \in Knobs : CodecIntact(c, q)' <=> CodecIntact(c, q)
      BY <1>1 DEF CodecIntact, StreamIntact
    <2>2. \A c \in Cids : Complete(c)' <=> Complete(c)
      BY <1>1, <2>1 DEF Complete, ListIntact
    <2> QED BY <1>1, <2>2 DEF IInv, DoneIsComplete
  <1>7. MetaMeansAllDone'
    BY <1>1, <1>2, <1>5 DEF IInv, MetaMeansAllDone
  <1>8. StatsOfAllClusters'
    <2>1. ok => \A c \in Cids : clusterReal[c] = NReal[c]
      BY <1>2, <1>5 DEF IInv, MemoryInv
    <2>2. ok => clusterReal = NReal
      BY <1>T, <2>1, ContentAssumption DEF TypeOK
    <2> QED BY <1>1, <1>2, <2>2 DEF StatsOfAllClusters
  <1> QED BY <1>2, <1>3, <1>4, <1>6, <1>7, <1>8, TeamOff

(* A kill preserves IInv: only the memory is lost. *)
LEMMA CrashStep == IInv /\ Crash => IInv'
  <1> SUFFICES ASSUME IInv, Crash PROVE IInv'
    OBVIOUS
  <1>T. TypeOK BY DEF IInv
  <1>1. DiskKept /\ starts' = starts /\ knob' = knob /\ phase' = "down" /\ clusterReal' = ZeroStats
    BY DEF Crash, disk, DiskKept
  <1>2. nextCid' = 0 /\ \A v \in Workers : pc'[v] = "off"
    BY DEF Crash, ResetVolatile
  <1>3. TypeOK'
    <2>1. /\ ok' \in BOOLEAN /\ nextCid' \in Nat /\ cursor' \in Nat
          /\ pc' \in [Workers -> Points] /\ cid' \in [Workers -> Cids]
          /\ k' \in [Workers -> Nat \ {0}] /\ off' \in [Workers -> Nat] /\ pos' \in [Workers -> Nat]
      BY ConstFacts DEF Crash, ResetVolatile, Points
    <2>2. clusterReal' \in [Cids -> Nat]
      BY <1>1 DEF ZeroStats
    <2> QED BY <1>T, <1>1, <2>1, <2>2 DEF TypeOK, DiskKept
  <1>4. StatsOfAllClusters'
    BY <1>1 DEF StatsOfAllClusters
  <1> QED BY <1>1, <1>2, <1>3, <1>4, DiskKeptDone, TeamOff

(* Opening the files: a resumed run keeps them, a fresh one empties them only
   when no cluster is published. *)
LEMMA StartDisk ==
    ASSUME IInv, Start
    PROVE  /\ DoneIsComplete' /\ MetaMeansAllDone'
           /\ listData' \in [Cids -> SUBSET ListFiles] /\ scales' \in [Cids -> Knobs \cup {None}]
           /\ lens' \in [Slots -> Knobs \cup {None}] /\ payloadLen' \in Nat
           /\ DOMAIN payload' \subseteq 0 .. payloadLen' - 1
           /\ payload' \in [DOMAIN payload' -> Knobs \X Cids \X Streams]
           /\ offs' \in [Slots -> Nat] /\ sizes' \in [Slots -> Nat]
           /\ cursor' \in Nat /\ payloadLen' <= cursor'
  <1>T. TypeOK BY DEF IInv
  <1>1. doneFile' = doneFile /\ statsFile' = statsFile /\ listMeta' = listMeta
    BY DEF Start
  <1>2. CASE ResumeWriters
    <2>1. DiskKept /\ cursor' = payloadLen
      BY <1>1, <1>2 DEF Start, OpenResume, DiskKept
    <2>2. DoneIsComplete' /\ MetaMeansAllDone'
      BY <2>1, DiskKeptDone
    <2>3. cursor' \in Nat /\ payloadLen' <= cursor'
      BY <1>T, <2>1 DEF TypeOK, DiskKept
    <2> QED BY <1>T, <2>1, <2>2, <2>3 DEF TypeOK, DiskKept
  <1>3. CASE ~ResumeWriters
    <2>1. /\ listData' = [c \in Cids |-> {}] /\ scales' = [c \in Cids |-> None]
          /\ lens' = [x \in Slots |-> None] /\ payload' = NoPayload /\ payloadLen' = 0
          /\ offs' = [x \in Slots |-> 0] /\ sizes' = [x \in Slots |-> 0] /\ cursor' = 0
      BY <1>3 DEF Start, OpenFresh
    <2>2. \A c \in Cids : ~doneFile[c]
      BY <1>3 DEF ResumeWriters
    <2>3. DoneIsComplete' /\ MetaMeansAllDone'
      BY <1>1, <2>2 DEF IInv, DoneIsComplete, MetaMeansAllDone
    <2>4. DOMAIN payload' = {} /\ payload' \in [DOMAIN payload' -> Knobs \X Cids \X Streams]
      BY <2>1 DEF NoPayload
    <2>5. listData' \in [Cids -> SUBSET ListFiles] /\ scales' \in [Cids -> Knobs \cup {None}]
          /\ lens' \in [Slots -> Knobs \cup {None}]
      BY <2>1
    <2>6. /\ offs' \in [Slots -> Nat] /\ sizes' \in [Slots -> Nat]
          /\ cursor' \in Nat /\ payloadLen' <= cursor' /\ payloadLen' \in Nat
      BY <2>1
    <2> QED BY <2>3, <2>4, <2>5, <2>6
  <1> QED BY <1>2, <1>3

(* A start, fresh or resumed, preserves IInv. *)
LEMMA StartStep == IInv /\ Start => IInv'
  <1> SUFFICES ASSUME IInv, Start PROVE IInv'
    OBVIOUS
  <1>T. TypeOK BY DEF IInv
  <1>1. /\ doneFile' = doneFile /\ statsFile' = statsFile /\ listMeta' = listMeta
        /\ phase' = "running" /\ starts' = starts + 1 /\ starts < MaxStarts
        /\ knob' \in Knobs /\ ok' = TRUE /\ nextCid' = 0
        /\ pc' = [v \in Workers |-> "top"]
        /\ cid' = cid /\ k' = k /\ off' = off /\ pos' = pos
        /\ clusterReal' = [c \in Cids |-> IF doneFile[c] THEN statsFile[c] ELSE 0]
    BY DEF Start, LoadStatsInto
  <1>2. \A v \in Workers : pc'[v] = "top"
    BY <1>1
  <1>3. TypeOK'
    <2>1. starts' \in 0 .. MaxStarts
      BY <1>T, <1>1, SizesAssumption DEF TypeOK
    <2>2. clusterReal' \in [Cids -> Nat]
      BY <1>T, <1>1 DEF TypeOK
    <2>3. pc' \in [Workers -> Points]
      BY <1>1 DEF Points
    <2> QED BY <1>T, <1>1, <2>1, <2>2, <2>3, StartDisk DEF TypeOK
  <1>4. PhaseInv' /\ DisjointInv' /\ StatsOfAllClusters'
    BY <1>1, <1>2 DEF PhaseInv, DisjointInv, StatsOfAllClusters
  <1>5. ClaimInv'
    <2>1. \A c \in Cids : ~(c < 0)
      BY DEF Cids
    <2> QED BY <1>1, <1>2, <2>1 DEF ClaimInv, Busy, BusyPoints, CodecPoints
  <1>6. CursorInv'
    BY StartDisk DEF CursorInv
  <1>7. MemoryInv'
    <2>1. \A c \in Cids : doneFile[c] => statsFile[c] = NReal[c]
      BY DEF IInv, DoneIsComplete, Complete
    <2> QED BY <1>1, <2>1 DEF MemoryInv
  <1>8. \A v \in Workers : WorkerInv(v)'
    BY <1>2, IdleWorker
  <1> QED BY <1>3, <1>4, <1>5, <1>6, <1>7, <1>8, StartDisk DEF IInv

(* A stuttering step preserves IInv. *)
LEMMA StutterStep == IInv /\ UNCHANGED vars => IInv'
  <1> SUFFICES ASSUME IInv, UNCHANGED vars PROVE IInv'
    OBVIOUS
  <1>1. DiskKept /\ TypeOK' /\ PhaseInv'
    BY DEF vars, DiskKept, TypeOK, PhaseInv, IInv
  <1>2. ClaimInv' /\ CursorInv' /\ DisjointInv' /\ MemoryInv'
    BY DEF vars, ClaimInv, CursorInv, DisjointInv, MemoryInv, IInv, Busy, Size
  <1>3. \A v \in Workers : WorkerInv(v)'
    <2> SUFFICES ASSUME NEW v \in Workers PROVE WorkerInv(v)'
      OBVIOUS
    <2>1. WorkerKept(v) /\ PayloadKept /\ Untouched(cid[v]) /\ StillFree(v)
      BY DEF vars, WorkerKept, PayloadKept, Untouched, StillFree, IInv, WorkerInv, ExtentInv
    <2>2. knob' = knob /\ cursor' \in Nat /\ cursor <= cursor' /\ WorkerInv(v) /\ TypeOK
      BY DEF vars, IInv, TypeOK
    <2> QED BY <2>1, <2>2, OtherWorker
  <1>4. StatsOfAllClusters'
    BY DEF vars, IInv, StatsOfAllClusters
  <1> QED BY <1>1, <1>2, <1>3, <1>4, DiskKeptDone DEF IInv

-----------------------------------------------------------------------------
(* The theorems *)

(* Every step of the build preserves the inductive invariant. *)
LEMMA NextIInv == IInv /\ [Next]_vars => IInv'
  <1> SUFFICES ASSUME IInv, [Next]_vars PROVE IInv'
    OBVIOUS
  <1>1. CASE Start
    BY <1>1, StartStep
  <1>2. ASSUME NEW w \in Workers, WorkerStep(w) PROVE IInv'
    <2>1. CASE ClaimCluster(w) BY <2>1, ClaimClusterStep
    <2>2. CASE ComputeCluster(w) BY <2>2, ComputeClusterStep
    <2>3. CASE WriteScales(w) BY <2>3, WriteScalesStep
    <2>4. CASE WriteLens(w) BY <2>4, WriteLensStep
    <2>5. CASE ReserveExtent(w) BY <2>5, ReserveExtentStep
    <2>6. CASE WritePayload(w) BY <2>6, WritePayloadStep
    <2>7. CASE WriteOffs(w) BY <2>7, WriteOffsStep
    <2>8. CASE WriteSizes(w) BY <2>8, WriteSizesStep
    <2>9. CASE WriteListFile(w) BY <2>9, WriteListFileStep
    <2>10. CASE MarkDoneStats(w) BY <2>10, MarkDoneStatsStep
    <2>11. CASE MarkDone(w) BY <2>11, MarkDoneStep
    <2> QED BY <1>2, <2>1, <2>2, <2>3, <2>4, <2>5, <2>6, <2>7, <2>8, <2>9, <2>10, <2>11
            DEF WorkerStep
  <1>3. ASSUME NEW w \in Workers, FailCluster(w) PROVE IInv'
    BY <1>3, FailClusterStep
  <1>4. CASE JoinTeam
    BY <1>4, JoinTeamStep
  <1>5. CASE Crash
    BY <1>5, CrashStep
  <1>6. CASE UNCHANGED vars
    BY <1>6, StutterStep
  <1> QED BY <1>1, <1>2, <1>3, <1>4, <1>5, <1>6 DEF Next

(* IInv holds in every reachable state, for every number of clusters, workers,
   streams, list files, knobs and restarts. *)
THEOREM Invariance == Spec => []IInv
  <1> QED BY InitIInv, NextIInv, PTL DEF Spec

(* The types of all state, disk and memory alike. *)
THEOREM TypeCorrect == Spec => []TypeOK
  <1>1. IInv => TypeOK BY DEF IInv
  <1> QED BY <1>1, Invariance, PTL

(* A cluster whose done byte is set is completely on disk: the promise the
   checkpoint's skip-on-resume relies on. *)
THEOREM DoneClustersComplete == Spec => []DoneIsComplete
  <1>1. IInv => DoneIsComplete BY DEF IInv
  <1> QED BY <1>1, Invariance, PTL

(* The list's meta.bin appears only when every cluster was published. *)
THEOREM MetaOnlyWhenAllDone == Spec => []MetaMeansAllDone
  <1>1. IInv => MetaMeansAllDone BY DEF IInv
  <1> QED BY <1>1, Invariance, PTL

(* The summary of a finished build covers every cluster, whichever run built it. *)
THEOREM StatsCoverAllClusters == Spec => []StatsOfAllClusters
  <1>1. IInv => StatsOfAllClusters BY DEF IInv
  <1> QED BY <1>1, Invariance, PTL

-----------------------------------------------------------------------------
(***************************************************************************)
(* What LinkageBuild promises over time, from its inductive invariant: a   *)
(* published cluster's record is never changed again, and the build        *)
(* implements ClusterLedger.  Both rest on NextKeepsPublished: a worker    *)
(* writes into the slots of a cluster that is not published and into bytes *)
(* of the payload file that nobody wrote, and only a start that finds no   *)
(* published cluster truncates the files.                                  *)
(***************************************************************************)

\* The slots of a cluster on disk, which a reader follows into the payload file.
SlotsKept(c) ==
    /\ listData'[c] = listData[c]
    /\ statsFile'[c] = statsFile[c]
    /\ scales'[c] = scales[c]
    /\ \A s \in Streams : /\ lens'[<<c, s>>] = lens[<<c, s>>]
                          /\ offs'[<<c, s>>] = offs[<<c, s>>]
                          /\ sizes'[<<c, s>>] = sizes[<<c, s>>]

\* What every step owes the published clusters.
KeepsDone ==
    \A c \in Cids : doneFile[c] => doneFile'[c] /\ SlotsKept(c) /\ PayloadKept

-----------------------------------------------------------------------------
(* Each action keeps the published clusters *)

(* A step that writes nothing keeps them. *)
LEMMA DiskKeptKeeps == DiskKept => KeepsDone
  BY DEF DiskKept, KeepsDone, SlotsKept, PayloadKept

(* A worker inside a cluster is not inside a published one. *)
LEMMA BusyElsewhere ==
    ASSUME IInv, NEW w \in Workers, Busy(w), NEW c \in Cids, doneFile[c]
    PROVE  c # cid[w] /\ cid[w] \in Cids
  BY DEF IInv, TypeOK, ClaimInv

(* The scales go into the worker's own slot, *)
LEMMA WriteScalesKeeps ==
    ASSUME IInv, NEW w \in Workers, WriteScales(w) PROVE KeepsDone
  <1> SUFFICES ASSUME NEW c \in Cids, doneFile[c]
               PROVE  doneFile'[c] /\ SlotsKept(c) /\ PayloadKept
    BY DEF KeepsDone
  <1>1. Busy(w)
    BY DEF WriteScales, Busy, BusyPoints, CodecPoints
  <1>2. scales \in [Cids -> Knobs \cup {None}]
    BY DEF IInv, TypeOK
  <1>3. scales'[c] = scales[c]
    BY <1>1, <1>2, BusyElsewhere DEF WriteScales
  <1> QED BY <1>3 DEF WriteScales, SlotsKept, PayloadKept

(* and so do the code lengths, *)
LEMMA WriteLensKeeps ==
    ASSUME IInv, NEW w \in Workers, WriteLens(w) PROVE KeepsDone
  <1> SUFFICES ASSUME NEW c \in Cids, doneFile[c]
               PROVE  doneFile'[c] /\ SlotsKept(c) /\ PayloadKept
    BY DEF KeepsDone
  <1>1. Busy(w)
    BY DEF WriteLens, Busy, BusyPoints, CodecPoints
  <1>2. lens \in [Slots -> Knobs \cup {None}]
    BY DEF IInv, TypeOK
  <1>3. \A s \in Streams : <<c, s>> \in Slots /\ <<c, s>> # <<cid[w], k[w]>>
    BY <1>1, BusyElsewhere DEF Slots
  <1>4. \A s \in Streams : lens'[<<c, s>>] = lens[<<c, s>>]
    BY <1>2, <1>3 DEF WriteLens
  <1> QED BY <1>4 DEF WriteLens, SlotsKept, PayloadKept

(* the offset of a stream, *)
LEMMA WriteOffsKeeps ==
    ASSUME IInv, NEW w \in Workers, WriteOffs(w) PROVE KeepsDone
  <1> SUFFICES ASSUME NEW c \in Cids, doneFile[c]
               PROVE  doneFile'[c] /\ SlotsKept(c) /\ PayloadKept
    BY DEF KeepsDone
  <1>1. Busy(w)
    BY DEF WriteOffs, Busy, BusyPoints, CodecPoints
  <1>2. offs \in [Slots -> Nat]
    BY DEF IInv, TypeOK
  <1>3. \A s \in Streams : <<c, s>> \in Slots /\ <<c, s>> # <<cid[w], k[w]>>
    BY <1>1, BusyElsewhere DEF Slots
  <1>4. \A s \in Streams : offs'[<<c, s>>] = offs[<<c, s>>]
    BY <1>2, <1>3 DEF WriteOffs
  <1> QED BY <1>4 DEF WriteOffs, SlotsKept, PayloadKept

(* and its size. *)
LEMMA WriteSizesKeeps ==
    ASSUME IInv, NEW w \in Workers, WriteSizes(w) PROVE KeepsDone
  <1> SUFFICES ASSUME NEW c \in Cids, doneFile[c]
               PROVE  doneFile'[c] /\ SlotsKept(c) /\ PayloadKept
    BY DEF KeepsDone
  <1>1. Busy(w)
    BY DEF WriteSizes, Busy, BusyPoints, CodecPoints
  <1>2. sizes \in [Slots -> Nat]
    BY DEF IInv, TypeOK
  <1>3. \A s \in Streams : <<c, s>> \in Slots /\ <<c, s>> # <<cid[w], k[w]>>
    BY <1>1, BusyElsewhere DEF Slots
  <1>4. sizes' = [sizes EXCEPT ![<<cid[w], k[w]>>] = Size(cid[w], k[w])]
    BY DEF WriteSizes
  <1>5. \A s \in Streams : sizes'[<<c, s>>] = sizes[<<c, s>>]
    BY <1>2, <1>3, <1>4
  <1>6. /\ doneFile' = doneFile /\ statsFile' = statsFile /\ listData' = listData
        /\ scales' = scales /\ lens' = lens /\ offs' = offs /\ payload' = payload
    BY DEF WriteSizes
  <1> QED BY <1>5, <1>6 DEF SlotsKept, PayloadKept

(* A positioned write changes no byte that was there: its extent is free. *)
LEMMA WritePayloadKeeps ==
    ASSUME IInv, NEW w \in Workers, WritePayload(w) PROVE KeepsDone
  <1>1. pc[w] = "payload" /\ off[w] \in Nat /\ pos[w] \in Nat /\ Size(cid[w], k[w]) \in Nat
    <2>1. pc[w] = "payload"
      BY DEF WritePayload
    <2>2. cid[w] \in Cids /\ knob \in Knobs /\ k[w] \in Streams
      BY <2>1 DEF IInv, TypeOK, WorkerInv, LoopInv, InStream, CodecPoints
    <2>3. off[w] \in Nat /\ pos[w] \in Nat
      BY DEF IInv, TypeOK
    <2> QED BY <2>1, <2>2, <2>3, ConstFacts DEF Size
  <1>2. PICK n \in 1 .. (Size(cid[w], k[w]) - pos[w]) :
          payload' = [i \in DOMAIN payload \cup Extent(off[w] + pos[w], n) |->
                        IF i \in Extent(off[w] + pos[w], n) THEN Tag(cid[w], k[w]) ELSE payload[i]]
    BY DEF WritePayload
  <1>3. \A i \in Extent(off[w] + pos[w], n) : i \notin DOMAIN payload
    <2>1. \A i \in Extent(off[w] + pos[w], n) :
             i \in Extent(off[w] + pos[w], Size(cid[w], k[w]) - pos[w])
      BY <1>1 DEF Extent
    <2> QED BY <1>1, <2>1 DEF IInv, WorkerInv, ExtentInv
  <1>4. PayloadKept
    BY <1>2, <1>3 DEF PayloadKept
  <1>5. /\ doneFile' = doneFile /\ statsFile' = statsFile /\ listData' = listData
        /\ scales' = scales /\ lens' = lens /\ offs' = offs /\ sizes' = sizes
    BY DEF WritePayload
  <1> QED BY <1>4, <1>5 DEF KeepsDone, SlotsKept

(* The list record goes into the worker's own range, *)
LEMMA WriteListFileKeeps ==
    ASSUME IInv, NEW w \in Workers, WriteListFile(w) PROVE KeepsDone
  <1> SUFFICES ASSUME NEW c \in Cids, doneFile[c]
               PROVE  doneFile'[c] /\ SlotsKept(c) /\ PayloadKept
    BY DEF KeepsDone
  <1>1. Busy(w)
    BY DEF WriteListFile, Busy, BusyPoints
  <1>2. listData \in [Cids -> SUBSET ListFiles]
    BY DEF IInv, TypeOK
  <1>3. listData' = [listData EXCEPT ![cid[w]] = listData[cid[w]] \cup {k[w]}]
    BY DEF WriteListFile
  <1>4. listData'[c] = listData[c]
    BY <1>1, <1>2, <1>3, BusyElsewhere
  <1>5. /\ doneFile' = doneFile /\ statsFile' = statsFile /\ scales' = scales
        /\ lens' = lens /\ offs' = offs /\ sizes' = sizes /\ payload' = payload
    BY DEF WriteListFile
  <1> QED BY <1>4, <1>5 DEF SlotsKept, PayloadKept

(* and the statistics into its own slot. *)
LEMMA MarkDoneStatsKeeps ==
    ASSUME IInv, NEW w \in Workers, MarkDoneStats(w) PROVE KeepsDone
  <1> SUFFICES ASSUME NEW c \in Cids, doneFile[c]
               PROVE  doneFile'[c] /\ SlotsKept(c) /\ PayloadKept
    BY DEF KeepsDone
  <1>1. Busy(w)
    BY DEF MarkDoneStats, Busy, BusyPoints
  <1>2. statsFile \in [Cids -> Nat]
    BY DEF IInv, TypeOK
  <1>3. statsFile'[c] = statsFile[c]
    BY <1>1, <1>2, BusyElsewhere DEF MarkDoneStats
  <1> QED BY <1>3 DEF MarkDoneStats, SlotsKept, PayloadKept

(* Publishing one cluster leaves the other published ones alone. *)
LEMMA MarkDoneKeeps ==
    ASSUME IInv, NEW w \in Workers, MarkDone(w) PROVE KeepsDone
  <1>1. doneFile \in [Cids -> BOOLEAN]
    BY DEF IInv, TypeOK
  <1>2. \A c \in Cids : doneFile[c] => doneFile'[c]
    BY <1>1 DEF MarkDone
  <1> QED BY <1>2 DEF MarkDone, KeepsDone, SlotsKept, PayloadKept

(* A start truncates the files only when nothing is published. *)
LEMMA StartKeeps == Start => KeepsDone
  <1> SUFFICES ASSUME Start, NEW c \in Cids, doneFile[c]
               PROVE  doneFile'[c] /\ SlotsKept(c) /\ PayloadKept
    BY DEF KeepsDone
  <1>1. ResumeWriters
    BY DEF ResumeWriters
  <1>2. OpenResume /\ doneFile' = doneFile /\ statsFile' = statsFile
    BY <1>1 DEF Start
  <1> QED BY <1>2 DEF OpenResume, SlotsKept, PayloadKept

(* No step of the build, its failures, kills and restarts touches a published
   cluster. *)
LEMMA NextKeepsPublished == IInv /\ [Next]_vars => KeepsDone
  <1> SUFFICES ASSUME IInv, [Next]_vars PROVE KeepsDone
    OBVIOUS
  <1>1. CASE Start
    BY <1>1, StartKeeps
  <1>2. ASSUME NEW w \in Workers, WorkerStep(w) PROVE KeepsDone
    <2>1. CASE ClaimCluster(w) \/ ComputeCluster(w) \/ ReserveExtent(w)
      <3>1. DiskKept
        BY <2>1 DEF ClaimCluster, ComputeCluster, ReserveExtent, disk, DiskKept
      <3> QED BY <3>1, DiskKeptKeeps
    <2>2. CASE WriteScales(w) BY <2>2, WriteScalesKeeps
    <2>3. CASE WriteLens(w) BY <2>3, WriteLensKeeps
    <2>4. CASE WritePayload(w) BY <2>4, WritePayloadKeeps
    <2>5. CASE WriteOffs(w) BY <2>5, WriteOffsKeeps
    <2>6. CASE WriteSizes(w) BY <2>6, WriteSizesKeeps
    <2>7. CASE WriteListFile(w) BY <2>7, WriteListFileKeeps
    <2>8. CASE MarkDoneStats(w) BY <2>8, MarkDoneStatsKeeps
    <2>9. CASE MarkDone(w) BY <2>9, MarkDoneKeeps
    <2> QED BY <1>2, <2>1, <2>2, <2>3, <2>4, <2>5, <2>6, <2>7, <2>8, <2>9 DEF WorkerStep
  <1>3. ASSUME NEW w \in Workers, FailCluster(w) PROVE KeepsDone
    <2>1. DiskKept
      BY <1>3 DEF FailCluster, disk, DiskKept
    <2> QED BY <2>1, DiskKeptKeeps
  <1>4. CASE JoinTeam
    BY <1>4 DEF JoinTeam, KeepsDone, SlotsKept, PayloadKept
  <1>5. CASE Crash
    <2>1. DiskKept
      BY <1>5 DEF Crash, disk, DiskKept
    <2> QED BY <2>1, DiskKeptKeeps
  <1>6. CASE UNCHANGED vars
    <2>1. DiskKept
      BY <1>6 DEF vars, DiskKept
    <2> QED BY <2>1, DiskKeptKeeps
  <1> QED BY <1>1, <1>2, <1>3, <1>4, <1>5, <1>6 DEF Next

-----------------------------------------------------------------------------
(* Published once and for all *)

(* What a reader follows from kept slots into a kept payload file is kept: the
   extents of a complete cluster hold no hole that a later write could fill. *)
LEMMA RecordKept ==
    ASSUME NEW c \in Cids, Complete(c), SlotsKept(c), PayloadKept
    PROVE  Record(c)' = Record(c)
  <1>1. PICK q \in Knobs : CodecIntact(c, q)
    BY DEF Complete
  <1> DEFINE Ext(s) == Extent(offs[<<c, s>>], sizes[<<c, s>>])
             Now(s) == [i \in Ext(s) \cap DOMAIN payload |-> payload[i]]
             Then(s) == [i \in Ext(s) \cap DOMAIN payload' |-> payload'[i]]
  <1>2. \A s \in Streams : \A i \in Ext(s) : i \in DOMAIN payload
    BY <1>1 DEF CodecIntact, StreamIntact
  <1>3. ASSUME NEW s \in Streams PROVE Then(s) = Now(s)
    <2>1. Ext(s) \cap DOMAIN payload' = Ext(s) \cap DOMAIN payload
      BY <1>2 DEF PayloadKept
    <2>2. \A i \in Ext(s) \cap DOMAIN payload : payload'[i] = payload[i]
      BY DEF PayloadKept
    <2> QED BY <2>1, <2>2
  <1>4. \A s \in Streams : /\ lens'[<<c, s>>] = lens[<<c, s>>]
                           /\ offs'[<<c, s>>] = offs[<<c, s>>]
                           /\ sizes'[<<c, s>>] = sizes[<<c, s>>]
    BY DEF SlotsKept
  <1>5. [s \in Streams |-> <<lens'[<<c, s>>], offs'[<<c, s>>], sizes'[<<c, s>>],
           [i \in Extent(offs'[<<c, s>>], sizes'[<<c, s>>]) \cap DOMAIN payload' |-> payload'[i]]>>]
        = [s \in Streams |-> <<lens[<<c, s>>], offs[<<c, s>>], sizes[<<c, s>>], Now(s)>>]
    <2>1. ASSUME NEW s \in Streams
          PROVE  [i \in Extent(offs'[<<c, s>>], sizes'[<<c, s>>]) \cap DOMAIN payload' |-> payload'[i]]
                 = Now(s)
      BY <1>3, <1>4
    <2> QED BY <1>4, <2>1
  <1> QED BY <1>5 DEF Record, SlotsKept

(* A published cluster stays published, and no later write of any worker, in
   this run or a resumed one, changes what a reader gets for it. *)
THEOREM PublishedStaysFrozen == Spec => PublishedIsFrozen
  <1>1. IInv /\ [Next]_vars =>
           [\A c \in Cids : doneFile[c] => doneFile'[c] /\ Record(c)' = Record(c)]_vars
    <2> SUFFICES ASSUME IInv, [Next]_vars, NEW c \in Cids, doneFile[c]
                 PROVE  doneFile'[c] /\ Record(c)' = Record(c)
      OBVIOUS
    <2>1. doneFile'[c] /\ SlotsKept(c) /\ PayloadKept
      BY NextKeepsPublished DEF KeepsDone
    <2>2. Complete(c)
      BY DEF IInv, DoneIsComplete
    <2> QED BY <2>1, <2>2, RecordKept
  <1> QED BY <1>1, Invariance, PTL DEF Spec, PublishedIsFrozen

-----------------------------------------------------------------------------
(* The build implements ClusterLedger *)

\* The refinement mapping of Ledger.
Published == [c \in Cids |-> IF doneFile[c] THEN Reads(c) ELSE None]

(* A complete cluster reads back with the settings that encoded it. *)
LEMMA CompleteReads ==
    ASSUME NEW c \in Cids, NEW q \in Knobs, CodecIntact(c, q), ListIntact(c)
    PROVE  Reads(c) = q
  <1>1. scales[c] = q
    BY DEF CodecIntact
  <1> QED BY <1>1 DEF Reads

(* Every step keeps what the published clusters read as. *)
LEMMA ReadsKept ==
    ASSUME IInv, [Next]_vars, NEW c \in Cids, doneFile[c]
    PROVE  doneFile'[c] /\ Reads(c)' = Reads(c) /\ Reads(c) \in Knobs
  <1>1. doneFile'[c] /\ SlotsKept(c) /\ PayloadKept
    BY NextKeepsPublished DEF KeepsDone
  <1>2. ListIntact(c) /\ \E q \in Knobs : CodecIntact(c, q)
    BY DEF IInv, DoneIsComplete, Complete
  <1>3. PICK q \in Knobs : CodecIntact(c, q)
    BY <1>2
  <1>4. Reads(c) = q
    BY <1>2, <1>3, CompleteReads
  <1>5. CodecIntact(c, q)'
    BY <1>1, <1>3, CodecKept DEF SlotsKept
  <1>6. ListIntact(c)' /\ scales'[c] = q
    BY <1>1, <1>2, <1>3 DEF ListIntact, SlotsKept, CodecIntact
  <1>7. Reads(c)' = q
    BY <1>5, <1>6 DEF Reads
  <1> QED BY <1>1, <1>4, <1>7

(* Setting the done byte publishes the worker's cluster with this run's knobs. *)
LEMMA MarkDonePublishes ==
    ASSUME IInv, NEW w \in Workers, MarkDone(w)
    PROVE  \E c \in Cids, q \in Knobs :
             /\ ~doneFile[c] /\ Reads(c)' = q
             /\ doneFile' = [doneFile EXCEPT ![c] = TRUE]
             /\ listMeta' = listMeta
  <1>1. pc[w] = "mark" /\ cid[w] \in Cids /\ knob \in Knobs
    BY DEF MarkDone, IInv, TypeOK
  <1>2. ~doneFile[cid[w]]
    BY <1>1 DEF IInv, ClaimInv, Busy, BusyPoints
  <1>3. CodecIntact(cid[w], knob) /\ ListIntact(cid[w])
    BY <1>1 DEF IInv, WorkerInv, CodecInv, ListInv
  <1>4. Reads(cid[w]) = knob
    BY <1>1, <1>3, CompleteReads
  <1>5. /\ listData' = listData /\ scales' = scales /\ lens' = lens /\ offs' = offs
        /\ sizes' = sizes /\ payload' = payload /\ listMeta' = listMeta
        /\ doneFile' = [doneFile EXCEPT ![cid[w]] = TRUE]
    BY DEF MarkDone
  <1>6. ASSUME NEW c \in Cids PROVE Reads(c)' = Reads(c)
    BY <1>5 DEF Reads, ListIntact, CodecIntact, StreamIntact
  <1> QED BY <1>1, <1>2, <1>4, <1>5, <1>6

(* Whatever else happens, no done byte changes, and the list is announced only
   when every cluster is done. *)
LEMMA OtherStepsSeal ==
    ASSUME IInv, [Next]_vars, \A w \in Workers : ~MarkDone(w)
    PROVE  /\ doneFile' = doneFile
           /\ \/ listMeta' = listMeta
              \/ listMeta' = TRUE /\ \A c \in Cids : doneFile[c]
  <1>1. CASE Start
    BY <1>1 DEF Start
  <1>2. ASSUME NEW w \in Workers, WorkerStep(w)
        PROVE  doneFile' = doneFile /\ listMeta' = listMeta
    <2>1. CASE ClaimCluster(w) \/ ComputeCluster(w) \/ ReserveExtent(w)
      BY <2>1 DEF ClaimCluster, ComputeCluster, ReserveExtent, disk
    <2>2. CASE WriteScales(w) \/ WriteLens(w) \/ WriteOffs(w) \/ WritePayload(w)
      BY <2>2 DEF WriteScales, WriteLens, WriteOffs, WritePayload
    <2>3. CASE WriteSizes(w) \/ WriteListFile(w) \/ MarkDoneStats(w)
      BY <2>3 DEF WriteSizes, WriteListFile, MarkDoneStats
    <2> QED BY <1>2, <2>1, <2>2, <2>3 DEF WorkerStep
  <1>3. ASSUME NEW w \in Workers, FailCluster(w)
        PROVE  doneFile' = doneFile /\ listMeta' = listMeta
    BY <1>3 DEF FailCluster, disk
  <1>4. CASE JoinTeam
    <2>1. IInv' /\ doneFile' = doneFile
      BY <1>4, JoinTeamStep DEF JoinTeam
    <2>2. listMeta' = listMeta \/ listMeta' = TRUE
      BY <1>4 DEF JoinTeam
    <2>3. listMeta' => \A c \in Cids : doneFile[c]
      BY <2>1 DEF IInv, MetaMeansAllDone
    <2> QED BY <2>1, <2>2, <2>3
  <1>5. CASE Crash
    BY <1>5 DEF Crash, disk
  <1>6. CASE UNCHANGED vars
    BY <1>6 DEF vars
  <1> QED BY <1>1, <1>2, <1>3, <1>4, <1>5, <1>6 DEF Next

(* The empty directory is the empty ledger. *)
LEMMA InitLedger == Init => Ledger!Init
  <1> SUFFICES ASSUME Init PROVE Ledger!Init
    OBVIOUS
  <1>1. \A c \in Cids : ~doneFile[c]
    BY DEF Init
  <1>2. listMeta = FALSE
    BY DEF Init
  <1> QED BY <1>1, <1>2 DEF Ledger!Init

(* Every step of the build is a step of the ledger or invisible to it. *)
LEMMA NextLedger == IInv /\ [Next]_vars => [Ledger!Next]_(Ledger!vars)
  <1> SUFFICES ASSUME IInv, [Next]_vars PROVE [Ledger!Next]_(Ledger!vars)
    OBVIOUS
  <1>1. \A c \in Cids : doneFile[c] =>
           doneFile'[c] /\ Reads(c)' = Reads(c) /\ Reads(c) \in Knobs
    BY ReadsKept
  <1>2. doneFile \in [Cids -> BOOLEAN]
    BY DEF IInv, TypeOK
  <1>3. ASSUME NEW w \in Workers, MarkDone(w) PROVE Ledger!Next
    <2>1. PICK c \in Cids, q \in Knobs :
             /\ ~doneFile[c] /\ Reads(c)' = q
             /\ doneFile' = [doneFile EXCEPT ![c] = TRUE]
             /\ listMeta' = listMeta
      BY <1>3, MarkDonePublishes
    <2>2. Published[c] = None
      BY <2>1 DEF Published
    <2>3. \A d \in Cids : doneFile'[d] <=> (doneFile[d] \/ d = c)
      BY <1>2, <2>1
    <2>4. Published' = [Published EXCEPT ![c] = q]
      <3>1. \A d \in Cids : (IF doneFile'[d] THEN Reads(d)' ELSE None)
                            = (IF d = c THEN q ELSE Published[d])
        BY <1>1, <2>1, <2>3 DEF Published
      <3>2. Published' = [d \in Cids |-> IF doneFile'[d] THEN Reads(d)' ELSE None]
        BY DEF Published
      <3>3. Published = [d \in Cids |-> Published[d]]
        BY DEF Published
      <3> QED BY <3>1, <3>2, <3>3
    <2>5. Ledger!Publish(c)
      BY <2>1, <2>2, <2>4 DEF Ledger!Publish, Published
    <2> QED BY <2>5 DEF Ledger!Next
  <1>4. CASE \A w \in Workers : ~MarkDone(w)
    <2>1. /\ doneFile' = doneFile
          /\ \/ listMeta' = listMeta
             \/ listMeta' = TRUE /\ \A c \in Cids : doneFile[c]
      BY <1>4, OtherStepsSeal
    <2>2. Published' = Published
      <3>1. \A d \in Cids : (IF doneFile'[d] THEN Reads(d)' ELSE None)
                            = (IF doneFile[d] THEN Reads(d) ELSE None)
        BY <1>1, <2>1
      <3> QED BY <3>1 DEF Published
    <2>3. CASE listMeta' = listMeta
      BY <2>2, <2>3 DEF Published, Ledger!vars
    <2>4. CASE listMeta' = TRUE /\ \A c \in Cids : doneFile[c]
      <3>1. \A c \in Cids : Published[c] # None
        BY <1>1, <2>4, NoneAssumption DEF Published
      <3>2. Ledger!Seal
        BY <2>2, <2>4, <3>1 DEF Published, Ledger!Seal
      <3> QED BY <3>2 DEF Ledger!Next
    <2> QED BY <2>1, <2>3, <2>4
  <1> QED BY <1>3, <1>4

(* Workers, files, failures, kills and restarts together are one ledger to which
   clusters are added one at a time, each readable and once and for all, and
   which is sealed when nothing is missing. *)
THEOREM LedgerImplemented == Spec => ImplementsLedger
  <1> QED BY InitLedger, NextLedger, Invariance, PTL DEF Spec, ImplementsLedger, Ledger!Spec
=============================================================================
