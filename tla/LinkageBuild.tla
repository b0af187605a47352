------------------------------ MODULE LinkageBuild ------------------------------
(***************************************************************************)
(* The base-set linkage build: one process at a time runs an OpenMP team   *)
(* of workers that write every cluster's coefficient-codec record and      *)
(* linkage-list record with positioned writes, then publish the cluster in *)
(* a per-cluster done file.  The process may be killed between any two     *)
(* writes, any write may fail, and the program may be started again on the *)
(* same directory, when it skips the clusters whose done byte is set.      *)
(*                                                                         *)
(* Source: BuildLinkageTwoCodebookVirtualStreamingByCluster                *)
(* (src/linkage/linkage_base_streaming_builder.cpp), ClusterCheckpoint     *)
(* (src/linkage/linkage_streaming_support.cpp),                            *)
(* LinkageCoeffCodecRandomWriter (src/io/linkage_coeff_codec_store.cpp)    *)
(* and LinkageListRandomWriter (src/io/linkage_list_store.cpp).            *)
(*                                                                         *)
(* A kill keeps what was written (the page cache survives it); the loss of *)
(* power, which may drop writes that were never synced, is LinkagePowerLoss.*)
(***************************************************************************)
EXTENDS Integers

CONSTANTS
    NList,          \* number of clusters
    Workers,        \* the OpenMP team
    Knobs,          \* codec settings of equal layout (max_bits, granularity)
    None,           \* content of a codec slot nobody wrote
    NStreams,       \* codec streams of a cluster: 2 groups x meta_.streams
    NListFiles,     \* payload files of the linkage list
    PayloadBytes,   \* size of the entropy-coded stream s of cluster c under k
    NReal,          \* real vectors in a cluster: stands for all its statistics
    MaxStarts       \* bound on the number of times the program is started

Cids == 0 .. NList - 1
Streams == 1 .. NStreams
ListFiles == 1 .. NListFiles
Slots == Cids \X Streams

ASSUME SizesAssumption ==
    /\ NList \in Nat \ {0} /\ NStreams \in Nat \ {0} /\ NListFiles \in Nat \ {0}
    /\ MaxStarts \in Nat
ASSUME WorkersAssumption == Workers # {}
ASSUME NoneAssumption == None \notin Knobs
ASSUME ContentAssumption ==
    /\ PayloadBytes \in [Knobs \X Cids \X Streams -> Nat]
    /\ NReal \in [Cids -> Nat]

VARIABLES
    \* ---- the output directory, which survives the process ----
    doneFile,       \* ckpt_linkage_done.u8
    statsFile,      \* ckpt_linkage_stats_v1.bin
    listData,       \* linkage-list payload files in which a cluster's range is written
    listMeta,       \* meta.bin of the linkage list exists
    scales, lens,   \* coeff_scales.f32, coeff_lens.u8: the knobs they were fitted with
    payload,        \* coeff_payload.bin: written bytes only, the rest of the file is holes
    payloadLen,     \* size of coeff_payload.bin
    offs, sizes,    \* coeff_payload_offs.u64, coeff_payload_sizes.u32
    \* ---- the process ----
    phase,          \* "down", "running" or "finished"
    starts,
    knob,           \* codec settings of this run
    ok,             \* shared failure flag of the team
    nextCid,        \* next_cid, the shared claim counter
    cursor,         \* payload_cursor_
    clusterReal,    \* cluster_real and the other per-cluster statistics
    \* ---- the workers ----
    pc, cid, k, off, pos

disk == <<doneFile, statsFile, listData, listMeta, scales, lens, payload,
          payloadLen, offs, sizes>>
process == <<phase, starts, knob, ok, nextCid, cursor, clusterReal>>
workers == <<pc, cid, k, off, pos>>
vars == <<doneFile, statsFile, listData, listMeta, scales, lens, payload,
          payloadLen, offs, sizes, phase, starts, knob, ok, nextCid, cursor,
          clusterReal, pc, cid, k, off, pos>>

(***************************************************************************)
(* Control points of a worker.  "top" is the head of the while loop; the   *)
(* others are named for the next write the worker issues.                  *)
(***************************************************************************)
CodecPoints == {"scales", "lens", "reserve", "payload", "offs", "sizes"}
BusyPoints == {"compute", "list", "stats", "mark"} \cup CodecPoints
Points == {"off", "top", "exit"} \cup BusyPoints

Tag(c, s) == <<knob, c, s>>     \* what a byte of stream s of cluster c holds
Size(c, s) == PayloadBytes[knob, c, s]
Extent(o, n) == o .. (o + n - 1)

TypeOK ==
    /\ doneFile \in [Cids -> BOOLEAN]
    /\ statsFile \in [Cids -> Nat]
    /\ listData \in [Cids -> SUBSET ListFiles]
    /\ listMeta \in BOOLEAN
    /\ scales \in [Cids -> Knobs \cup {None}]
    /\ lens \in [Slots -> Knobs \cup {None}]
    /\ payloadLen \in Nat
    /\ DOMAIN payload \subseteq 0 .. payloadLen - 1
    /\ payload \in [DOMAIN payload -> Knobs \X Cids \X Streams]
    /\ offs \in [Slots -> Nat]
    /\ sizes \in [Slots -> Nat]
    /\ phase \in {"down", "running", "finished"}
    /\ starts \in 0 .. MaxStarts
    /\ knob \in Knobs
    /\ ok \in BOOLEAN
    /\ nextCid \in Nat
    /\ cursor \in Nat
    /\ clusterReal \in [Cids -> Nat]
    /\ pc \in [Workers -> Points]
    /\ cid \in [Workers -> Cids]
    /\ k \in [Workers -> Nat \ {0}]
    /\ off \in [Workers -> Nat]
    /\ pos \in [Workers -> Nat]

-----------------------------------------------------------------------------
(* Start-up: ClusterCheckpoint::Open, the writers' Open or OpenResume, LoadStatsInto *)

ZeroStats == [c \in Cids |-> 0]
NoPayload == [i \in {} |-> <<>>]

Init ==
    /\ doneFile = [c \in Cids |-> FALSE]
    /\ statsFile = ZeroStats
    /\ listData = [c \in Cids |-> {}]
    /\ listMeta = FALSE
    /\ scales = [c \in Cids |-> None]
    /\ lens = [x \in Slots |-> None]
    /\ payload = NoPayload
    /\ payloadLen = 0
    /\ offs = [x \in Slots |-> 0]
    /\ sizes = [x \in Slots |-> 0]
    /\ phase = "down"
    /\ starts = 0
    /\ knob \in Knobs
    /\ ok = TRUE
    /\ nextCid = 0
    /\ cursor = 0
    /\ clusterReal = ZeroStats
    /\ pc = [w \in Workers |-> "off"]
    /\ cid = [w \in Workers |-> 0]
    /\ k = [w \in Workers |-> 1]
    /\ off = [w \in Workers |-> 0]
    /\ pos = [w \in Workers |-> 0]

\* LinkageListRandomWriter::Open and LinkageCoeffCodecRandomWriter::Open:
\* every payload file is truncated and re-extended with zeros.
OpenFresh ==
    /\ listData' = [c \in Cids |-> {}]
    /\ scales' = [c \in Cids |-> None]
    /\ lens' = [x \in Slots |-> None]
    /\ payload' = NoPayload
    /\ payloadLen' = 0
    /\ offs' = [x \in Slots |-> 0]
    /\ sizes' = [x \in Slots |-> 0]
    /\ cursor' = 0

\* Seeded bug: a resumed run appends from the start of the payload file.
CursorFromZero ==
    /\ cursor' = 0
    /\ UNCHANGED <<listData, scales, lens, payload, payloadLen, offs, sizes>>

\* Both OpenResume functions: the files are kept and the append cursor starts
\* at the end of the payload file.
OpenResume ==
    /\ cursor' = payloadLen
    /\ UNCHANGED <<listData, scales, lens, payload, payloadLen, offs, sizes>>

\* Seeded bug: the statistics of the finished clusters are not restored.
LoadNoStats == clusterReal' = ZeroStats

\* ClusterCheckpoint::LoadStatsInto restores the clusters marked done only.
LoadStatsInto ==
    clusterReal' = [c \in Cids |-> IF doneFile[c] THEN statsFile[c] ELSE 0]

\* Seeded bug: an unfinished store is truncated although clusters are done.
ResumeOnlyIfAllDone == \A c \in Cids : doneFile[c]

\* resume_writers: some done byte is set.
ResumeWriters == \E c \in Cids : doneFile[c]

Start ==
    /\ phase # "running"
    /\ starts < MaxStarts
    /\ starts' = starts + 1
    /\ knob' \in Knobs
    /\ IF ResumeWriters THEN OpenResume ELSE OpenFresh
    /\ LoadStatsInto
    /\ phase' = "running"
    /\ ok' = TRUE
    /\ nextCid' = 0
    /\ pc' = [w \in Workers |-> "top"]
    /\ UNCHANGED <<doneFile, statsFile, listMeta, cid, k, off, pos>>

-----------------------------------------------------------------------------
(* The loop of a worker *)

Goto(w, point) == pc' = [pc EXCEPT ![w] = point]

\* Seeded bug: the done byte is not consulted, finished clusters are redone.
ClaimDoneClusters(w) ==
    /\ pc[w] = "top"
    /\ \/ /\ ~ok
          /\ Goto(w, "exit")
          /\ UNCHANGED <<nextCid, cid>>
       \/ /\ ok
          /\ nextCid' = nextCid + 1
          /\ \/ /\ nextCid \notin Cids
                /\ Goto(w, "exit")
                /\ UNCHANGED cid
             \/ /\ nextCid \in Cids
                /\ cid' = [cid EXCEPT ![w] = nextCid]
                /\ Goto(w, "compute")
    /\ UNCHANGED <<disk, phase, starts, knob, ok, cursor, clusterReal, k, off, pos>>

\* The head of the loop: leave when the team has failed or the clusters have
\* run out, otherwise claim the next one.
ClaimCluster(w) ==
    /\ pc[w] = "top"
    /\ \/ /\ ~ok
          /\ Goto(w, "exit")
          /\ UNCHANGED <<nextCid, cid>>
       \/ /\ ok
          /\ nextCid' = nextCid + 1
          /\ \/ /\ nextCid \notin Cids
                /\ Goto(w, "exit")
                /\ UNCHANGED cid
             \/ /\ nextCid \in Cids
                /\ doneFile[nextCid]        \* IsDone: skip
                /\ UNCHANGED <<pc, cid>>
             \/ /\ nextCid \in Cids
                /\ ~doneFile[nextCid]
                /\ cid' = [cid EXCEPT ![w] = nextCid]
                /\ Goto(w, "compute")
    /\ UNCHANGED <<disk, phase, starts, knob, ok, cursor, clusterReal, k, off, pos>>

\* Read the spans, build the cluster, record its statistics.
ComputeCluster(w) ==
    /\ pc[w] = "compute"
    /\ clusterReal' = [clusterReal EXCEPT ![cid[w]] = NReal[cid[w]]]
    /\ Goto(w, "scales")
    /\ UNCHANGED <<disk, phase, starts, knob, ok, nextCid, cursor, cid, k, off, pos>>

WriteScales(w) ==
    /\ pc[w] = "scales"
    /\ scales' = [scales EXCEPT ![cid[w]] = knob]
    /\ k' = [k EXCEPT ![w] = 1]
    /\ Goto(w, "lens")
    /\ UNCHANGED <<doneFile, statsFile, listData, listMeta, lens, payload,
                   payloadLen, offs, sizes, process, cid, off, pos>>

WriteLens(w) ==
    /\ pc[w] = "lens"
    /\ lens' = [lens EXCEPT ![<<cid[w], k[w]>>] = knob]
    /\ Goto(w, "reserve")
    /\ UNCHANGED <<doneFile, statsFile, listData, listMeta, scales, payload,
                   payloadLen, offs, sizes, process, cid, k, off, pos>>

\* Seeded bug: the cursor is read but not advanced.
ReserveNothing(w) ==
    /\ pc[w] = "reserve"
    /\ off' = [off EXCEPT ![w] = cursor]
    /\ pos' = [pos EXCEPT ![w] = 0]
    /\ Goto(w, IF Size(cid[w], k[w]) > 0 THEN "payload" ELSE "offs")
    /\ UNCHANGED <<disk, process, cid, k>>

\* payload_cursor_.fetch_add(sz): the extent is reserved before it is written.
ReserveExtent(w) ==
    /\ pc[w] = "reserve"
    /\ off' = [off EXCEPT ![w] = cursor]
    /\ pos' = [pos EXCEPT ![w] = 0]
    /\ cursor' = cursor + Size(cid[w], k[w])
    /\ Goto(w, IF Size(cid[w], k[w]) > 0 THEN "payload" ELSE "offs")
    /\ UNCHANGED <<disk, phase, starts, knob, ok, nextCid, clusterReal, cid, k>>

\* One pwrite of PwriteAll: it may write any non-empty prefix of what is left.
WritePayload(w) ==
    /\ pc[w] = "payload"
    /\ \E n \in 1 .. (Size(cid[w], k[w]) - pos[w]) :
          LET written == Extent(off[w] + pos[w], n)
              end == off[w] + pos[w] + n
          IN  /\ payload' = [i \in DOMAIN payload \cup written |->
                               IF i \in written THEN Tag(cid[w], k[w]) ELSE payload[i]]
              /\ payloadLen' = IF end > payloadLen THEN end ELSE payloadLen
              /\ pos' = [pos EXCEPT ![w] = pos[w] + n]
              /\ Goto(w, IF pos[w] + n = Size(cid[w], k[w]) THEN "offs" ELSE "payload")
    /\ UNCHANGED <<doneFile, statsFile, listData, listMeta, scales, lens, offs,
                   sizes, process, cid, k, off>>

WriteOffs(w) ==
    /\ pc[w] = "offs"
    /\ offs' = [offs EXCEPT ![<<cid[w], k[w]>>] = off[w]]
    /\ Goto(w, "sizes")
    /\ UNCHANGED <<doneFile, statsFile, listData, listMeta, scales, lens, payload,
                   payloadLen, sizes, process, cid, k, off, pos>>

WriteSizes(w) ==
    /\ pc[w] = "sizes"
    /\ sizes' = [sizes EXCEPT ![<<cid[w], k[w]>>] = Size(cid[w], k[w])]
    /\ \/ /\ k[w] < NStreams
          /\ k' = [k EXCEPT ![w] = k[w] + 1]
          /\ Goto(w, "lens")
       \/ /\ k[w] >= NStreams
          /\ k' = [k EXCEPT ![w] = 1]
          /\ Goto(w, "list")
    /\ UNCHANGED <<doneFile, statsFile, listData, listMeta, scales, lens, payload,
                   payloadLen, offs, process, cid, off, pos>>

\* LinkageListRandomWriter::WriteClusterAt, one payload file after the other.
WriteListFile(w) ==
    /\ pc[w] = "list"
    /\ listData' = [listData EXCEPT ![cid[w]] = listData[cid[w]] \cup {k[w]}]
    /\ \/ /\ k[w] < NListFiles
          /\ k' = [k EXCEPT ![w] = k[w] + 1]
          /\ UNCHANGED pc
       \/ /\ k[w] >= NListFiles
          /\ Goto(w, "stats")
          /\ UNCHANGED k
    /\ UNCHANGED <<doneFile, statsFile, listMeta, scales, lens, payload,
                   payloadLen, offs, sizes, process, cid, off, pos>>

\* The two writes of ClusterCheckpoint::MarkDone.
MarkDoneStats(w) ==
    /\ pc[w] = "stats"
    /\ statsFile' = [statsFile EXCEPT ![cid[w]] = clusterReal[cid[w]]]
    /\ Goto(w, "mark")
    /\ UNCHANGED <<doneFile, listData, listMeta, scales, lens, payload,
                   payloadLen, offs, sizes, process, cid, k, off, pos>>

MarkDone(w) ==
    /\ pc[w] = "mark"
    /\ doneFile' = [doneFile EXCEPT ![cid[w]] = TRUE]
    /\ Goto(w, "top")
    /\ UNCHANGED <<statsFile, listData, listMeta, scales, lens, payload,
                   payloadLen, offs, sizes, process, cid, k, off, pos>>

\* Seeded bug: a failed cluster is tried again, for as long as it fails.
RetryCluster(w) ==
    /\ pc[w] \in BusyPoints \ {"reserve"}
    /\ Goto(w, "compute")
    /\ UNCHANGED <<disk, process, cid, k, off, pos>>

\* fail(): a read, an encoding or a write returned an error; the cluster is
\* abandoned and the team winds down.
FailCluster(w) ==
    /\ pc[w] \in BusyPoints \ {"reserve"}
    /\ ok' = FALSE
    /\ Goto(w, "top")
    /\ UNCHANGED <<disk, phase, starts, knob, nextCid, cursor, clusterReal,
                   cid, k, off, pos>>

-----------------------------------------------------------------------------
(* The end of the parallel region, and the end of the process *)

ResetVolatile ==
    /\ ok' = TRUE
    /\ nextCid' = 0
    /\ cursor' = 0
    /\ pc' = [w \in Workers |-> "off"]
    /\ cid' = [w \in Workers |-> 0]
    /\ k' = [w \in Workers |-> 1]
    /\ off' = [w \in Workers |-> 0]
    /\ pos' = [w \in Workers |-> 0]

\* Seeded bug: the writers are finished although the team failed.
JoinFinishesAlways ==
    /\ phase = "running"
    /\ \A w \in Workers : pc[w] = "exit"
    /\ phase' = IF ok THEN "finished" ELSE "down"
    /\ listMeta' = TRUE
    /\ ResetVolatile
    /\ UNCHANGED <<doneFile, statsFile, listData, scales, lens, payload,
                   payloadLen, offs, sizes, starts, knob, clusterReal>>

\* Past the barrier: return the first error, or Finish the writers, which
\* creates the linkage list's meta.bin.
JoinTeam ==
    /\ phase = "running"
    /\ \A w \in Workers : pc[w] = "exit"
    /\ \/ /\ ~ok
          /\ phase' = "down"
          /\ UNCHANGED listMeta
       \/ /\ ok
          /\ phase' = "finished"
          /\ listMeta' = TRUE
    /\ ResetVolatile
    /\ UNCHANGED <<doneFile, statsFile, listData, scales, lens, payload,
                   payloadLen, offs, sizes, starts, knob, clusterReal>>

\* The process is killed.
Crash ==
    /\ phase = "running"
    /\ phase' = "down"
    /\ clusterReal' = ZeroStats
    /\ ResetVolatile
    /\ UNCHANGED <<disk, starts, knob>>

WorkerStep(w) ==
    \/ ClaimCluster(w) \/ ComputeCluster(w)
    \/ WriteScales(w) \/ WriteLens(w) \/ ReserveExtent(w) \/ WritePayload(w)
    \/ WriteOffs(w) \/ WriteSizes(w)
    \/ WriteListFile(w) \/ MarkDoneStats(w) \/ MarkDone(w)

Next ==
    \/ Start
    \/ \E w \in Workers : WorkerStep(w)
    \/ \E w \in Workers : FailCluster(w)
    \/ JoinTeam
    \/ Crash

Spec == Init /\ [][Next]_vars

\* The operating system runs every worker, and the team's master passes the
\* barrier; nobody promises that a killed program is started again.
Fairness ==
    /\ \A w \in Workers : WF_vars(WorkerStep(w))
    /\ WF_vars(JoinTeam)

FairSpec == Spec /\ Fairness

-----------------------------------------------------------------------------
(* What a reader of the finished files sees *)

\* Stream s of cluster c decodes to what a build with knobs q encoded.
StreamIntact(c, s, q) ==
    /\ lens[<<c, s>>] = q
    /\ sizes[<<c, s>>] = PayloadBytes[q, c, s]
    /\ \A i \in Extent(offs[<<c, s>>], sizes[<<c, s>>]) :
          i \in DOMAIN payload /\ payload[i] = <<q, c, s>>

CodecIntact(c, q) == scales[c] = q /\ \A s \in Streams : StreamIntact(c, s, q)

ListIntact(c) == listData[c] = ListFiles

Complete(c) ==
    /\ ListIntact(c)
    /\ statsFile[c] = NReal[c]
    /\ \E q \in Knobs : CodecIntact(c, q)

(* A done byte is a promise: whatever interleaving of workers, failed writes,
   kills and restarts led here, the list record, the statistics and every
   codec stream of a cluster marked done are complete on disk, and all its
   codec pieces come from one and the same run's settings. *)
DoneIsComplete == \A c \in Cids : doneFile[c] => Complete(c)

(* meta.bin, which makes the directory a readable linkage list, exists only
   when every cluster was published. *)
MetaMeansAllDone == listMeta => \A c \in Cids : doneFile[c]

(* The totals of the summary: a build that finished after any number of kills
   and restarts reports the statistics of every cluster, restored or computed. *)
StatsOfAllClusters == phase = "finished" => clusterReal = NReal

(* Once published, a cluster stays published and no later write of any
   worker, in this run or a resumed one, changes what a reader gets for it:
   extents reserved from the cursor never reach into a published extent. *)
Record(c) ==
    <<listData[c], statsFile[c], scales[c],
      [s \in Streams |-> <<lens[<<c, s>>], offs[<<c, s>>], sizes[<<c, s>>],
         [i \in Extent(offs[<<c, s>>], sizes[<<c, s>>]) \cap DOMAIN payload |->
            payload[i]]>>]>>

PublishedIsFrozen ==
    [][\A c \in Cids : doneFile[c] => doneFile'[c] /\ Record(c)' = Record(c)]_vars

(* Every run of the program ends: the team drains the clusters, or winds down
   after a failure, and the barrier is passed. *)
RunEnds == phase = "running" ~> phase # "running"
(***************************************************************************)
(* The build implements ClusterLedger.  A cluster counts as published with *)
(* the settings its scales carry, provided everything else a reader needs  *)
(* agrees with them; a done cluster that does not read back would map to   *)
(* "corrupt", which ClusterLedger cannot publish.                          *)
(***************************************************************************)
Reads(c) ==
    IF ListIntact(c) /\ scales[c] \in Knobs /\ CodecIntact(c, scales[c])
    THEN scales[c] ELSE "corrupt"

Ledger == INSTANCE ClusterLedger WITH
    published <- [c \in Cids |-> IF doneFile[c] THEN Reads(c) ELSE None],
    sealed <- listMeta

(* Every step of workers, failures, kills and restarts is one publication of
   one readable cluster, the sealing of a complete store, or invisible. *)
ImplementsLedger == Ledger!Spec

-----------------------------------------------------------------------------
(***************************************************************************)
(* The inductive invariant behind these properties.  The point of it is    *)
(* CursorInv, DisjointInv and ExtentInv: what a worker has reserved and    *)
(* not yet written is no byte of the payload file and belongs to no other  *)
(* worker, so no write into the payload file changes a byte that is there. *)
(***************************************************************************)
Busy(w) == pc[w] \in BusyPoints
InStream(w) == pc[w] \in CodecPoints \ {"scales"}

PhaseInv ==
    /\ phase = "running" => \A w \in Workers : pc[w] # "off"
    /\ phase # "running" => \A w \in Workers : pc[w] = "off"

\* Clusters are claimed by one worker each, and none is forgotten.
ClaimInv ==
    /\ \A w \in Workers : Busy(w) => cid[w] < nextCid /\ ~doneFile[cid[w]]
    /\ \A v, w \in Workers : v # w /\ Busy(v) /\ Busy(w) => cid[v] # cid[w]
    /\ \A c \in Cids : c < nextCid /\ ok =>
          doneFile[c] \/ \E w \in Workers : Busy(w) /\ cid[w] = c
    /\ \A w \in Workers : pc[w] = "exit" /\ ok => nextCid >= NList

\* The append cursor is past the end of the payload file.
CursorInv == phase = "running" => payloadLen <= cursor

\* Extents being written do not overlap.
DisjointInv ==
    \A v, w \in Workers : v # w /\ pc[v] = "payload" /\ pc[w] = "payload" =>
        \/ off[v] + Size(cid[v], k[v]) <= off[w]
        \/ off[w] + Size(cid[w], k[w]) <= off[v]

\* The statistics in memory cover the published clusters.
MemoryInv ==
    phase = "running" => \A c \in Cids : doneFile[c] => clusterReal[c] = NReal[c]

(* What a worker's control point says about its own cluster. *)
LoopInv(w) ==
    /\ InStream(w) => k[w] \in Streams
    /\ pc[w] = "list" => k[w] \in ListFiles

CodecInv(w) ==
    /\ InStream(w) =>
          /\ scales[cid[w]] = knob
          /\ \A s \in Streams : s < k[w] => StreamIntact(cid[w], s, knob)
    /\ InStream(w) /\ pc[w] # "lens" => lens[<<cid[w], k[w]>>] = knob
    /\ pc[w] = "sizes" => offs[<<cid[w], k[w]>>] = off[w]
    /\ pc[w] \in {"list", "stats", "mark"} => CodecIntact(cid[w], knob)

ListInv(w) ==
    /\ pc[w] = "list" => \A f \in ListFiles : f < k[w] => f \in listData[cid[w]]
    /\ pc[w] \in {"stats", "mark"} => ListIntact(cid[w])

StatsInv(w) ==
    /\ Busy(w) /\ pc[w] # "compute" => clusterReal[cid[w]] = NReal[cid[w]]
    /\ pc[w] = "mark" => statsFile[cid[w]] = NReal[cid[w]]

\* The first n bytes from first hold the worker's current stream.
Holds(w, first, n) ==
    \A i \in Extent(first, n) : i \in DOMAIN payload /\ payload[i] = Tag(cid[w], k[w])

ExtentInv(w) ==
    /\ pc[w] = "payload" =>
          /\ off[w] + Size(cid[w], k[w]) <= cursor
          /\ pos[w] < Size(cid[w], k[w])
          /\ Holds(w, off[w], pos[w])
          /\ \A i \in Extent(off[w] + pos[w], Size(cid[w], k[w]) - pos[w]) :
                i \notin DOMAIN payload
    /\ pc[w] \in {"offs", "sizes"} => Holds(w, off[w], Size(cid[w], k[w]))

WorkerInv(w) == LoopInv(w) /\ CodecInv(w) /\ ListInv(w) /\ StatsInv(w) /\ ExtentInv(w)

(* The inductive invariant: with it, DoneIsComplete and the other invariants
   follow step by step from each action alone. *)
IInv ==
    /\ TypeOK /\ PhaseInv /\ ClaimInv /\ CursorInv /\ DisjointInv /\ MemoryInv
    /\ \A w \in Workers : WorkerInv(w)
    /\ DoneIsComplete /\ MetaMeansAllDone /\ StatsOfAllClusters
=============================================================================
