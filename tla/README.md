# STLQ in TLA+

This directory specifies the parts of STLQ whose correctness depends on the order of
events or on a convention shared by two pieces of code: the threaded encoder of the base
vectors, the checkpointed stores made from them, the cluster-parallel build of the
`linkage_list`, the prefetcher that feeds it, the life of a `linkage_list` directory under
successive builds and evaluations, and the discrete algorithms that lay out, encode and
read back one cluster. The modules are checked with TLC on small instances; for eight
components the invariants, and for the encoder and the linkage build the refinement of an
abstract specification, are proved with TLAPS for every instance.

Paths below are relative to the repository root; the line-by-line correspondence of
definitions to code is the `map` of `PROJECT.json`.

## The system

STLQ turns a data set of vectors into a quantised, linked, compressed store and evaluates
recall on it. The large pipeline (`src/pipeline/stlq_large_pipeline_flow.cpp`) runs its
stages one after the other, each with a directory of its own under the run root:

    train -> base_basic (encode) -> IVF lists -> base_list -> linkage_list (+ codec) -> eval

| Component | State it keeps | Operations | What makes it correct |
|---|---|---|---|
| **Base encoder** `src/quantizer/encode_base_streaming.cpp` | a prefetch queue, three bounded queues, a reorder ring, counters, flags | read ahead, hand blocks to two lanes, collect results in any order, append in order, commit, stop | the store is an ordered log; nothing overflows or waits for ever; a healthy run reports no error |
| **base_basic and its checkpoint** `src/pipeline/stlq_large_base_stages.cpp`, `main_virtual_helpers.cpp`, `src/io/base_store.cpp` | cluster ids, shards, buckets, write buffers, block checkpoint, hash | append a block, flush, commit, truncate, resume, reuse | a resumed store equals an uninterrupted one; what is committed stays |
| **IVF lists and base_list** `src/io/ivf_lists.cpp`, `src/io/base_list_store.cpp` | offsets, ids, the list store, raw vectors, hash | build, reuse, validate, clean up | offsets are those of all vectors; the hash is there only on a complete list |
| **Linkage build** `src/linkage/linkage_base_streaming_builder.cpp`, writers in `src/io/linkage_list_store.cpp`, `src/io/linkage_coeff_codec_store.cpp`, checkpoint in `src/linkage/linkage_streaming_support.cpp` | payload files of list and codec, done bytes, statistics file; in memory the claim counter, the append cursor, the failure flag | claim a cluster, build it, write it in many positioned writes, mark it done; open fresh or resume; finish | a done cluster is complete and never touched again; nothing is announced while a cluster is missing; totals cover all clusters |
| **Prefetcher** `AsyncClusterPrefetcher`, same file as the checkpoint | bounded queue, `stop_`, `done_` | read ahead, push, pop, stop | each cluster to one worker, in order; no early end; no hang |
| **Store lifecycle** `src/pipeline/large_store_lifecycle.cpp`, `stlq_large_linkage_stages.cpp`, `stlq_large_eval_stages.cpp`, `app_utils.cpp`, `src/linkage/linkage_coeff_codec_rebuild.cpp` | a directory with its checkpoint, `meta.bin`, `coeff_meta.bin`, two hash files | build, resume, reuse, rebuild the codec in place, clean up | hashes name what is there; published data is not destroyed |
| **Reference forest** `src/linkage/reference_forest.cpp`, `linkage_reference_forest_builder.inc` | parents, a path, a queue | cut cycles, bound the depth, order, encode | every vector once, after its reference |
| **Cluster layout** `linkage_finalize.h` | a permutation | sort into levels | the same forest, in the order LOUDS can store |
| **Parent LOUDS** `src/succinct/parent_louds.cpp` | a bit vector with rank and select samples | build, parent of a node, decode, skip | equals the parent array |
| **Coefficient codec** `src/coeff/` | canonical Huffman tables, bit streams | fit, encode, decode | decode inverts encode |
| Training, quantiser, CUDA kernels, evaluation, readers, configuration | matrices and scratch memory | numerical | numerical |

The components meet in three ways. Threads of one run share atomics, mutexes and condition
variables: the encoder's lanes and helpers among themselves, the workers of the linkage
build (`ok`, `next_cid`, `payload_cursor_`) and their prefetcher. Runs of the program meet
only in files: checkpoints, done bytes, statistics, file sizes, `meta.bin` and the hash
files are the whole interface between a killed run and the next. Stages meet through the
presence and the hash of their directories.

The hard behaviours follow from that: results that arrive out of order; interleaved appends
into one file; a kill between any two writes; a write that fails half-way while siblings go
on; a resumed run whose settings differ from those of the run it resumes; a cleanup that
deletes what a later resume counts on; a notification that nobody is yet waiting for.
`PROJECT.json` lists them under `hazards`, each at its line.

## Modules

| Module | Role |
|---|---|
| `EncodeBaseStreaming` | the encoder's caller, prefetcher, lanes and tile writer |
| `BlockLog` | abstract: an append-only log with commits, and what a return value means |
| `BaseStores` | base_basic, IVF lists and base_list under successive runs |
| `LinkageBuild` | the worker team, its writes, failures, kills and restarts |
| `ClusterLedger` | abstract: clusters are published one at a time, once, then sealed |
| `LinkagePowerLoss` | `LinkageBuild` plus a loss of power |
| `ClusterPrefetch` | the prefetcher and its consumers |
| `LinkageStore` | a `linkage_list` directory under successive runs |
| `ReferenceForest`, `ClusterLayout` | the discrete algorithms that build one cluster; `SortedSets` is a helper |
| `ParentLouds` | on top of `ClusterLayout`: the parents as a bit vector, written and read back |
| `CoefficientCodec` | on top of `ClusterLayout`: the coefficients as Huffman streams, written and read back |
| `ClusterRecord` | composes those four: one cluster from its references to its parents and coefficients on disk, and back |
| `*Proofs` | the inductive invariants and the theorems |
| `MC*` | small instances |

The modules abstract from each other where one has been shown to implement a simpler one:
`BaseStores` encodes a block in one step because `EncodeBaseStreaming` implements
`BlockLog`, and `LinkageStore` writes a cluster in one step because `LinkageBuild` implements
`ClusterLedger`. `ClusterRecord` embeds the actions of `ReferenceForest`, `ClusterLayout`,
`ParentLouds` and `CoefficientCodec`.

### EncodeBaseStreaming

Five threads: the caller `main`, the block prefetcher `io`, the lanes `gpu` and `cpu`, and
the tile writer `writer`. `opt` chooses among the paths the settings allow: the hybrid path
(lanes and reorder ring) or the plain one, each with or without the prefetcher and a commit
hook, the plain one with or without the tile writer. `pc` holds every thread's control
point; a thread asleep on a condition variable is in `asleep` and steps again only when
notified. `BoundedQueue` changes its state under its mutex, so testing a predicate and
falling asleep is one step there. In the prefetcher `done_` is set without the mutex, so its
caller tests and falls asleep in two (`PopBlockWaits`, `PopBlockSleeps`).

A block is its number, a tile `block * Tiles + tile`; what they encode to is data. `held` is
what a lane or the tile writer works on, `ring` the reorder ring, `inflight` the blocks
handed out and not written, `next` both `next_block` and `blocks_written`. Any read, encode,
append or commit may fail, and `fault` remembers it. `resume` stands for the return address
of the two shared pieces of code, writing out the ring and `Fail`.

### BaseStores

A file is the sequence of the vectors whose records it holds; `buf` is what the writer has
appended and not written out. A kill (`Crash`) keeps some prefix of each buffer, file by
file. `Truncate` and `OpenResume` are what a resume does with the files, including the
creation and extension of missing ones; `EncodeBlock`, `Flush`, `Checkpoint` the cycle of a
block; `WriteOffsets`, `TruncIds`, `WriteIds` the IVF build; `ListMeta`, `Prealloc`,
`CopyBucket`, `Validate`, `WriteListHash` that of base_list; the two cleanups are one action
each. `off` is what `ivf_offsets.u64` holds, the number of vectors in the clusters
before each. Two history variables say what a cleanup did to a later resume: `orphaned`, that
it took the files of a partial checkpoint, and `tainted`, that this base_list was begun after
that. The directory exists when there is anything in it (`BasicDir`), and `Open` is one step. A kill
inside it leaves an empty directory, or empty files and perhaps `meta.bin`: the next encoding
refuses that directory if outputs are protected and removes it otherwise, where the model, which is
still before `Open`, only removes it. `remove_all` of a directory and each cleanup are one step too. A kill
inside one may leave `ckpt.bin` or `hash.u64` beside files that are gone, and what a later run
makes of that is outside the claims of this module. A record that a kill cut in two is counted as
not written: readers divide the size by the record's. `EnsureShard` looks only at the first
vector of a block, so the module assumes that the shard size is a multiple of the block
size; with other values a block's records would all go to the shard of its first.

### LinkageBuild

The variables are the files (`doneFile`, `statsFile`, `listData`, `listMeta`, `scales`,
`lens`, `payload`, `payloadLen`, `offs`, `sizes`), the process (`phase`, `ok`, `nextCid`,
`cursor`, `clusterReal`, and the codec settings `knob` of this run) and the workers'
program counters and locals. A worker's step is one write to one file, because a kill may
fall between any two. `WritePayload` is one `pwrite`, which may write any non-empty prefix
of what is left.

What is written is abstracted to what a reader must be able to tell apart: a byte of the
payload carries the settings, cluster and stream it belongs to; a scale or length table
carries the settings it was fitted with; a list file is written or not for a cluster; a
statistics record is the number `NReal[c]`. The size of an encoded stream is a constant
function of settings, cluster and stream, and may be zero.

* `Start` covers opening or creating the checkpoint, opening the writers fresh or for
  resumption, and restoring the statistics. A kill inside `Start` is not modelled: the
  files it creates hold nothing until the first cluster, and truncation happens only when
  no cluster is done.
* `FailCluster` may happen at any point of a cluster at which the code can return an
  error, so a cluster may be left with any prefix of its writes.
* `JoinTeam` is the end of the parallel region with everything up to the return.
* `Crash` keeps the files. A kill does not lose what was written; a loss of power can, and
  is `LinkagePowerLoss`.
* The build without a checkpoint is a run that is never restarted. The mode without the
  codec writes a subset of the files.

### ClusterPrefetch

Each action is a step between two points at which another thread can interfere. `Pop`
evaluates its predicate under `mu_`; if it must wait, `Block` is a second step, during
which nobody else holds `mu_`. `SetDone` and `NotifyDone` do not take `mu_`, so they may
fall between the two. The set of waiting consumers is explicit (`pc[w] = "waiting"`), and a
notification reaches only them. Processing a cluster is one step, which publishes it or
fails; the writes are `LinkageBuild`'s. `depth` is the bound on the queue the run was started
with, one of `Depths`.

### LinkageStore

One run at a time works on the directory. A run has a configuration (`cfg`): the linkage
settings `sig` as the store hash tells them apart, the codec settings `knob`, and the
switches that decide what a run does to existing files. `Operators` gives the ways the
program may be used on one directory, and `op` is the way of a behaviour: which
configurations its builds and evaluations have, whether the directory is named explicitly,
how many runs there are. The settings range over those of equal layout: resuming over another
layout is refused by size checks or fails to open. `PrepareStore` removes the directory in one step,
as `Cleanup` removes its files. A kill inside `remove_all`, or an error of it, which the code ignores, may leave
`hash.u64`, `ckpt.bin` or the done bytes beside files that are gone: those states are not modelled, and
the claims about the hashes and the coefficients are for kills anywhere else. (`OpenResume` refuses a
checkpoint whose files are missing.) The norm caches beside a store are left
out; they are accepted by the same two hashes.

### The modules of one cluster

`ReferenceForest` has one action per turn of each loop of `CutCycles` and
`BuildDepthLimitedOrder`, and `ClusterLayout` one per turn of the loops that list a cluster level
by level, with the renumbering of parents, vectors and depths as the last. `bfs` there is
`bfs_old`, `cur` and `next` end to end. What a builder must hand over is `IsForest`, which
`SameForestInLevels` checks where a builder is modelled.

`ParentLouds` goes on from the layout. The writer (`PutOnes`, `PutZero`), the full decode
(`DecodeNode`) and the sequential decoder (`Skip`, `NextParent1Based`) are loops, and one action
is one turn: as many ones as a word has room for, one zero found, one word skipped. A word is
the set of its one bits, and `put`, `full` and `dec` are the loops' locals. The decoder's caller
may open it at the first vertex or behind the roots and mix skips and reads as it likes
(`call`). Random access reads finished words only, so `Parent1BasedOf` is an operator over them:
rank counts what the directory's two levels and the word hold, select goes from a sample to the
word that holds what is left. What the scan of `Select1` adds up word by word is stated as a
count (`ScanStops`, `Ones`). `DecodeParent1Based` is modelled for a caller that asks for all
vertices. Left out are the header of the serialised form, the byte packing of the rank counters,
the empty cluster, and reads past the end of the words, which `ParentsReadBack` says do not
happen.

`CoefficientCodec` goes on from the layout too. A cluster has a stream for each group of
vertices, all layers together or one by one; the streams share nothing, so a behaviour follows
one of them, whichever. `StartStream` chooses the quantised coefficients and the stream;
`BuildFreq`, `MergeNodes` (one turn of the loop over the priority queue) and `AssignLengths` fit
the model; `EncodeSymbol` writes the code of one symbol, or `EncodeThrows` gives up because it
does not fit `WriteBits`, and `Finish` fills the last byte; `OpenStream`, `ReadBit` (one turn of
the loop of `DecodeSymbol`) and `EndStream` are the reader, which knows the code lengths and two
counts. The derived tables (`FirstCode`, `FirstSym`, `SymsSorted`, `Code`) are operators on the
lengths. The payload is a sequence of bits. Left out are the alphabet of 256 symbols, which no
configuration in the repository sets, and the widths of frequencies and codes: `MaxBits` is what
keeps a code within a word.

`ClusterRecord` runs a cluster through forest, layout, LOUDS and codec, from references chosen
by the policy, or as any forest another builder may hand over (`Clusters`), to the record and
back. The LOUDS and the coefficients both depend on the finished cluster only, so a behaviour
goes on with one of the two.

## What is checked

| Run | Question | Result |
|---|---|---|
| `encode_streaming` | Are tiles appended in order, each once, whatever the lanes' order (`TilesInOrder`)? Does every result find its slot (`ResultsFit`), can caller and lanes never wait for each other's queues (`HybridPushNeverWaits`), is each block in one place (`EveryBlockInOnePlace`), does only a failure make the call fail (`NoFalseAlarm`)? Does it implement `BlockLog`? Does every call return with its threads joined (`EveryCallReturns`)? | all hold |
| `base_stores` | Does a resume continue exactly where the checkpoint says (`WriterInStep`)? Does what is committed stay (`CommittedIsDurable`, `ProtectedStays`)? Is an encoded store whole (`EncodedStoreIsWhole`), are offsets those of all vectors (`OffsetsOfAllVectors`), is the hash of base_list truthful (`ListHashTruthful`), and does a run find what it goes on to read (`BuiltIsUsable`)? | all hold, what rests on a resume until a cleanup orphans a checkpoint |
| `orphaned_resume` | Does a resume always continue where the checkpoint says? | violated |
| `linkage_build` | Is a done cluster complete (`DoneIsComplete`) and frozen (`PublishedIsFrozen`)? Is `meta.bin` truthful (`MetaMeansAllDone`)? Do the totals cover everything (`StatsOfAllClusters`)? Does the build implement `ClusterLedger`? Is `IInv` an invariant? | all hold |
| `linkage_live` | Does every run end (`RunEnds`)? | holds under `Fairness` |
| `power_loss` | Does a done byte survive a loss of power only together with its data? | violated |
| `cluster_prefetch` | Each cluster once (`EveryClusterOnce`), in order (`HandedInOrder`), none lost (`NothingLost`); does the build end unless stranded (`EndsUnlessStranded`), and is the work done if it is stranded without a failure (`StrandedWorkIsDone`)? | all hold; `Stranded` itself is reachable |
| `store_life` | Can any sequence of runs destroy what a protected or resumed store holds (`KeepsPublished`)? With steady settings and protected evaluations, do both hashes tell the truth, and are the coefficients recoverable (`Steady...`)? | it cannot; they do and are |
| `codec_resume` | Does `coeff_hash.u64` stay truthful when a resumed build changes codec settings? | violated |
| `codec_rebuild` | ... when a codec rebuild is interrupted? | violated |
| `explicit_dir` | Is `hash.u64` truthful in a directory named by `io.linkage_file`? | violated |
| `cluster_record` | Does every cycle lose one edge (`CyclesLoseOneEdge`), is the order complete and parents-first (`EveryVectorOrdered`, `ParentsFirst`), does the layout keep the forest (`SameForestInLevels`), do all three readers of the LOUDS give back the parents without running out of words (`ParentsReadBack`), do the coefficients read back at their own vertices, does no reader run past the end, and does only a code longer than `WriteBits` takes stop the writer (`CoefficientsReadBack`)? | all hold |

The violations are documented under `findings` with the sentences they contradict:

1. **Resumed codec settings.** `OpenResume` of the codec writer compares `nlist` and `m`
   only. A build interrupted under one set of codec settings and resumed under another
   keeps the finished clusters as they are and then writes the hash of the new settings.
   The run directory is the same by design, as codec settings do not name it.
2. **Interrupted codec rebuild.** The rebuild truncates the codec files in place and leaves
   the old `coeff_hash.u64`, so a run with the old settings trusts a half-built codec.
3. **Explicit directory.** `hash.u64` is written after a complete build, and a missing one
   is accepted, so the guard against resuming under other linkage settings cannot fire for
   the stores it is meant for. Default directories are named by the hash, and are safe.
4. **Power loss.** The README promises robustness against it; nothing is ever synced.
5. **Orphaned checkpoint.** The cleanup after base_list deletes the files of base_basic but
   not a checkpoint in the middle of them, which a build killed between its last block and
   its last commit leaves. A later run resumes that checkpoint, creates the missing files,
   extends them with zeros to the committed sizes, and counts those vectors in cluster 0.
   The base_list built from it is refused if a bucket or a list comes out short; if all
   vectors that became zeros were in the first bucket, every count agrees and it gets its hash.

Some behaviours met on the way contradict no document and are stated as what they are:

* The linkage build can hang. `Stranded` describes it: a worker asleep in `Pop` whom nobody
  will wake, because the prefetcher's final `notify_all`, issued without the mutex, came
  between the worker's test and its wait, or because a sibling failed (which notifies
  nobody) while the prefetcher was waiting for room. `EndsUnlessStranded` says these are the
  only ways not to end. The encoder's prefetcher sets `done_` without its mutex too, but
  its sleeping caller is always woken by the queued block, by `Fail` or by the second notification, which
  `EveryCallReturns` confirms.
* A base_list without a hash is reused like one with it, so a build killed half-way is read
  by the next run (`StartList`); only the converse, `ListHashTruthful`, holds.
* A checkpoint that says "complete" and survives the cleanup makes a run with `base.encode`
  skip the encoding, so that the buckets base_list needs are not written again.
* With the base_basic checkpoint enabled the hash is written before the stored one is
  compared, so that comparison never fails.
* After a cleanup has removed the float files, a build that resumes the complete linkage
  checkpoint is refused until the directory is deleted.

### Bounds

* `encode_streaming`: four blocks of two tiles, queues and ring of two, every second block
  to the CPU lane, prefetch queue and tile queue of one. The blocks outnumber the ring, so
  slots are used twice, both lanes get two blocks and every queue fills; `first` ranges over
  all blocks, so that empty and partial runs are included.
* `base_stores`: six vectors in blocks of two, shards of four, three clusters in two
  buckets (the clusters in the order 0, 1, 1, 0, 2, 1), three runs: one to be killed, one to resume or reuse, one to read what is left;
  a shard is entered both fresh and in the middle, and each bucket is written by two
  blocks. The settings are every combination of the switches with three cleanup presets.
* `MCLinkageBuild`: two workers, two clusters, two codec streams, two list files, two
  codec settings and three starts, with streams of zero, one and two bytes: two
  extents being written at once and in pieces, an empty stream, a kill between any two writes,
  and resumed runs that meet a done cluster, a half-written one and stale bytes, under other
  settings than those that wrote them. `MCLinkageLive` has one stream,
  one list file, one setting and two starts, on which termination does not depend.
* `cluster_prefetch`: four clusters, three workers (one to fail, one asleep, one that would have
  made room), queues of one and of two. With a queue of two, two clusters are queued
  together, so that the order in which they are taken shows; with a queue of one both kinds of
  `Stranded` are reached (every push wakes a sleeper, so that the second kind takes one more worker
  for each place in the queue).
* the store runs: two clusters (one done, one not, when a run is killed), two settings of
  each kind, and two to four runs.
* `cluster_record`: four vectors, so that two cycles, or a cycle with a tail, fit; depth
  limits 1, 2 and 3; up to two virtual vertices; two layers and five symbols,
  with codes of at most three bits, so that a model may have one that is too long. Clusters of up
  to two vertices get every assignment of coefficients, larger ones three: neighbours differ,
  frequencies halve, frequencies are Fibonacci numbers, which makes codes as long as they get. The LOUDS is built of
  the clusters the layout left as they were (`EachParentsOnce`), which have every vector of
  parents the layout can give: up to thirteen bits in words of four, with a select sample every two
  ones and two words to a rank block, so that runs of ones cross words, words are empty or
  full, and samples and rank blocks begin in the middle of the vector.

`MaxStarts`, `maxRuns` and `MaxRuns` are the only bounds on behaviours; every other counter
is bounded by the code.

### Fairness

Weak fairness of each thread: a worker's step, the end of the region (`JoinTeam`,
`Master`), the prefetch thread; in the encoder the caller, the prefetcher, each lane and the
tile writer. The operating system runs every thread that is not blocked. Failures, kills and
restarts are never fair: nothing promises them. A wait on a condition variable is a state in
which the thread cannot step; it needs a notification to leave.

## What is proved

Each theorem holds for every value of the constants that satisfies the module's `ASSUME`,
which the runs evaluate on the instances.

| Module | Theorems | For every |
|---|---|---|
| `EncodeBaseStreamingProofs` | `StoreIsOrderedLog`, `LogImplemented`, `TypesHold`, `ResultsAlwaysFit`, `PushNeverWaits`, `FalseMeansFault`, `BlocksAreConserved` | number of blocks, tiles, slots and queue places |
| `BaseStoresProofs` | `StoresTyped`, `ResumeInStep`, `CommittedDurable`, `EncodedWhole`, `OffsetsWhole`, `ListHashMeansComplete`, `BuiltUsable`, `ProtectionHolds` | number of vectors, clusters and runs; size of blocks, shards and buckets; assignment to clusters; set of settings |
| `LinkageBuildProofs` | `Invariance`, `TypeCorrect`, `DoneClustersComplete`, `MetaOnlyWhenAllDone`, `StatsCoverAllClusters`, `PublishedStaysFrozen`, `LedgerImplemented` | number of clusters, workers, streams, list files, settings, starts; every size of the streams |
| `ClusterPrefetchProofs` | `TypesHold`, `EveryClusterOnceHolds`, `NothingIsLost`, `StrandedAfterTheWork`, `ServedInOrder` | number of clusters and workers, depth |
| `LinkageStoreProofs` | `TypesHold`, `PublishedIsKept`, `SteadyStoreHash`, `SteadyCodecHash`, `SteadyCoefficients` | number of clusters, settings, ways of running the program |
| `ReferenceForestProofs` | `ForestTypesHold`, `OrderIsComplete`, `ReferencesComeFirst`, `CutsAreRight` | size of the cluster, preferences, depth limit |
| `ClusterLayoutProofs` | `LayoutKeepsTheForest`, `LoudsGivesTheParentsBack` | forest, number of virtual and real vertices, list of vectors; word width, sampling distance, superblock size |
| `ClusterRecordProofs` | `CoefficientsComeBack`, `RecordBuildsForest`, `RecordComesBack` | forest and vectors, coefficients, number of layers, alphabet, longest code that can be written; for the record also references, depth limit and what the other modules vary |

**The encoder.** `TilesInOrder` says nothing of where the next tile comes from. `IInv` adds
that the hybrid path is in step when `next` counts what was appended and the ring holds
only blocks of the window, each in its slot (`RingInPlace`), so that the slot of `next` can
hold `next` alone (`SlotsDiffer`, which is about remainders); and that the plain path is in
step when what was appended, what the tile writer holds and what waits in its queue add up
to what the caller has produced (`PlainInStep`, `QueueInStep`). A failed commit leaves the
log ahead of `next`; then the caller is winding down and never appends again (`Winding`,
`PlainWinding`). The refinement maps each step to an extension, a commit, both at once, a
return, or a stutter.

**The reorder window.** One test, `inflight < Depth` before a block is read, must bound three
queues and the ring. The invariant says where blocks are: one that was handed out and is not
written lies in the span `next .. next + inflight - 1` and in one place at most, a queue, a
lane's hands or the ring (`OnePlace`). A queue is then an injection into a span no longer than
`Depth`, with room to spare when its pusher holds one more block of the span (`RoomForHeld`),
so nobody sleeps with a block in hand (`Awake`); two blocks of the span never have the same
slot (`SlotsOfWindow`), so a result always fits. `Pace` says that the caller hands out the
block after the span. For `NoFalseAlarm`, `ReadAhead` says that until the caller leaves its
loop the prefetcher has either stopped for a fault or still owes it a block. None of this needs
blocks to be kept; that they are is `Covered`, the last part of the invariant, where the only
steps that could lose one are a lane that takes a block with its hands full (`HandsFree`) and a
push on the closed queue of results (`ClosedIsLate`).

**The base stores.** A file holds those vectors of an initial piece of the data set that
belong in it, in order. `Continues(f, k, s)` says of a piece of a file what can be said without
recursion: that `s` holds, at the place their rank among the file's vectors gives them, those
from the k-th on. Appending a block continues a file (a block lies in one shard:
`BlockInShard`), a kill leaves a prefix of what was appended, and a cut at the size a
checkpoint names restores the file as it was at the commit, whatever a killed run appended
since. So `ResumeInStep` and `CommittedDurable` need each other, and are proved together
(`RecordsOK`, `LengthOK`, `SavedOK`). The checkpoint is written after the flush, so it never names what is not on disk.
`LengthOK` and `IvfOK` carry that to the offsets: N cluster ids on disk are all cluster ids,
so usable offsets are those of all vectors. For base_list, the records of a cluster in its
bucket, counted from the cluster's offset, land in the slot that is the vector's rank by
cluster and number (`PlaceRank`), slots are distinct (`SlotInjective`), and buckets already
copied stay as they are (`CopyingIs`). The run that writes the hash has only compared
counts; that this is enough is `CountsSuffice`: files that are prefixes and have as many
records as the offsets say are whole. It needs base_basic not to be orphaned when the list was
begun, and TLC shows it false otherwise.

**The build.** `DoneIsComplete` is not inductive: nothing in it forbids a worker to write
into another cluster's bytes. `IInv` adds what each control point knows about its own cluster
(`WorkerInv`), that a cluster has one owner and none is forgotten while all is well
(`ClaimInv`), that the append cursor is past the end of the file (`CursorInv`), and that
reserved extents are disjoint and unwritten (`DisjointInv`, `ExtentInv`). From the last
three, no write changes a byte of the payload file that is already there, and so a stream
that was intact stays intact (`StreamKept`). Each action then has a lemma; those of a worker
inside its cluster share `BusyStepKeeps`. That a resumed run may start its cursor at the file
size is `StartDisk`.

**The ledger.** From `IInv` every step owes the published clusters `KeepsDone`: their slots
stay, and so does every byte of the payload file (`NextKeepsPublished`, one lemma per action
that writes). A complete stream has no hole in its extent, so a reader gets the same bytes
(`RecordKept`) and the same settings (`ReadsKept`). Setting a done byte is then the ledger's
`Publish` with the settings of this run, creating the list's `meta.bin` is `Seal`, and every
other step is invisible.

**The prefetcher.** `Places` says without counting what `EveryClusterOnce` counts: what the
prefetcher has passed is published, held or queued, and nothing is in two places. `Progress`
is why an exit or a sleep is harmless while nothing failed: somebody is awake as long as the
queue holds a cluster, because every push wakes a sleeper and the mutex keeps a worker from
falling asleep between its look and its wait.

**The store.** Every way into the writers leads through `PrepareStore`: what they truncate is
empty unless the checkpoint covers it, and what the checkpoint covers they skip
(`StoreInv`). From that `KeepsPublished` follows for whoever runs the program. The two hashes
need an operator who keeps the settings; the runs that expect a violation show why.

**The forest.** The vertices `CutCycles` has finished contain no set closed under `parent`.
A path adds a cycle only when it returns to itself, and then the edge `CutAt` removes is on
that cycle. A vertex that never entered the order would have its lister outside it too, and
all of those would be a closed set. Closed sets replace ranks, so no induction is needed.
`ForestSpec` is the forest's own specification; `ClusterRecord` embeds its actions.

**The cuts.** A cycle of preferences is a least non-empty set closed under `preferred`. The
finished vertices are closed under it too, so a cycle is finished as a whole or not at all
(`CuttingInv`). A closed set that meets the path holds everything after the place where they
meet, up to where the walk stands (`PathLeadsOut`); so a path that came back to itself
finishes the one cycle `Cycle` (`CycleIsOne`), any other path none, and the cuts so far are
the smallest vertices of the finished cycles, one for each. In the second half `LateInv`
says the same of the depth: a vertex in the line keeps its depth, so the reference a late
vertex gave up is still at the limit in the end.

**The layout.** `Walk` relates every place in `bfs` to the place of the parent of the vertex there
(`Under`): it is earlier and visited, places of parents ascend with those of their children,
and a level is one more than that of the parent. A new list of children goes to the end
under the vertex being visited, which is the last visited, so all of that is kept. In the end what is listed is
closed under children and holds the roots, and in a forest a set that it missed would have a
member whose parent is outside (`AllListed`): nothing is missing. The new number of a vertex is
its place and the new parent the place of the old (`NewParent`), which gives the edges and
the order. That the level is the depth is shown for a smallest vertex
for which it is not (`NewDepth`), and that a depth offset counts a prefix follows because levels
ascend (`PrefixCount`). The sort itself is `SortedFacts`: `child_less` is a strict total order,
so the number of members before one is a bijection onto the places. `LayoutSpec` starts from any
`IsForest`.

**The LOUDS.** All it needs of the layout is `Delivered`: parents never decrease, none is behind
its child, and the roots are those `depth_offsets` counts. Then the one bit of a vertex is at
its number plus its parent's (`Place`), the ones come in the order of the vertices
(`PlaceFacts`), and `LoudsInv` can say of each loop how far it has come among those places: the
writer has set the places below its position and no other bit (`Writing`), the full decode has
the parents of the vertices below `next_child` (`Decoding`), and a decoder that has emitted so
many children holds exactly the ones of the next vertices up to the end of its word (`Reads`).
That the next zero is behind the children of the next vertex is `NextZero`; that a decoder with
children left finds a word is `WordsLeft`; that skipping the lowest ones of a word skips the
next vertices is `OnesBefore` and `OnesAreNext`, which count by bijections. For random access,
`RankCounts` adds the two levels of the directory and the word, `SampledPlace` and `ScanFinds`
take select from a sample to the word of the vertex, and `SelectFinds` to its bit. Counting is
done with the cardinalities of the ones of an interval (`OnesSplit`, `OnesOf`), so nothing is
recursive.

**The coefficients.** Parents never decrease, so the writer's groups, chosen by a flag of each
vertex, are ranges, and the reader's (`Ranges`, from what the layout has `Delivered`). That the
lengths the priority queue ends with belong to a prefix code is Kraft's inequality, stated without
sums or powers of two: a table `room` bounds how many nodes a tree may still have at each depth,
one at the root and below it twice what is left of the depth above. Every node of the queue has
such a table, joining two shifts and adds theirs, and the last node's is `Kraft` for the lengths.
Two bounds on the prefixes of a code follow (`Prefixes`): an unfinished one is past all codes of
its length, because `FirstCode` doubles what it has passed, so the reader never stops early; and
a code of so many bits needs no more of them, because the room doubles in the same way, so nothing
of it is lost. `CodecInv` says where in the payload the bits of each symbol are (`Starts`, `Sent`)
and where among them the reader is (`Inside`); a symbol it completes is at its place in
`SymsSorted`. `FirstCode` and `ShiftRight` are recursive functions, whose equations come from the
lemma `Recursion`. `CodecSpec` starts from any `IsForest`, as `LayoutSpec` does.

**The record.** `RecordInv` joins these: while the reference builder is at work a vertex has the
parent that the finished forest gives it or none (`Building`), and from then on `LInv`, `LoudsInv`
and `CodecInv` hold of the one cluster. What the builder hands over is a forest because depths grow
from parent to child (`BuiltIsForest`), and no part changes what another has begun to read
(`LoudsWaits`, `CodecWaits`, `LoudsStays`, `CodecStays`). So the properties `cluster_record` checks
are theorems of its own `Spec`: those of the forest through `RecordBuildsForest`, the others in
`RecordComesBack`.

Only model-checked: the liveness properties `RunEnds`, `EndsUnlessStranded` and
`EveryCallReturns`, because the prover does not reason about fairness; and the runs that expect a
violation, where there is nothing to prove. Every other property of a passing run has a theorem.

## What is not modelled

Everything numerical: training, quantisers (also the search for scales in the coefficient
quantiser), the choice of parents by the floating-point builders, distances, recall, CUDA
kernels. They are most of the repository's lines, which is why the `map` covers a small share
of them: their state is matrices, and what makes them right is accuracy, about which a model
checker has nothing to say. Readers of data sets and result files; configuration and logging;
`LinkageGpuScheduler`, which no target compiles; the Windows branches of the writers, which
hold a mutex around seek and write; short reads; the float twin of the encoder, whose
control is the same line by line; hnswlib. `PROJECT.json` gives the reason for every
component.

## Plan

The evaluation's choice between the stored codec and the float files, on top of
`LinkageStore!Evaluate`.
