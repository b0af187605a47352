------------------------------ MODULE BaseStores ------------------------------
(***************************************************************************)
(* The stores a linkage build is made from: base_basic with its block      *)
(* checkpoint, the IVF lists beside it and base_list, over successive runs *)
(* of the program on one output directory, killed anywhere but inside a    *)
(* remove_all or a cleanup, which are one step each.                       *)
(*                                                                         *)
(*   RunLargeBaseBasicStage  encodes blocks of vectors and appends them to *)
(*                           cluster_id.u32, the shards and the buckets    *)
(*   RunLargeIvfStage        builds ivf_offsets.u64 and ivf_ids.u32        *)
(*   RunLargeBaseListStage   copies the buckets into base_list in the      *)
(*                           order of the IVF lists                        *)
(*   CleanupAfterBaseListReady, CleanupAfterLinkageListReady               *)
(*                                                                         *)
(* A file is the sequence of the vectors whose records it holds.  What the *)
(* writer has appended may still be in its memory, and a kill keeps some   *)
(* prefix of it, file by file.  The record of a vector does not depend on  *)
(* the run, and the settings that name the directory do not change; the    *)
(* codes and the coefficients of a shard are written and cut alike and are *)
(* one file here.  The encoder is in EncodeBaseStreaming: this module uses *)
(* what BlockLog promises of it, blocks in order and commits after them.   *)
(*                                                                         *)
(* Source: src/pipeline/stlq_large_base_stages.cpp, main_virtual_helpers   *)
(* .cpp, app_utils.cpp, src/io/base_store.cpp, ivf_lists.cpp,              *)
(* base_list_store.cpp                                                     *)
(***************************************************************************)
EXTENDS Sequences, SortedSets

CONSTANTS
    N,          \* base_ntotal_effective
    BlockSize,  \* large.base_block
    ShardSize,  \* large.shard_size
    Cluster,    \* the cluster each vector is encoded into
    NList,      \* h0, the number of clusters
    BucketSize, \* clusters per bucket file
    Settings,   \* the settings runs are started with
    MaxRuns,    \* bound: number of runs
    Torn,       \* an offsets file that was cut short
    None        \* a file that does not exist

\* EnsureShard looks only at the first vector of a block: a block must not
\* cross a shard.
ASSUME StoresAssumption ==
    /\ {N, BlockSize, ShardSize, NList, BucketSize} \subseteq Nat \ {0}
    /\ ShardSize % BlockSize = 0
    /\ Cluster \in [0 .. N - 1 -> 0 .. NList - 1]
    /\ Settings \subseteq [encode : BOOLEAN, ckpt : BOOLEAN, protect : BOOLEAN,
                           use : {"nothing", "eval", "link"},
                           keep : SUBSET {"basic", "cid", "ivf", "list", "raw"}]
    /\ Settings # {}
    /\ MaxRuns \in Nat

Vector == 0 .. N - 1
Hole == -1      \* bytes of a file that was extended and never written
Shard == 0 .. (N - 1) \div ShardSize
Bucket == 0 .. (NList - 1) \div BucketSize
Cid == <<"cid", 0>>
ShardFile(v) == <<"shard", v \div ShardSize>>
BucketFile(v) == <<"bucket", Cluster[v] \div BucketSize>>
Buckets == {"bucket"} \X Bucket
File == {Cid} \cup ({"shard"} \X Shard) \cup Buckets

\* A file that does not exist is not one that is empty.
ASSUME NoneAssumption ==
    /\ None \notin Seq(Vector \cup {Hole})
    /\ None \notin [Vector -> Vector \cup {Hole}]
    /\ None \notin [next : 0 .. N, sizes : [Buckets -> 0 .. N]]
    /\ {None, Torn} \cap [0 .. NList -> 0 .. N] = {}

VARIABLES
    o, pc, runs, \* the run: settings, control point, bound
    disk,       \* the files of base_basic, None where there is none
    buf,        \* what the writer has appended and not yet written out
    meta, hash, \* base_basic/meta.bin and hash.u64 exist
    ckpt,       \* ckpt.bin: next_id and the sizes of the buckets
    resume, shard, \* resume_mode_ with its resume_start_id_, and current_shard_
    pos,        \* the next vector to encode
    at,         \* the step a loop over files or buckets is at
    rebuilt, built, \* this run has encoded base_basic, has built base_list
    off, ids,   \* ivf_offsets.u64: where each list begins; ids in ivf_ids.u32
    listMeta, list, raw, listHash, \* base_list: meta.bin, slots, raw_*.bin, hash.u64
    orphaned,   \* history: a cleanup took the files of a partial checkpoint
    tainted     \* history: base_list was begun when it had

run == <<o, runs>>
writer == <<buf, resume, shard, pos>>
basic == <<disk, meta, hash, ckpt>>
ivf == <<off, ids>>
baseList == <<listMeta, list, raw, listHash>>
history == <<orphaned, tainted>>
vars == <<run, pc, writer, basic, at, rebuilt, built, ivf, baseList, history>>

NoFiles == [f \in File |-> None]
NoBuf == [f \in File |-> <<>>]

Control == {"idle",
            "basic", "hashfirst", "open", "initckpt", "truncate",
            "encode", "flush", "commit", "closed",
            "ivf", "offsets", "truncids", "ids",
            "list", "listmeta", "prealloc", "copy", "listhash",
            "ready", "use", "linked"}

TypeOK ==
    /\ o \in Settings /\ runs \in 0 .. MaxRuns /\ pc \in Control
    /\ disk \in [File -> Seq(Vector \cup {Hole}) \cup {None}]
    /\ buf \in [File -> Seq(Vector)]
    /\ {meta, hash, rebuilt, built, listMeta, raw, listHash, orphaned, tainted} \subseteq BOOLEAN
    /\ ckpt # None => ckpt \in [next : 0 .. N, sizes : [Buckets -> 0 .. N]]
    /\ resume \in {-1} \cup 0 .. N /\ shard \in {-1} \cup Shard
    /\ pos \in 0 .. N /\ at \in Nat
    /\ off \in {None, Torn} \/ off \in [0 .. NList -> 0 .. N]
    /\ ids \in {None} \cup 0 .. N
    /\ list # None => list \in [Vector -> Vector \cup {Hole}]

Init ==
    /\ o = (CHOOSE s \in Settings : TRUE) /\ runs = 0 /\ pc = "idle"
    /\ disk = NoFiles /\ buf = NoBuf
    /\ meta = FALSE /\ hash = FALSE /\ ckpt = None
    /\ resume = -1 /\ shard = -1 /\ pos = 0 /\ at = 0
    /\ rebuilt = FALSE /\ built = FALSE
    /\ off = None /\ ids = None
    /\ listMeta = FALSE /\ list = None /\ raw = FALSE /\ listHash = FALSE
    /\ orphaned = FALSE /\ tainted = FALSE

Needed == o.use # "nothing"
Fails == pc' = "idle"

-----------------------------------------------------------------------------
(* RunLargeBaseBasicStage *)

StartRun(s) ==
    /\ pc = "idle" /\ runs < MaxRuns
    /\ o' = s /\ runs' = runs + 1
    /\ pc' = "basic"
    /\ rebuilt' = FALSE /\ built' = FALSE
    /\ buf' = NoBuf /\ resume' = -1 /\ shard' = -1 /\ pos' = 0 /\ at' = 0
    /\ UNCHANGED <<basic, ivf, baseList, history>>

HaveCkpt == o.ckpt /\ ckpt # None

\* The directory, which is there when there is anything in it.
BasicDir == meta \/ hash \/ ckpt # None \/ disk # NoFiles \/ off # None \/ ids # None

\* PrepareStoreForRebuildOrResume, nothing to resume: remove the directory,
\* the IVF lists with it, unless it is protected.
PrepareBasic ==
    /\ pc = "basic" /\ o.encode /\ ~HaveCkpt
    /\ IF o.protect /\ BasicDir
       THEN Fails /\ UNCHANGED <<basic, ivf, orphaned>>
       ELSE /\ disk' = NoFiles /\ meta' = FALSE /\ hash' = FALSE /\ ckpt' = None
            /\ off' = None /\ ids' = None /\ orphaned' = FALSE
            /\ pc' = IF o.ckpt THEN "hashfirst" ELSE "open"
    /\ UNCHANGED <<run, writer, at, rebuilt, built, baseList, tainted>>

\* With a checkpoint the hash is written before anything else.
HashFirst ==
    /\ pc = "hashfirst"
    /\ hash' = TRUE
    /\ pc' = "open"
    /\ UNCHANGED <<run, writer, disk, meta, ckpt, at, rebuilt, built, ivf, baseList, history>>

\* BaseBasicWriter::Open: every bucket is created empty, a shard when it is entered.
OpenFresh ==
    /\ pc = "open"
    /\ meta' = TRUE
    /\ disk' = [f \in File |-> IF f[1] = "shard" THEN disk[f] ELSE <<>>]
    /\ pc' = IF o.ckpt THEN "initckpt" ELSE "encode"
    /\ UNCHANGED <<run, writer, hash, ckpt, at, rebuilt, built, ivf, baseList, history>>

InitCkpt ==
    /\ pc = "initckpt"
    /\ ckpt' = [next |-> 0, sizes |-> [f \in Buckets |-> 0]]
    /\ pc' = "encode"
    /\ UNCHANGED <<run, writer, disk, meta, hash, at, rebuilt, built, ivf, baseList, history>>

\* A checkpoint: the hash is written again; a complete one skips the encoding.
ResumeBasic ==
    /\ pc = "basic" /\ o.encode /\ HaveCkpt
    /\ hash' = TRUE
    /\ pc' = IF ckpt.next >= N THEN "ivf" ELSE "truncate"
    /\ UNCHANGED <<run, writer, disk, meta, ckpt, at, rebuilt, built, ivf, baseList, history>>

\* resize_file after EnsureFileExists: cut, or extend with zeros.
Resized(file, len) ==
    LET s == IF file = None THEN <<>> ELSE file
    IN  [i \in 1 .. len |-> IF i <= Len(s) THEN s[i] ELSE Hole]

\* Seeded bug: the buckets keep what was written after the commit.
CutNoBuckets == <<[file |-> Cid, len |-> ckpt.next],
                  [file |-> <<"shard", ckpt.next \div ShardSize>>,
                   len |-> ckpt.next % ShardSize]>>

\* TruncateBaseBasicToCheckpoint cuts these files, in this order.
Cut == <<[file |-> Cid, len |-> ckpt.next]>>
       \o <<[file |-> <<"shard", ckpt.next \div ShardSize>>,
             len |-> ckpt.next % ShardSize]>>
       \o [i \in 1 .. Cardinality(Bucket) |->
               [file |-> <<"bucket", i - 1>>, len |-> ckpt.sizes[<<"bucket", i - 1>>]]]

Truncate ==
    /\ pc = "truncate" /\ at < Len(Cut)
    /\ LET c == Cut[at + 1] IN
        disk' = [disk EXCEPT ![c.file] = Resized(@, c.len)]
    /\ at' = at + 1
    /\ UNCHANGED <<run, pc, writer, meta, hash, ckpt, rebuilt, built, ivf, baseList, history>>

\* BaseBasicWriter::OpenResume.
OpenResume ==
    /\ pc = "truncate" /\ at = Len(Cut)
    /\ resume' = ckpt.next /\ pos' = ckpt.next
    /\ at' = 0
    /\ pc' = "encode"
    /\ UNCHANGED <<run, buf, shard, basic, rebuilt, built, ivf, baseList, history>>

\* The vectors of the block that is encoded next, and those of them in a file.
BlockEnd == IF pos + BlockSize < N THEN pos + BlockSize ELSE N
Records(f, from, to) ==
    Ascending({v \in from .. to - 1 : f \in {Cid, ShardFile(v), BucketFile(v)}})

\* Closing a stream writes it out.
WrittenOut(fs) ==
    [f \in File |-> IF f \in fs /\ disk[f] # None THEN disk[f] \o buf[f] ELSE disk[f]]

\* Seeded bug: the shard a resumed run begins in is truncated.
AppendsNowhere(s) == FALSE

\* EnsureShard opens a shard to append only where the run resumes inside it.
Appends(s) == resume >= 0 /\ s = resume \div ShardSize /\ resume % ShardSize > 0

\* AppendBlock: cluster ids, then the shard, then a record per vector in the
\* bucket of its cluster.  A bucket the directory does not have is created.
EncodeBlock ==
    /\ pc = "encode" /\ pos < N
    /\ LET s == pos \div ShardSize
           new == s # shard
           closed == IF new THEN {"shard"} \X Shard ELSE {}
       IN  /\ disk' = [f \in File |->
                   IF \/ f = ShardFile(pos) /\ new /\ ~Appends(s)
                      \/ /\ disk[f] = None
                         /\ f \in {BucketFile(v) : v \in pos .. BlockEnd - 1}
                   THEN <<>> ELSE WrittenOut(closed)[f]]
           /\ buf' = [f \in File |->
                   (IF f \in closed THEN <<>> ELSE buf[f]) \o
                   (IF f[1] = "shard" /\ f # ShardFile(pos) THEN <<>>
                    ELSE Records(f, pos, BlockEnd))]
           /\ shard' = s
    /\ pos' = BlockEnd
    /\ pc' = IF o.ckpt THEN "flush" ELSE "encode"
    /\ UNCHANGED <<run, resume, meta, hash, ckpt, at, rebuilt, built, ivf, baseList, history>>

\* Seeded bug: the checkpoint is written while records are still in memory.
FlushLater ==
    /\ pc = "flush"
    /\ ckpt' = [next |-> pos, sizes |-> [f \in Buckets |->
                    IF disk[f] = None THEN 0 ELSE Len(disk[f]) + Len(buf[f])]]
    /\ pc' = "encode"
    /\ UNCHANGED <<run, writer, disk, meta, hash, at, rebuilt, built, ivf, baseList, history>>

\* CommitBlock: Flush, then the checkpoint is replaced.
Flush ==
    /\ pc = "flush"
    /\ disk' = WrittenOut(File) /\ buf' = NoBuf
    /\ pc' = "commit"
    /\ UNCHANGED <<run, resume, shard, pos, meta, hash, ckpt, at, rebuilt, built, ivf, baseList, history>>

\* Seeded bug: the checkpoint names the end of the next block.
CheckpointAhead ==
    [next |-> pos + BlockSize,
     sizes |-> [f \in Buckets |-> IF disk[f] = None THEN 0 ELSE Len(disk[f])]]

Checkpoint ==
    [next |-> pos,
     sizes |-> [f \in Buckets |-> IF disk[f] = None THEN 0 ELSE Len(disk[f])]]

Commit ==
    /\ pc = "commit"
    /\ ckpt' = Checkpoint
    /\ pc' = "encode"
    /\ UNCHANGED <<run, writer, disk, meta, hash, at, rebuilt, built, ivf, baseList, history>>

\* BaseBasicWriter::Close.
CloseBasic ==
    /\ pc = "encode" /\ pos = N
    /\ disk' = WrittenOut(File) /\ buf' = NoBuf
    /\ shard' = -1
    /\ pc' = "closed"
    /\ UNCHANGED <<run, resume, pos, meta, hash, ckpt, at, rebuilt, built, ivf, baseList, history>>

\* The last checkpoint, which may fail with a warning, or the hash.
FinishBasic ==
    /\ pc = "closed"
    /\ IF o.ckpt THEN ckpt' \in {ckpt, Checkpoint} /\ UNCHANGED hash
                 ELSE hash' = TRUE /\ UNCHANGED ckpt
    /\ rebuilt' = TRUE
    /\ pc' = "ivf"
    /\ UNCHANGED <<run, writer, disk, meta, at, built, ivf, baseList, history>>

\* Encoding is off: the store must be there if it is needed.  A hash that is
\* missing counts as one that matches.
ReuseBasic ==
    /\ pc = "basic" /\ ~o.encode
    /\ IF meta \/ ~Needed THEN pc' = "ivf" ELSE Fails
    /\ UNCHANGED <<run, writer, basic, at, rebuilt, built, ivf, baseList, history>>

-----------------------------------------------------------------------------
(* RunLargeIvfStage *)

\* The list of a cluster begins after those of the clusters before it, counted
\* in cluster_id.u32; zeros are cluster 0.  The last entry is the total.
ClusterOf(v) == IF v = Hole THEN 0 ELSE Cluster[v]
Offsets(file) == [c \in 0 .. NList |->
                     Cardinality({i \in 1 .. Len(file) : ClusterOf(file[i]) < c})]
ListSize(c) == off[c + 1] - off[c]

\* Open reads the offsets only, and the last of them must be N.
IvfUsable == off \notin {None, Torn} /\ ids # None /\ off[NList] = N /\ ~rebuilt

\* Seeded bug: the length of the file is not compared with N.
HasAnyIds == disk[Cid] # None
HasAllIds == disk[Cid] # None /\ Len(disk[Cid]) = N

\* Nothing more to do, or the pair on disk is used, or the build begins: it
\* is refused without all N cluster ids, and truncates the offsets.
StartIvf ==
    /\ pc = "ivf"
    /\ \/ ~Needed /\ Fails /\ UNCHANGED off
       \/ Needed /\ IvfUsable /\ pc' = "list" /\ UNCHANGED off
       \/ /\ Needed /\ ~IvfUsable
          /\ ~HasAllIds
          /\ Fails /\ UNCHANGED off
       \/ /\ Needed /\ ~IvfUsable
          /\ HasAllIds
          /\ off' = Torn
          /\ pc' = "offsets"
    /\ UNCHANGED <<run, writer, basic, at, rebuilt, built, ids, baseList, history>>

WriteOffsets ==
    /\ pc = "offsets"
    /\ off' = Offsets(disk[Cid])
    /\ pc' = "truncids"
    /\ UNCHANGED <<run, writer, basic, at, rebuilt, built, ids, baseList, history>>

TruncIds ==
    /\ pc = "truncids"
    /\ ids' = 0
    /\ pc' = "ids"
    /\ UNCHANGED <<run, writer, basic, at, rebuilt, built, off, baseList, history>>

\* The ids are written in order and flushed at the end.
WriteIds ==
    /\ pc = "ids"
    /\ ids' \in ids + 1 .. N
    /\ pc' = IF ids' = N THEN "list" ELSE "ids"
    /\ UNCHANGED <<run, writer, basic, at, rebuilt, built, off, baseList, history>>

-----------------------------------------------------------------------------
(* RunLargeBaseListStage *)

\* Seeded bug: base_list is removed although it is protected.
StartListUnprotected ==
    /\ pc = "list"
    /\ IF listMeta /\ ~rebuilt
       THEN pc' = "ready" /\ UNCHANGED <<baseList, tainted>>
       ELSE /\ listMeta' = FALSE /\ list' = None /\ raw' = FALSE /\ listHash' = FALSE
            /\ tainted' = orphaned
            /\ pc' = "listmeta"
    /\ UNCHANGED <<run, writer, basic, at, rebuilt, built, ivf, orphaned>>

\* A store that opens is reused unless this run has encoded; a missing hash
\* does not matter, the sizes in meta.bin agree.  Otherwise the directory is
\* removed, unless it is protected.
StartList ==
    /\ pc = "list"
    /\ \/ /\ listMeta /\ ~rebuilt
          /\ pc' = "ready"
          /\ UNCHANGED <<baseList, tainted>>
       \/ /\ ~listMeta \/ rebuilt
          /\ o.protect /\ listMeta
          /\ Fails
          /\ UNCHANGED <<baseList, tainted>>
       \/ /\ ~listMeta \/ rebuilt
          /\ ~(o.protect /\ listMeta)
          /\ listMeta' = FALSE /\ list' = None /\ raw' = FALSE /\ listHash' = FALSE
          /\ tainted' = orphaned
          /\ pc' = "listmeta"
    /\ UNCHANGED <<run, writer, basic, at, rebuilt, built, ivf, orphaned>>

\* BuildBaseListStoreFromBasicBuckets: meta.bin first, then every file at its
\* full size.
ListMeta ==
    /\ pc = "listmeta"
    /\ listMeta' = TRUE
    /\ pc' = "prealloc"
    /\ UNCHANGED <<run, writer, basic, at, rebuilt, built, ivf, list, raw, listHash, history>>

Prealloc ==
    /\ pc = "prealloc"
    /\ IF list = None
       THEN list' = [p \in Vector |-> Hole] /\ UNCHANGED <<raw, pc>>
       ELSE raw' = TRUE /\ pc' = "copy" /\ UNCHANGED list
    /\ at' = 0
    /\ UNCHANGED <<run, writer, basic, rebuilt, built, ivf, listMeta, listHash, history>>

ClustersOf(b) == {c \in 0 .. NList - 1 : c \div BucketSize = b}
RecordsOf(b, c) ==
    LET file == disk[<<"bucket", b>>]
        of == IF file = None THEN {} ELSE {i \in 1 .. Len(file) : ClusterOf(file[i]) = c}
    IN  [k \in 1 .. Cardinality(of) |-> file[Ascending(of)[k]]]

\* Seeded bug: every cluster of a bucket starts at the offset of the first.
Begin0(c) == off[(c \div BucketSize) * BucketSize]

\* next_pos of a cluster, before its first record is copied.
Begin(c) == off[c]

\* One bucket: its records go to the slots of their clusters.  A bucket that
\* is missing is an error if a list says that it has records.
CopyBucket ==
    /\ pc = "copy" /\ at \in Bucket
    /\ LET file == disk[<<"bucket", at>>]
           missing == file = None /\ \E c \in ClustersOf(at) : ListSize(c) > 0
           foreign == file # None /\ \E i \in DOMAIN file :
                          ClusterOf(file[i]) \notin ClustersOf(at)
           filled(c) == Begin(c) .. Begin(c) + Len(RecordsOf(at, c)) - 1
       IN  IF missing \/ foreign
           THEN Fails /\ UNCHANGED <<list, at>>
           ELSE /\ list' = [p \in Vector |->
                       IF \E c \in ClustersOf(at) : p \in filled(c)
                       THEN LET c == CHOOSE c \in ClustersOf(at) : p \in filled(c)
                            IN  RecordsOf(at, c)[p - Begin(c) + 1]
                       ELSE list[p]]
                /\ at' = at + 1 /\ UNCHANGED pc
    /\ UNCHANGED <<run, writer, basic, rebuilt, built, ivf, listMeta, raw, listHash, history>>

\* Seeded bug: what was copied is not counted.
ValidateNothing ==
    /\ pc = "copy" /\ at \notin Bucket
    /\ pc' = "listhash"
    /\ UNCHANGED <<run, writer, basic, at, rebuilt, built, ivf, baseList, history>>

\* Every list must have got as many records as the offsets say.  If not, the
\* store stays as it is.
Validate ==
    /\ pc = "copy" /\ at \notin Bucket
    /\ IF \A c \in 0 .. NList - 1 : Len(RecordsOf(c \div BucketSize, c)) = ListSize(c)
       THEN pc' = "listhash" ELSE Fails
    /\ UNCHANGED <<run, writer, basic, at, rebuilt, built, ivf, baseList, history>>

WriteListHash ==
    /\ pc = "listhash"
    /\ listHash' = TRUE /\ built' = TRUE
    /\ pc' = "ready"
    /\ UNCHANGED <<run, writer, basic, at, rebuilt, ivf, listMeta, list, raw, history>>

-----------------------------------------------------------------------------
(* The cleanups, and what comes between them *)

\* Seeded bug: raw vectors are dropped although the linkage build needs them.
CleanupRawAlways ==
    /\ pc = "ready"
    /\ raw' = (raw /\ "raw" \in o.keep)
    /\ pc' = "use"
    /\ UNCHANGED <<run, writer, basic, at, rebuilt, built, ivf, listMeta, list, listHash, history>>

\* CleanupAfterBaseListReady: payload, cluster ids and, unless the linkage
\* build still needs them, the raw vectors.
CleanupAfterBaseList ==
    /\ pc = "ready"
    /\ disk' = [f \in File |->
          IF IF f = Cid THEN "cid" \in o.keep ELSE "basic" \in o.keep
          THEN disk[f] ELSE None]
    /\ raw' = (raw /\ ("raw" \in o.keep \/ o.use = "link"))
    /\ orphaned' = (orphaned \/ (ckpt # None /\ ckpt.next < N /\ disk' # disk))
    /\ pc' = "use"
    /\ UNCHANGED <<run, writer, meta, hash, ckpt, at, rebuilt, built, ivf,
                   listMeta, list, listHash, tainted>>

\* What the base evaluation and the linkage build read.
Readable == ids = N /\ list # None /\ (o.use = "link" => raw)

UseStores ==
    /\ pc = "use"
    /\ IF Readable /\ o.use = "link" THEN pc' = "linked" ELSE Fails
    /\ UNCHANGED <<run, writer, basic, at, rebuilt, built, ivf, baseList, history>>

\* CleanupAfterLinkageListReady, as far as these stores go.
CleanupAfterLinkage ==
    /\ pc = "linked"
    /\ IF "ivf" \in o.keep THEN UNCHANGED ivf ELSE off' = None /\ ids' = None
    /\ IF o.keep \cap {"basic", "cid", "ivf"} # {} THEN UNCHANGED basic
       ELSE disk' = NoFiles /\ meta' = FALSE /\ hash' = FALSE /\ ckpt' = None
    /\ IF "list" \in o.keep
       THEN raw' = (raw /\ "raw" \in o.keep) /\ UNCHANGED <<listMeta, list, listHash>>
       ELSE listMeta' = FALSE /\ list' = None /\ raw' = FALSE /\ listHash' = FALSE
    /\ pc' = "idle"
    /\ UNCHANGED <<run, writer, at, rebuilt, built, history>>

\* A kill, or an error, anywhere: of what the writer holds, a prefix of every
\* file's share has been or is written out.
Crash ==
    /\ pc # "idle"
    /\ \E k \in [{f \in File : buf[f] # <<>>} -> 0 .. N] :
        /\ \A f \in DOMAIN k : k[f] <= Len(buf[f])
        /\ disk' = [f \in File |-> IF f \in DOMAIN k
                       THEN disk[f] \o SubSeq(buf[f], 1, k[f]) ELSE disk[f]]
    /\ buf' = NoBuf
    /\ pc' = "idle"
    /\ UNCHANGED <<run, resume, shard, pos, meta, hash, ckpt, at, rebuilt, built,
                   ivf, baseList, history>>

BasicStage == \/ PrepareBasic \/ HashFirst \/ OpenFresh \/ InitCkpt \/ ResumeBasic
              \/ Truncate \/ OpenResume \/ EncodeBlock \/ Flush \/ Commit
              \/ CloseBasic \/ FinishBasic \/ ReuseBasic
IvfStage == StartIvf \/ WriteOffsets \/ TruncIds \/ WriteIds
ListStage == \/ StartList \/ ListMeta \/ Prealloc \/ CopyBucket \/ Validate
             \/ WriteListHash
Next == \/ \E s \in Settings : StartRun(s)
        \/ BasicStage \/ IvfStage \/ ListStage
        \/ CleanupAfterBaseList \/ UseStores \/ CleanupAfterLinkage
        \/ Crash

Spec == Init /\ [][Next]_vars

-----------------------------------------------------------------------------
(* Properties *)

\* What an uninterrupted run leaves in a file once the vectors below n are
\* encoded: their records, each once, in order.
Expected(f, n) == Records(f, 0, n)
Holds(f, s) == IF disk[f] = None THEN s = <<>> ELSE disk[f] = s

\* While a run encodes, what is on disk and in memory is, file by file, what
\* an uninterrupted run would have produced so far: resuming repeats no record
\* and loses none.  It is what the README says of a resume.
ResumeContinues ==
    pc \in {"encode", "flush", "commit"} =>
        \A f \in File : (IF disk[f] = None THEN <<>> ELSE disk[f]) \o buf[f]
                          = Expected(f, pos)

\* It holds as long as no cleanup has deleted files that a partial checkpoint
\* covers: a later resume extends them with zeros.
WriterInStep == ~orphaned => ResumeContinues

\* When the checkpoint says next_id, every file holds the records of all the
\* vectors before it, first, and the buckets at the sizes it names; only the
\* cleanup of a finished store takes them away.
CommittedIsDurable ==
    ckpt # None /\ ~orphaned =>
        \A f \in File :
            LET want == Expected(f, ckpt.next)
            IN  /\ f \in Buckets => ckpt.sizes[f] = Len(want)
                /\ IF disk[f] = None THEN want = <<>> \/ ckpt.next = N
                   ELSE Len(want) <= Len(disk[f]) /\ SubSeq(disk[f], 1, Len(want)) = want

\* A run that has encoded leaves the store an uninterrupted run leaves, until
\* the cleanup.
EncodedStoreIsWhole ==
    rebuilt /\ pc \notin {"use", "linked", "idle"} /\ ~orphaned =>
        \A f \in File : Holds(f, Expected(f, N))

\* Offsets that can be used are those of all vectors, whatever was killed
\* before: they are never taken from a cluster_id.u32 that lacks some.
OffsetsOfAllVectors ==
    off \notin {None, Torn} /\ ~orphaned =>
        off = [c \in 0 .. NList |-> Cardinality({v \in Vector : Cluster[v] < c})]

\* The slot the IVF lists give a vector.
SlotOf(v) == Cardinality({w \in Vector :
    Cluster[w] < Cluster[v] \/ (Cluster[w] = Cluster[v] /\ w < v)})
ListComplete == list # None /\ \A v \in Vector : list[SlotOf(v)] = v

\* base_list has its hash only when every slot holds its vector.  A list begun
\* from an orphaned checkpoint is no such list and may get its hash all the
\* same: if the vectors that became zeros were all in the first bucket, every
\* count agrees.  The converse of reuse does not hold: a store without a hash
\* is reused as well.
ListHashTruthful == listHash /\ ~tainted => ListComplete

\* A run that has built base_list finds in it, after the first cleanup, all it
\* goes on to read; one that has also encoded, the IVF lists too.
BuiltIsUsable ==
    pc = "use" /\ built =>
        /\ ~tainted => ListComplete
        /\ o.use = "link" => raw
        /\ rebuilt => ids = N

\* With the protection switch nothing but the cleanups takes away a finished
\* base_list, or vectors a checkpoint covers.
ProtectedStays ==
    [][o.protect /\ pc \notin {"idle", "ready", "linked"} =>
        /\ listHash => listHash' /\ list' = list
        /\ ckpt # None /\ o.ckpt => ckpt' # None /\ ckpt'.next >= ckpt.next]_vars
=============================================================================
