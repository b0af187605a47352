------------------------------ MODULE LinkageStore ------------------------------
(***************************************************************************)
(* The life of one linkage_list directory under successive runs of the     *)
(* driver: builds that resume a checkpoint or start over, and evaluations  *)
(* that reuse the store and may rebuild its coefficient codec in place.    *)
(* What identifies the content are two hash files, hash.u64 (the linkage   *)
(* settings) and coeff_hash.u64 (linkage and codec settings); the          *)
(* questions are whether they ever name what is not there, and what a run  *)
(* may destroy.  A cluster is written in one step here: LinkageBuild shows *)
(* that its many writes amount to one.  Removing the directory is one step *)
(* too: a kill inside it, which may leave a hash or done bytes beside      *)
(* files that are gone, is not modelled.                                   *)
(*                                                                         *)
(* Source: src/pipeline/stlq_large_linkage_stages.cpp,                     *)
(* src/pipeline/stlq_large_eval_stages.cpp,                                *)
(* src/pipeline/large_store_lifecycle.cpp, CleanupAfterLinkageListReady    *)
(* (src/pipeline/app_utils.cpp) and                                        *)
(* RebuildLinkageCoeffCodecFromLinkageListVirtual                          *)
(* (src/linkage/linkage_coeff_codec_rebuild.cpp).                          *)
(*                                                                         *)
(* large.base_linkage_store_coeffs_f32 keeps its default, true, and an     *)
(* evaluation asks for the int8 path, the one that reads the codec.        *)
(***************************************************************************)
EXTENDS Integers

CONSTANTS
    NList,
    Sigs,           \* linkage settings of equal layout, as told apart by
                    \* ComputeLinkageListStoreHash
    Knobs,          \* codec settings of equal layout
    None,
    Operators       \* how the program is run on one directory; of each way:
                    \*   builds    configurations of runs with base.linkage.enabled
                    \*   evals     configurations of runs without
                    \*   explicit  the directory is named by io.linkage_file
                    \*   maxRuns   bound on the number of runs

Cids == 0 .. NList - 1

(* sig, knob: the settings; codec: large.linkage_coeff_codec.enabled; ckpt:
   large.linkage_checkpoint; protect: large.protect_existing_outputs; keep:
   large.cleanup.keep_linkage_list_f32; only: run_state.eval_only, train and
   base.encode are disabled as well as base.linkage. *)
Configs == [sig : Sigs, knob : Knobs, codec : BOOLEAN, ckpt : BOOLEAN,
            protect : BOOLEAN, keep : BOOLEAN, only : BOOLEAN]

ASSUME StoreAssumption ==
    /\ NList \in Nat \ {0}
    /\ None \notin Sigs \cup Knobs
    /\ \A w \in DOMAIN Operators :
        LET way == Operators[w] IN
        /\ way.maxRuns \in Nat /\ way.explicit \in BOOLEAN
        /\ way.builds \subseteq Configs /\ way.evals \subseteq Configs
        /\ way.builds # {} /\ \A b \in way.builds : ~b.only
        \* An evaluation has no use for the checkpoint.
        /\ \A e \in way.evals : ~e.ckpt
        \* The name of a directory under the output root holds the linkage hash.
        /\ way.explicit \/ \A b, d \in way.builds \cup way.evals : b.sig = d.sig

VARIABLES
    exists,     \* the directory
    ckptFile,   \* ckpt_linkage_done.u8
    done,       \* its done bytes
    list,       \* the settings the list record of each cluster was built with
    codec,      \* the settings its codec record was encoded with
    codecMeta,  \* coeff_meta.bin
    floats,     \* the four .f32 coefficient files
    listMeta,   \* meta.bin
    storeHash, codecHash,   \* hash.u64, coeff_hash.u64
    \* ---- the run ----
    phase, cfg, runs,
    built,      \* clusters this run has written or skipped
    hash,       \* linkage_list_state.linkage_list_hash
    op          \* the way the directory is used

disk == <<exists, ckptFile, done, list, codec, codecMeta, floats, listMeta,
          storeHash, codecHash>>
vars == <<exists, ckptFile, done, list, codec, codecMeta, floats, listMeta,
          storeHash, codecHash, phase, cfg, runs, built, hash, op>>

Way == Operators[op]
Explicit == Way.explicit

Phases == {"idle", "prepare", "open", "build", "storehash", "codechash",
           "cleanup", "reuse", "codec", "rebuild", "evaluate"}

TypeOK ==
    /\ exists \in BOOLEAN /\ ckptFile \in BOOLEAN
    /\ done \subseteq Cids
    /\ list \in [Cids -> Sigs \cup {None}]
    /\ codec \in [Cids -> Knobs \cup {None}]
    /\ codecMeta \in BOOLEAN /\ floats \in BOOLEAN /\ listMeta \in BOOLEAN
    /\ storeHash \in Sigs \cup {None}
    /\ codecHash \in (Sigs \X Knobs) \cup {None}
    /\ phase \in Phases
    /\ cfg \in Configs
    /\ op \in DOMAIN Operators
    /\ runs \in 0 .. Way.maxRuns
    /\ built \subseteq Cids
    /\ hash \in Sigs

NoList == [c \in Cids |-> None]

Init ==
    /\ op \in DOMAIN Operators
    /\ exists = Explicit
    /\ ckptFile = FALSE /\ done = {}
    /\ list = NoList /\ codec = NoList
    /\ codecMeta = FALSE /\ floats = FALSE /\ listMeta = FALSE
    /\ storeHash = None /\ codecHash = None
    /\ phase = "idle"
    /\ cfg \in Way.builds
    /\ runs = 0
    /\ built = {}
    /\ hash = cfg.sig

\* A run that returns, with or without an error, leaves nothing in memory.
EndRun == phase' = "idle" /\ built' = {} /\ UNCHANGED hash

-----------------------------------------------------------------------------
(* A build: RunLargeLinkageListBuildStage with base.linkage.enabled *)

StartRun(configs, point) ==
    /\ phase = "idle"
    /\ runs < Way.maxRuns
    /\ Explicit => exists       \* otherwise the path is not used
    /\ runs' = runs + 1
    /\ cfg' \in configs
    /\ hash' = cfg'.sig
    /\ phase' = point
    /\ UNCHANGED <<disk, built, op>>

StartBuild == StartRun(Way.builds, "prepare")

HasCkpt == cfg.ckpt /\ ckptFile

\* PrepareStoreForRebuildOrResume
PrepareStore ==
    /\ phase = "prepare"
    /\ \/ /\ ~HasCkpt /\ cfg.protect /\ exists
          /\ EndRun
          /\ UNCHANGED disk
       \/ /\ HasCkpt /\ storeHash \notin {None, hash}
          /\ EndRun
          /\ UNCHANGED disk
       \/ /\ HasCkpt /\ storeHash \in {None, hash}
          /\ phase' = "open"
          /\ UNCHANGED <<disk, built, hash>>
       \/ /\ ~HasCkpt /\ ~(cfg.protect /\ exists)
          /\ phase' = "open"
          /\ exists' = FALSE /\ ckptFile' = FALSE /\ done' = {}
          /\ list' = NoList /\ codec' = NoList
          /\ codecMeta' = FALSE /\ floats' = FALSE /\ listMeta' = FALSE
          /\ storeHash' = None /\ codecHash' = None
          /\ UNCHANGED <<built, hash>>
    /\ UNCHANGED <<cfg, runs, op>>

\* ClusterCheckpoint::Open and OpenResume of both writers: they want the list's
\* payload files, and coeff_meta.bin of whatever settings.
ResumeStore ==
    /\ cfg.ckpt /\ done # {}
    /\ \/ /\ floats /\ (cfg.codec => codecMeta)
          /\ phase' = "build" /\ UNCHANGED <<built, hash>>
       \/ /\ ~floats \/ (cfg.codec /\ ~codecMeta)
          /\ EndRun
    /\ UNCHANGED <<disk, cfg, runs, op>>

\* Seeded bug: the hash is written when the build starts.
FreshStoreHashed ==
    /\ ~(cfg.ckpt /\ done # {})
    /\ phase' = "build"
    /\ exists' = TRUE
    /\ ckptFile' = (ckptFile \/ cfg.ckpt)
    /\ list' = NoList /\ codec' = NoList
    /\ floats' = TRUE /\ codecMeta' = cfg.codec
    /\ storeHash' = hash
    /\ UNCHANGED <<done, listMeta, codecHash, cfg, runs, built, hash, op>>

\* ClusterCheckpoint::Open and Open of both writers.
FreshStore ==
    /\ ~(cfg.ckpt /\ done # {})
    /\ phase' = "build"
    /\ exists' = TRUE
    /\ ckptFile' = (ckptFile \/ cfg.ckpt)
    /\ list' = NoList
    /\ floats' = TRUE
    /\ IF cfg.codec THEN codec' = NoList /\ codecMeta' = TRUE
                    ELSE UNCHANGED <<codec, codecMeta>>
    /\ UNCHANGED <<done, listMeta, storeHash, codecHash, cfg, runs, built, hash, op>>

OpenStore == phase = "open" /\ (ResumeStore \/ FreshStore)

\* Seeded bug: clusters that are done are written again.
BuildEveryCluster(c) ==
    /\ phase = "build"
    /\ c \notin built
    /\ built' = built \cup {c}
    /\ codec' = IF cfg.codec THEN [codec EXCEPT ![c] = cfg.knob] ELSE codec
    /\ list' = [list EXCEPT ![c] = cfg.sig]
    /\ done' = IF cfg.ckpt THEN done \cup {c} ELSE done
    /\ UNCHANGED <<exists, ckptFile, codecMeta, floats, listMeta, storeHash,
                   codecHash, phase, cfg, runs, hash, op>>

\* One turn of a worker: skip a done cluster, or write and publish it.
BuildCluster(c) ==
    /\ phase = "build"
    /\ c \notin built
    /\ built' = built \cup {c}
    /\ \/ /\ cfg.ckpt /\ c \in done
          /\ UNCHANGED <<list, codec, done>>
       \/ /\ ~(cfg.ckpt /\ c \in done)
          /\ codec' = IF cfg.codec THEN [codec EXCEPT ![c] = cfg.knob] ELSE codec
          /\ list' = [list EXCEPT ![c] = cfg.sig]
          /\ done' = IF cfg.ckpt THEN done \cup {c} ELSE done
    /\ UNCHANGED <<exists, ckptFile, codecMeta, floats, listMeta, storeHash,
                   codecHash, phase, cfg, runs, hash, op>>

\* Finish of the writers.
FinishBuild ==
    /\ phase = "build"
    /\ built = Cids
    /\ listMeta' = TRUE
    /\ phase' = "storehash"
    /\ UNCHANGED <<exists, ckptFile, done, list, codec, codecMeta, floats,
                   storeHash, codecHash, cfg, runs, built, hash, op>>

WriteStoreHash ==
    /\ phase = "storehash"
    /\ storeHash' = hash
    /\ phase' = "codechash"
    /\ UNCHANGED <<exists, ckptFile, done, list, codec, codecMeta, floats,
                   listMeta, codecHash, cfg, runs, built, hash, op>>

WriteCodecHash ==
    /\ phase = "codechash"
    /\ codecHash' = IF cfg.codec /\ codecMeta THEN <<hash, cfg.knob>> ELSE codecHash
    /\ phase' = "cleanup"
    /\ UNCHANGED <<exists, ckptFile, done, list, codec, codecMeta, floats,
                   listMeta, storeHash, cfg, runs, built, hash, op>>

\* Seeded bug: every .f32 file is deleted, coeff_scales.f32 of the codec too.
CleanupAllF32 ==
    /\ phase = "cleanup"
    /\ floats' = (floats /\ cfg.keep)
    /\ codec' = IF cfg.keep THEN codec ELSE NoList
    /\ phase' \in {"idle", "codec"}
    /\ built' = {}
    /\ UNCHANGED <<exists, ckptFile, done, list, codecMeta, listMeta,
                   storeHash, codecHash, cfg, runs, hash, op>>

\* CleanupAfterLinkageListReady; the run ends or goes on to its evaluation.
Cleanup ==
    /\ phase = "cleanup"
    /\ floats' = (floats /\ cfg.keep)
    /\ phase' \in {"idle", "codec"}
    /\ built' = {}
    /\ UNCHANGED <<exists, ckptFile, done, list, codec, codecMeta, listMeta,
                   storeHash, codecHash, cfg, runs, hash, op>>

-----------------------------------------------------------------------------
(* An evaluation *)

StartEval == StartRun(Way.evals, "reuse")

\* Seeded bug: a missing hash is adopted like any other.
CheckReuseAdoptsMissing ==
    /\ phase = "reuse"
    /\ \/ /\ ~listMeta \/ (storeHash \notin {None, hash} /\ ~cfg.only)
          /\ EndRun
       \/ /\ listMeta
          /\ storeHash \in {None, hash} \/ cfg.only
          /\ hash' = storeHash
          /\ phase' = "codec"
          /\ UNCHANGED built
    /\ UNCHANGED <<disk, cfg, runs, op>>

\* The reuse branch of RunLargeLinkageListBuildStage and CheckExistingStoreReuse:
\* an eval-only run adopts the hash it finds, a missing hash is accepted.
CheckReuse ==
    /\ phase = "reuse"
    /\ \/ /\ ~listMeta \/ (storeHash \notin {None, hash} /\ ~cfg.only)
          /\ EndRun
       \/ /\ listMeta
          /\ storeHash \in {None, hash} \/ cfg.only
          /\ hash' = IF storeHash = None THEN hash ELSE storeHash
          /\ phase' = "codec"
          /\ UNCHANGED built
    /\ UNCHANGED <<disk, cfg, runs, op>>

\* The codec store is there, and so is the hash this run expects.
CodecValidated == codecMeta /\ codecHash = <<hash, cfg.knob>>

\* An explicit frozen store is read with the codec it has, under its own name.
Frozen ==
    /\ cfg.only /\ Explicit /\ cfg.protect
    /\ codecMeta /\ codecHash # None

\* Seeded bug: large.protect_existing_outputs is not consulted.
PrepareCodecUnprotected ==
    /\ phase = "codec"
    /\ \/ /\ CodecValidated \/ Frozen
          /\ phase' = "evaluate"
          /\ UNCHANGED <<disk, built, hash>>
       \/ /\ ~(CodecValidated \/ Frozen)
          /\ ~floats \/ ~cfg.codec
          /\ EndRun
          /\ UNCHANGED disk
       \/ /\ ~(CodecValidated \/ Frozen)
          /\ floats /\ cfg.codec
          /\ phase' = "rebuild"
          /\ codec' = NoList /\ codecMeta' = TRUE
          /\ UNCHANGED <<exists, ckptFile, done, list, floats, listMeta,
                         storeHash, codecHash, built, hash>>
    /\ UNCHANGED <<cfg, runs, op>>

\* PrepareCodecStoreForEval, and the opening of the rebuild, which truncates.
PrepareCodec ==
    /\ phase = "codec"
    /\ \/ /\ CodecValidated \/ Frozen
          /\ phase' = "evaluate"
          /\ UNCHANGED <<disk, built, hash>>
       \/ /\ ~(CodecValidated \/ Frozen)
          /\ (cfg.protect /\ codecMeta) \/ ~floats
          /\ EndRun
          /\ UNCHANGED disk
       \/ /\ ~(CodecValidated \/ Frozen)
          /\ ~(cfg.protect /\ codecMeta) /\ floats
          /\ IF cfg.codec
             THEN /\ phase' = "rebuild"
                  /\ codec' = NoList /\ codecMeta' = TRUE
             ELSE /\ phase' = IF codecMeta THEN "evaluate" ELSE "idle"  \* only a warning
                  /\ UNCHANGED <<codec, codecMeta>>
          /\ UNCHANGED <<exists, ckptFile, done, list, floats, listMeta,
                         storeHash, codecHash, built, hash>>
    /\ UNCHANGED <<cfg, runs, op>>

RebuildCluster(c) ==
    /\ phase = "rebuild"
    /\ c \notin built
    /\ built' = built \cup {c}
    /\ codec' = [codec EXCEPT ![c] = cfg.knob]
    /\ UNCHANGED <<exists, ckptFile, done, list, codecMeta, floats, listMeta,
                   storeHash, codecHash, phase, cfg, runs, hash, op>>

FinishRebuild ==
    /\ phase = "rebuild"
    /\ built = Cids
    /\ codecHash' = <<hash, cfg.knob>>
    /\ phase' = "evaluate"
    /\ UNCHANGED <<exists, ckptFile, done, list, codec, codecMeta, floats,
                   listMeta, storeHash, cfg, runs, built, hash, op>>

\* The rebuild returns an error, which is logged; coeff_meta.bin exists.
FailRebuild ==
    /\ phase = "rebuild"
    /\ phase' = "evaluate"
    /\ UNCHANGED <<disk, cfg, runs, built, hash, op>>

Evaluate ==
    /\ phase = "evaluate"
    /\ EndRun
    /\ UNCHANGED <<disk, cfg, runs, op>>

\* The run is killed, or returns an error.
Crash ==
    /\ phase # "idle"
    /\ EndRun
    /\ UNCHANGED <<disk, cfg, runs, op>>

Next ==
    \/ StartBuild \/ PrepareStore \/ OpenStore
    \/ \E c \in Cids : BuildCluster(c)
    \/ FinishBuild \/ WriteStoreHash \/ WriteCodecHash \/ Cleanup
    \/ StartEval \/ CheckReuse \/ PrepareCodec
    \/ \E c \in Cids : RebuildCluster(c)
    \/ FinishRebuild \/ FailRebuild \/ Evaluate \/ Crash

Spec == Init /\ [][Next]_vars

-----------------------------------------------------------------------------
(* hash.u64 names what is in the directory: a run that trusts it reads a
   complete linkage list in which every cluster was built with the settings
   the hash stands for (README.md:1357, "Identity of the linkage graph/store"),
   even one a later run resumed. *)
StoreHashTruthful ==
    storeHash # None => listMeta /\ \A c \in Cids : list[c] = storeHash

(* coeff_hash.u64 names the codec store (README.md:1358, "Identity of the
   int8/bit-packed coeff codec built from a specific linkage store and codec
   config"): an evaluation that finds the hash it expects skips the rebuild,
   so when no run is at work on the directory every cluster's record must be
   there, encoded with those settings. *)
CodecHashTruthful ==
    phase = "idle" /\ codecHash # None =>
        codecMeta /\ \A c \in Cids : <<list[c], codec[c]>> = codecHash

(* README.md:1895, "Refuse auto-delete/rebuild of existing outputs", and the
   resume guard of README.md:736: a run that protects the outputs, or finds a
   checkpoint to resume, takes from no cluster of a complete store, and from
   no cluster a killed build published, the list record, the codec record or
   the done byte it has, whichever way the run goes and whatever its settings. *)
Published(c) == c \in done \/ listMeta

KeepsPublished ==
    [][phase # "idle" /\ (cfg.protect \/ HasCkpt) =>
         \A c \in Cids : Published(c) =>
            /\ list'[c] = list[c]
            /\ codec[c] # None => codec'[c] = codec[c]
            /\ c \in done => c \in done']_vars

(* Coefficients are never lost: a store announced by hash.u64 has them as
   floats, or in a codec record of every cluster, all of one encoding.
   Cleanup deletes the floats, a rebuild of the codec truncates the records. *)
CoefficientsRecoverable ==
    storeHash # None =>
        floats \/ \E q \in Knobs : \A c \in Cids : codec[c] = q

(***************************************************************************)
(* The three do not hold for whoever runs the program; they are what an    *)
(* operator gets who keeps the linkage settings s of a directory, builds   *)
(* with one codec setting q, and protects the outputs when evaluating.     *)
(***************************************************************************)
Steady(s, q) ==
    /\ \A b \in Way.builds : b.sig = s /\ b.knob = q /\ b.codec
    /\ \A e \in Way.evals : e.sig = s /\ e.protect

IsSteady == \E s \in Sigs, q \in Knobs : Steady(s, q)

\* For the steady operator hash.u64 names a complete list built with its settings.
SteadyStoreHashTruthful == IsSteady => StoreHashTruthful

\* For the steady operator coeff_hash.u64 names the codec records that are there.
SteadyCodecHashTruthful == IsSteady => CodecHashTruthful

\* The steady operator loses no coefficients to the cleanup or to a rebuild.
SteadyCoefficientsRecoverable == IsSteady => CoefficientsRecoverable
=============================================================================
