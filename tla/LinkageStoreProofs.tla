------------------------- MODULE LinkageStoreProofs -------------------------
(***************************************************************************)
(* LinkageStore for any number of clusters, settings, ways of running the  *)
(* program and runs.  KeepsPublished holds for whoever runs it; the two    *)
(* hash files and the coefficients are safe for the steady operator; for   *)
(* others they are not, as the runs that expect a violation show.          *)
(*                                                                         *)
(* What carries the proof is that every way into the writers leads through *)
(* PrepareStore: what they truncate is empty unless the checkpoint covers  *)
(* it, and what the checkpoint covers they skip.                           *)
(***************************************************************************)
EXTENDS LinkageStore, TLAPS

(***************************************************************************)
(* What a run can rely on whoever runs it.  A directory that has no        *)
(* checkpoint this run would resume is empty when the writers open it, and *)
(* a complete store that has a checkpoint has all its done bytes.          *)
(***************************************************************************)
Empty == done = {} /\ ~listMeta /\ ~ckptFile

StoreInv ==
    /\ ~exists => Empty
    /\ phase = "build" => exists
    /\ listMeta /\ ckptFile => done = Cids
    /\ phase \in {"open", "build"} /\ ~HasCkpt => Empty
    /\ phase \in {"idle", "prepare", "open", "reuse", "codec"} => built = {}
    /\ phase = "build" /\ cfg.ckpt => ckptFile /\ built \subseteq done

(* The codec's header covers its records, a build with a codec ends with its
   hash, and a rebuild starts from records that are gone. *)
CodecInv ==
    /\ ~codecMeta => codec = NoList
    /\ phase \in {"build", "storehash", "codechash"} /\ cfg.codec => codecMeta
    /\ phase = "reuse" => cfg \in Way.evals
    /\ phase \in {"cleanup", "codec"} /\ cfg.codec => CodecValidated \/ cfg \in Way.evals
    /\ phase = "rebuild" => codecMeta /\ \A c \in Cids \ built : codec[c] = None

IInv == TypeOK /\ StoreInv /\ CodecInv

(* What a steady operator's directory holds. *)
Written(c, s, q) == list[c] = s /\ codec[c] = q

SteadyInv(s, q) ==
    /\ hash = s
    /\ phase \in {"prepare", "open", "build", "storehash", "codechash", "cleanup"} =>
          cfg \in Way.builds
    /\ phase = "codec" => cfg \in Way.builds \cup Way.evals
    /\ phase \in {"storehash", "codechash", "cleanup", "codec"} => listMeta
    /\ phase # "rebuild"
    /\ \A c \in done : Written(c, s, q)
    /\ phase = "build" => \A c \in built : Written(c, s, q)
    /\ listMeta => codecMeta /\ \A c \in Cids : Written(c, s, q)
    /\ storeHash # None => listMeta /\ storeHash = s
    /\ codecHash # None => listMeta /\ codecHash = <<s, q>>

AllSteady == \A s \in Sigs, q \in Knobs : Steady(s, q) => SteadyInv(s, q)

\* A step of a run that may not touch what was published.
KeepStep ==
    phase # "idle" /\ (cfg.protect \/ HasCkpt) =>
        \A c \in Cids : Published(c) =>
            /\ list'[c] = list[c]
            /\ codec[c] # None => codec'[c] = codec[c]
            /\ c \in done => c \in done'

-----------------------------------------------------------------------------
LEMMA WayFacts ==
    ASSUME NEW w \in DOMAIN Operators
    PROVE  /\ Operators[w].builds \subseteq Configs /\ Operators[w].evals \subseteq Configs
           /\ Operators[w].maxRuns \in Nat /\ Operators[w].explicit \in BOOLEAN
           /\ \A e \in Operators[w].evals : ~e.ckpt
  BY StoreAssumption

LEMMA ConfigFacts ==
    ASSUME NEW f \in Configs
    PROVE  /\ f.sig \in Sigs /\ f.knob \in Knobs
           /\ f.codec \in BOOLEAN /\ f.ckpt \in BOOLEAN /\ f.protect \in BOOLEAN
  BY DEF Configs

LEMMA CidFacts == Cids # {} /\ \A x \in Sigs \cup Knobs : x # None
  <1>1. 0 \in Cids
    BY StoreAssumption DEF Cids
  <1> QED BY <1>1, StoreAssumption

LEMMA InitHolds == Init => IInv
  <1> SUFFICES ASSUME Init PROVE IInv
    OBVIOUS
  <1>1. op \in DOMAIN Operators /\ cfg \in Way.builds
    BY DEF Init
  <1>2. Way.builds \subseteq Configs /\ 0 \in 0 .. Way.maxRuns /\ Explicit \in BOOLEAN
    BY <1>1, WayFacts DEF Way, Explicit
  <1>3. cfg \in Configs /\ hash \in Sigs
    BY <1>1, <1>2, ConfigFacts DEF Init
  <1>4. TypeOK
    BY <1>1, <1>2, <1>3 DEF Init, TypeOK, NoList, Phases
  <1>5. StoreInv
    BY DEF Init, StoreInv, Empty
  <1>6. CodecInv
    BY DEF Init, CodecInv
  <1> QED BY <1>4, <1>5, <1>6 DEF IInv

\* A run that stops and leaves the directory as it is.
LEMMA StopKeeps ==
    ASSUME IInv, EndRun, UNCHANGED <<disk, cfg, runs, op>>
    PROVE  IInv' /\ KeepStep
  <1>1. TypeOK'
    BY DEF IInv, EndRun, disk, TypeOK, Phases, Way
  <1>2. StoreInv'
    BY DEF IInv, EndRun, disk, StoreInv, Empty
  <1>3. CodecInv'
    BY DEF IInv, EndRun, disk, CodecInv
  <1>4. KeepStep
    BY DEF KeepStep, disk
  <1> QED BY <1>1, <1>2, <1>3, <1>4 DEF IInv

LEMMA StartKeeps ==
    ASSUME IInv, StartBuild \/ StartEval
    PROVE  IInv' /\ KeepStep
  <1>1. PICK configs \in {Way.builds, Way.evals}, p \in {"prepare", "reuse"} :
           /\ StartRun(configs, p)
           /\ p = "reuse" => configs = Way.evals
    BY DEF StartBuild, StartEval
  <1>2. TypeOK /\ op \in DOMAIN Operators
    BY DEF IInv, TypeOK
  <1>3. configs \subseteq Configs /\ Way.maxRuns \in Nat
    BY <1>2, WayFacts DEF Way
  <1>4. /\ phase = "idle" /\ phase' = p /\ cfg' \in configs /\ hash' = cfg'.sig
        /\ runs < Way.maxRuns /\ runs' = runs + 1
        /\ UNCHANGED <<disk, built, op>>
    BY <1>1 DEF StartRun
  <1>5. cfg' \in Configs /\ hash' \in Sigs
    BY <1>3, <1>4, ConfigFacts
  <1>6. runs' \in 0 .. Way.maxRuns
    BY <1>2, <1>3, <1>4 DEF TypeOK
  <1>7. TypeOK'
    BY <1>2, <1>4, <1>5, <1>6 DEF disk, TypeOK, Phases, Way
  <1>8. StoreInv'
    BY <1>4 DEF IInv, disk, StoreInv, Empty
  <1>9. CodecInv'
    BY <1>1, <1>4 DEF IInv, disk, CodecInv, Way
  <1>10. KeepStep
    BY <1>4 DEF KeepStep
  <1> QED BY <1>7, <1>8, <1>9, <1>10 DEF IInv

-----------------------------------------------------------------------------
(* A build *)

LEMMA PrepareStoreKeeps == ASSUME IInv, PrepareStore PROVE IInv' /\ KeepStep
  <1>1. TypeOK /\ StoreInv /\ CodecInv /\ phase = "prepare" /\ UNCHANGED <<cfg, runs, op>>
    BY DEF IInv, PrepareStore
  <1>2. CASE EndRun /\ UNCHANGED disk
    BY <1>1, <1>2, StopKeeps
  <1>3. CASE HasCkpt /\ phase' = "open" /\ UNCHANGED <<disk, built, hash>>
    <2>1. TypeOK'
      BY <1>1, <1>3 DEF disk, TypeOK, Phases, Way
    <2>2. StoreInv' /\ CodecInv'
      BY <1>1, <1>3 DEF disk, StoreInv, CodecInv, Empty, HasCkpt
    <2>3. KeepStep
      BY <1>3 DEF KeepStep, disk
    <2> QED BY <2>1, <2>2, <2>3 DEF IInv
  <1>4. CASE /\ ~HasCkpt /\ ~(cfg.protect /\ exists) /\ phase' = "open"
             /\ exists' = FALSE /\ ckptFile' = FALSE /\ done' = {}
             /\ list' = NoList /\ codec' = NoList
             /\ codecMeta' = FALSE /\ floats' = FALSE /\ listMeta' = FALSE
             /\ storeHash' = None /\ codecHash' = None
             /\ UNCHANGED <<built, hash>>
    <2>1. NoList \in [Cids -> Sigs \cup {None}] /\ NoList \in [Cids -> Knobs \cup {None}]
      BY DEF NoList
    <2>2. TypeOK'
      BY <1>1, <1>4, <2>1 DEF TypeOK, Phases, Way
    <2>3. StoreInv'
      BY <1>1, <1>4 DEF StoreInv, Empty
    <2>4. CodecInv'
      BY <1>4 DEF CodecInv
    <2>5. KeepStep
      BY <1>1, <1>4 DEF KeepStep, StoreInv, Empty, Published
    <2> QED BY <2>2, <2>3, <2>4, <2>5 DEF IInv
  <1> QED BY <1>1, <1>2, <1>3, <1>4 DEF PrepareStore

\* What the writers truncate when they do not resume was empty.
LEMMA FreshIsEmpty ==
    ASSUME IInv, phase = "open", ~(cfg.ckpt /\ done # {})
    PROVE  done = {} /\ ~listMeta
  <1>1. CASE HasCkpt
    BY <1>1, CidFacts DEF IInv, StoreInv, HasCkpt
  <1>2. CASE ~HasCkpt
    BY <1>2 DEF IInv, StoreInv, Empty
  <1> QED BY <1>1, <1>2

LEMMA OpenStoreKeeps == ASSUME IInv, OpenStore PROVE IInv' /\ KeepStep
  <1>1. TypeOK /\ StoreInv /\ CodecInv /\ phase = "open" /\ UNCHANGED <<cfg, runs, op>>
    BY DEF IInv, OpenStore, ResumeStore, FreshStore
  <1>2. CASE ResumeStore /\ EndRun
    BY <1>1, <1>2, StopKeeps DEF ResumeStore
  <1>3. CASE ResumeStore /\ ~EndRun
    <2>1. /\ cfg.ckpt /\ done # {} /\ (cfg.codec => codecMeta)
          /\ phase' = "build" /\ UNCHANGED <<disk, built, hash>>
      BY <1>3 DEF ResumeStore
    <2>2. TypeOK'
      BY <1>1, <2>1 DEF disk, TypeOK, Phases, Way
    <2>3. ckptFile
      BY <1>1, <2>1 DEF StoreInv, HasCkpt, Empty
    <2>4. StoreInv'
      BY <1>1, <2>1, <2>3 DEF disk, StoreInv, Empty, HasCkpt
    <2>5. CodecInv'
      BY <1>1, <2>1 DEF disk, CodecInv
    <2>6. KeepStep
      BY <2>1 DEF KeepStep, disk
    <2> QED BY <2>2, <2>4, <2>5, <2>6 DEF IInv
  <1>4. CASE FreshStore
    <2>1. done = {} /\ ~listMeta /\ built = {}
      BY <1>1, <1>4, FreshIsEmpty DEF FreshStore, StoreInv
    <2>2. /\ phase' = "build" /\ exists' = TRUE /\ ckptFile' = (ckptFile \/ cfg.ckpt)
          /\ list' = NoList /\ floats' = TRUE
          /\ UNCHANGED <<done, listMeta, storeHash, codecHash, built, hash>>
      BY <1>4 DEF FreshStore
    <2>3. \/ cfg.codec /\ codec' = NoList /\ codecMeta' = TRUE
          \/ ~cfg.codec /\ UNCHANGED <<codec, codecMeta>>
      BY <1>4 DEF FreshStore
    <2>4. NoList \in [Cids -> Sigs \cup {None}] /\ NoList \in [Cids -> Knobs \cup {None}]
      BY DEF NoList
    <2>5. ckptFile' \in BOOLEAN /\ codecMeta' \in BOOLEAN /\ codec' \in [Cids -> Knobs \cup {None}]
      <3>1. cfg.ckpt \in BOOLEAN
        BY <1>1, ConfigFacts DEF TypeOK
      <3> QED BY <1>1, <2>2, <2>3, <2>4, <3>1 DEF TypeOK
    <2>6. TypeOK'
      BY <1>1, <2>2, <2>4, <2>5 DEF TypeOK, Phases, Way
    <2>7. StoreInv'
      BY <1>1, <2>1, <2>2 DEF StoreInv, Empty, HasCkpt
    <2>8. CodecInv'
      BY <1>1, <2>2, <2>3 DEF CodecInv
    <2>9. KeepStep
      BY <2>1 DEF KeepStep, Published
    <2> QED BY <2>6, <2>7, <2>8, <2>9 DEF IInv
  <1> QED BY <1>1, <1>2, <1>3, <1>4 DEF OpenStore

LEMMA BuildClusterKeeps ==
    ASSUME IInv, NEW c \in Cids, BuildCluster(c)
    PROVE  IInv' /\ KeepStep
  <1>1. /\ TypeOK /\ StoreInv /\ CodecInv /\ phase = "build" /\ phase' = "build"
        /\ built' = built \cup {c}
        /\ UNCHANGED <<exists, ckptFile, codecMeta, floats, listMeta, storeHash,
                       codecHash, cfg, runs, hash, op>>
    BY DEF IInv, BuildCluster
  <1>2. cfg.sig \in Sigs /\ cfg.knob \in Knobs
    BY <1>1, ConfigFacts DEF TypeOK
  <1>3. CASE cfg.ckpt /\ c \in done /\ UNCHANGED <<list, codec, done>>
    <2>1. TypeOK'
      BY <1>1, <1>3 DEF TypeOK, Way
    <2>2. StoreInv' /\ CodecInv'
      BY <1>1, <1>3 DEF StoreInv, CodecInv, Empty, HasCkpt
    <2>3. KeepStep
      BY <1>3 DEF KeepStep
    <2> QED BY <2>1, <2>2, <2>3 DEF IInv
  <1>4. CASE /\ ~(cfg.ckpt /\ c \in done)
             /\ codec' = IF cfg.codec THEN [codec EXCEPT ![c] = cfg.knob] ELSE codec
             /\ list' = [list EXCEPT ![c] = cfg.sig]
             /\ done' = IF cfg.ckpt THEN done \cup {c} ELSE done
    <2>1. TypeOK'
      <3>1. list' \in [Cids -> Sigs \cup {None}]
        BY <1>1, <1>2, <1>4 DEF TypeOK
      <3>2. codec' \in [Cids -> Knobs \cup {None}]
        BY <1>1, <1>2, <1>4 DEF TypeOK
      <3> QED BY <1>1, <1>4, <3>1, <3>2 DEF TypeOK, Way
    <2>2. ~listMeta /\ c \notin done
      BY <1>1, <1>4 DEF StoreInv, Empty, HasCkpt
    <2>3. StoreInv'
      BY <1>1, <1>4, <2>2 DEF StoreInv, Empty, HasCkpt
    <2>4. CodecInv'
      BY <1>1, <1>4 DEF CodecInv
    <2>5. KeepStep
      <3>1. ASSUME NEW d \in Cids, Published(d) PROVE d # c /\ d \in done
        BY <2>2, <3>1 DEF Published
      <3>2. \A d \in Cids : d # c => list'[d] = list[d] /\ codec'[d] = codec[d]
        BY <1>1, <1>4 DEF TypeOK
      <3> QED BY <1>4, <3>1, <3>2 DEF KeepStep
    <2> QED BY <2>1, <2>3, <2>4, <2>5 DEF IInv
  <1> QED BY <1>3, <1>4 DEF BuildCluster

LEMMA FinishBuildKeeps == ASSUME IInv, FinishBuild PROVE IInv' /\ KeepStep
  <1>1. TypeOK /\ StoreInv /\ CodecInv
    BY DEF IInv
  <1>2. TypeOK'
    BY <1>1 DEF FinishBuild, TypeOK, Phases, Way
  <1>3. StoreInv'
    <2>1. ckptFile => done = Cids
      BY <1>1 DEF FinishBuild, StoreInv, HasCkpt, Empty, TypeOK
    <2>2. exists
      BY <1>1 DEF FinishBuild, StoreInv
    <2> QED BY <1>1, <2>1, <2>2 DEF FinishBuild, StoreInv, Empty
  <1>4. CodecInv'
    BY <1>1 DEF FinishBuild, CodecInv
  <1>5. KeepStep
    BY DEF FinishBuild, KeepStep
  <1> QED BY <1>2, <1>3, <1>4, <1>5 DEF IInv

\* The three steps between the writers' Finish and the end of the build: the
\* two hashes and the cleanup.
LEMMA HashesKeep ==
    ASSUME IInv, WriteStoreHash \/ WriteCodecHash \/ Cleanup
    PROVE  IInv' /\ KeepStep
  <1>1. /\ TypeOK /\ StoreInv /\ CodecInv /\ cfg.sig \in Sigs /\ cfg.knob \in Knobs
        /\ cfg.codec \in BOOLEAN
    BY ConfigFacts DEF IInv, TypeOK
  <1>2. KeepStep
    BY DEF WriteStoreHash, WriteCodecHash, Cleanup, KeepStep
  <1>3. CASE WriteStoreHash
    <2>1. TypeOK'
      BY <1>1, <1>3 DEF WriteStoreHash, TypeOK, Phases, Way
    <2>2. StoreInv' /\ CodecInv'
      BY <1>1, <1>3 DEF WriteStoreHash, StoreInv, CodecInv, Empty
    <2> QED BY <1>2, <2>1, <2>2 DEF IInv
  <1>4. CASE WriteCodecHash
    <2>1. codecHash' \in (Sigs \X Knobs) \cup {None}
      BY <1>1, <1>4 DEF WriteCodecHash, TypeOK
    <2>2. TypeOK'
      BY <1>1, <1>4, <2>1 DEF WriteCodecHash, TypeOK, Phases, Way
    <2>3. StoreInv'
      BY <1>1, <1>4 DEF WriteCodecHash, StoreInv, Empty
    <2>4. cfg.codec => CodecValidated'
      BY <1>1, <1>4 DEF WriteCodecHash, CodecInv, CodecValidated
    <2>5. CodecInv'
      BY <1>1, <1>4, <2>4 DEF WriteCodecHash, CodecInv
    <2> QED BY <1>2, <2>2, <2>3, <2>5 DEF IInv
  <1>5. CASE Cleanup
    <2>1. floats' \in BOOLEAN
      BY <1>1, <1>5, ConfigFacts DEF Cleanup, TypeOK
    <2>2. TypeOK'
      BY <1>1, <1>5, <2>1 DEF Cleanup, TypeOK, Phases, Way
    <2>3. StoreInv' /\ CodecInv'
      BY <1>1, <1>5 DEF Cleanup, StoreInv, CodecInv, Empty, CodecValidated, Way
    <2> QED BY <1>2, <2>2, <2>3 DEF IInv
  <1> QED BY <1>3, <1>4, <1>5

-----------------------------------------------------------------------------
(* An evaluation *)

LEMMA CheckReuseKeeps == ASSUME IInv, CheckReuse PROVE IInv' /\ KeepStep
  <1>1. TypeOK /\ StoreInv /\ CodecInv /\ phase = "reuse" /\ UNCHANGED <<disk, cfg, runs, op>>
    BY DEF IInv, CheckReuse
  <1>2. CASE EndRun
    BY <1>1, <1>2, StopKeeps
  <1>3. CASE /\ hash' = IF storeHash = None THEN hash ELSE storeHash
             /\ phase' = "codec" /\ UNCHANGED built
    <2>1. TypeOK'
      BY <1>1, <1>3 DEF disk, TypeOK, Phases, Way
    <2>2. StoreInv' /\ CodecInv'
      BY <1>1, <1>3 DEF disk, StoreInv, CodecInv, Empty, Way
    <2>3. KeepStep
      BY <1>1 DEF disk, KeepStep
    <2> QED BY <2>1, <2>2, <2>3 DEF IInv
  <1> QED BY <1>2, <1>3 DEF CheckReuse

\* A run that resumed a checkpoint finds the codec hash it wrote itself, one that
\* protects the outputs rebuilds nothing but a codec store that does not exist.
LEMMA RebuildTakesNothing ==
    ASSUME IInv, phase = "codec", cfg.protect \/ HasCkpt, cfg.codec,
           ~CodecValidated, ~(cfg.protect /\ codecMeta)
    PROVE  \A c \in Cids : codec[c] = None
  <1>1. op \in DOMAIN Operators
    BY DEF IInv, TypeOK
  <1>2. \A e \in Way.evals : ~e.ckpt
    BY <1>1, WayFacts DEF Way
  <1>3. ~codecMeta
    BY <1>2 DEF IInv, CodecInv, HasCkpt
  <1> QED BY <1>3 DEF IInv, CodecInv, NoList

LEMMA PrepareCodecKeeps == ASSUME IInv, PrepareCodec PROVE IInv' /\ KeepStep
  <1>1. TypeOK /\ StoreInv /\ CodecInv /\ phase = "codec" /\ UNCHANGED <<cfg, runs, op>>
    BY DEF IInv, PrepareCodec
  <1>2. CASE phase' = "evaluate" /\ UNCHANGED <<disk, built, hash>>
    <2>1. TypeOK'
      BY <1>1, <1>2 DEF disk, TypeOK, Phases, Way
    <2>2. StoreInv' /\ CodecInv'
      BY <1>1, <1>2 DEF disk, StoreInv, CodecInv, Empty
    <2>3. KeepStep
      BY <1>2 DEF disk, KeepStep
    <2> QED BY <2>1, <2>2, <2>3 DEF IInv
  <1>3. CASE EndRun /\ UNCHANGED disk
    BY <1>1, <1>3, StopKeeps
  <1>4. CASE /\ ~CodecValidated /\ ~(cfg.protect /\ codecMeta) /\ cfg.codec
             /\ phase' = "rebuild" /\ codec' = NoList /\ codecMeta' = TRUE
             /\ UNCHANGED <<exists, ckptFile, done, list, floats, listMeta,
                            storeHash, codecHash, built, hash>>
    <2>1. TypeOK'
      BY <1>1, <1>4 DEF TypeOK, Phases, Way, NoList
    <2>2. StoreInv' /\ CodecInv'
      BY <1>1, <1>4 DEF StoreInv, CodecInv, Empty, NoList
    <2>3. KeepStep
      BY <1>1, <1>4, RebuildTakesNothing DEF KeepStep
    <2> QED BY <2>1, <2>2, <2>3 DEF IInv
  <1>5. CASE /\ ~cfg.codec
             /\ phase' = IF codecMeta THEN "evaluate" ELSE "idle"
             /\ UNCHANGED <<disk, built, hash>>
    <2>1. CASE codecMeta
      BY <1>2, <1>5, <2>1
    <2>2. CASE ~codecMeta
      \* The run ends here with what it has in memory, which is nothing.
      <3>1. TypeOK'
        BY <1>1, <1>5, <2>2 DEF disk, TypeOK, Phases, Way
      <3>2. built = {}
        BY <1>1 DEF StoreInv
      <3>3. StoreInv' /\ CodecInv'
        BY <1>1, <1>5, <2>2, <3>2 DEF disk, StoreInv, CodecInv, Empty
      <3>4. KeepStep
        BY <1>5 DEF disk, KeepStep
      <3> QED BY <3>1, <3>3, <3>4 DEF IInv
    <2> QED BY <2>1, <2>2
  <1>6. \/ phase' = "evaluate" /\ UNCHANGED <<disk, built, hash>>
        \/ EndRun /\ UNCHANGED disk
        \/ /\ ~CodecValidated /\ ~(cfg.protect /\ codecMeta) /\ cfg.codec
           /\ phase' = "rebuild" /\ codec' = NoList /\ codecMeta' = TRUE
           /\ UNCHANGED <<exists, ckptFile, done, list, floats, listMeta,
                          storeHash, codecHash, built, hash>>
        \/ /\ ~cfg.codec
           /\ phase' = IF codecMeta THEN "evaluate" ELSE "idle"
           /\ UNCHANGED <<disk, built, hash>>
    BY DEF PrepareCodec, disk
  <1> QED BY <1>2, <1>3, <1>4, <1>5, <1>6

LEMMA RebuildClusterKeeps ==
    ASSUME IInv, NEW c \in Cids, RebuildCluster(c)
    PROVE  IInv' /\ KeepStep
  <1>1. /\ TypeOK /\ StoreInv /\ CodecInv /\ phase = "rebuild" /\ c \notin built
        /\ built' = built \cup {c} /\ codec' = [codec EXCEPT ![c] = cfg.knob]
        /\ UNCHANGED <<exists, ckptFile, done, list, codecMeta, floats, listMeta,
                       storeHash, codecHash, phase, cfg, runs, hash, op>>
    BY DEF IInv, RebuildCluster
  <1>2. cfg.knob \in Knobs
    BY <1>1, ConfigFacts DEF TypeOK
  <1>3. \A d \in Cids : d # c => codec'[d] = codec[d]
    BY <1>1 DEF TypeOK
  <1>4. TypeOK'
    BY <1>1, <1>2 DEF TypeOK, Way
  <1>5. StoreInv'
    BY <1>1 DEF StoreInv, Empty, HasCkpt
  <1>6. CodecInv'
    BY <1>1, <1>3 DEF CodecInv
  <1>7. codec[c] = None
    BY <1>1 DEF CodecInv
  <1>8. KeepStep
    BY <1>1, <1>3, <1>7 DEF KeepStep
  <1> QED BY <1>4, <1>5, <1>6, <1>8 DEF IInv

LEMMA RebuildEndsKeep ==
    ASSUME IInv, FinishRebuild \/ FailRebuild
    PROVE  IInv' /\ KeepStep
  <1>1. /\ TypeOK /\ StoreInv /\ CodecInv /\ phase' = "evaluate"
        /\ UNCHANGED <<exists, ckptFile, done, list, codec, codecMeta, floats,
                       listMeta, storeHash, cfg, runs, built, hash, op>>
    BY DEF IInv, FinishRebuild, FailRebuild, disk
  <1>2. codecHash' \in (Sigs \X Knobs) \cup {None}
    BY <1>1, ConfigFacts DEF FinishRebuild, FailRebuild, disk, TypeOK
  <1>3. TypeOK'
    BY <1>1, <1>2 DEF TypeOK, Phases, Way
  <1>4. StoreInv' /\ CodecInv'
    BY <1>1 DEF StoreInv, CodecInv, Empty
  <1>5. KeepStep
    BY <1>1 DEF KeepStep
  <1> QED BY <1>3, <1>4, <1>5 DEF IInv

LEMMA NextKeeps == ASSUME IInv, Next PROVE IInv' /\ KeepStep
  <1>1. CASE Evaluate \/ Crash
    BY <1>1, StopKeeps DEF Evaluate, Crash
  <1> QED BY <1>1, StartKeeps, PrepareStoreKeeps, OpenStoreKeeps, BuildClusterKeeps,
             FinishBuildKeeps, HashesKeep, CheckReuseKeeps, PrepareCodecKeeps,
             RebuildClusterKeeps, RebuildEndsKeep
          DEF Next

LEMMA StutterKeeps == ASSUME IInv, UNCHANGED vars PROVE IInv'
  <1>1. TypeOK'
    BY DEF IInv, vars, TypeOK, Way
  <1>2. StoreInv' /\ CodecInv'
    BY DEF IInv, vars, StoreInv, CodecInv, Empty, HasCkpt, CodecValidated, Way
  <1> QED BY <1>1, <1>2 DEF IInv

LEMMA Inductive == Spec => []IInv
  <1>1. IInv /\ [Next]_vars => IInv'
    BY NextKeeps, StutterKeeps
  <1> QED BY <1>1, InitHolds, PTL DEF Spec

(* Types: the variables keep their ranges, whoever runs the program. *)
THEOREM TypesHold == Spec => []TypeOK
  <1>1. IInv => TypeOK
    BY DEF IInv
  <1> QED BY <1>1, Inductive, PTL

(* A run that protects the outputs, or resumes a checkpoint, takes nothing from
   a published cluster: whichever way it goes and whatever its settings, and
   whatever the runs before it did. *)
THEOREM PublishedIsKept == Spec => KeepsPublished
  <1>1. IInv /\ [Next]_vars => [KeepStep]_vars
    BY NextKeeps
  <1>2. IInv /\ [Next]_vars =>
          [phase # "idle" /\ (cfg.protect \/ HasCkpt) =>
             \A c \in Cids : Published(c) =>
                /\ list'[c] = list[c]
                /\ codec[c] # None => codec'[c] = codec[c]
                /\ c \in done => c \in done']_vars
    BY <1>1 DEF KeepStep
  <1> QED BY <1>2, Inductive, PTL DEF Spec, KeepsPublished

-----------------------------------------------------------------------------
(* The steady operator *)

LEMMA SteadyFacts ==
    ASSUME NEW s \in Sigs, NEW q \in Knobs, Steady(s, q), op \in DOMAIN Operators
    PROVE  /\ \A b \in Way.builds : b.sig = s /\ b.knob = q /\ b.codec
           /\ \A e \in Way.evals : e.sig = s /\ e.protect
           /\ s # None /\ q # None
  BY CidFacts DEF Steady

LEMMA SteadyInit ==
    ASSUME NEW s \in Sigs, NEW q \in Knobs, Steady(s, q), Init
    PROVE  SteadyInv(s, q)
  <1>1. op \in DOMAIN Operators /\ cfg \in Way.builds /\ hash = cfg.sig
    BY DEF Init
  <1>2. hash = s
    BY <1>1, SteadyFacts
  <1> QED BY <1>2 DEF Init, SteadyInv

\* A step that leaves what SteadyInv speaks of alone.
LEMMA SteadyKept ==
    ASSUME NEW s, NEW q, SteadyInv(s, q),
           UNCHANGED <<done, list, codec, codecMeta, listMeta, storeHash, codecHash, hash, op>>,
           \/ phase' \in {"idle", "evaluate"}
           \/ phase' = phase /\ cfg' = cfg /\ built' = built
    PROVE  SteadyInv(s, q)'
  BY DEF SteadyInv, Written, Way

LEMMA SteadyBuildSteps ==
    ASSUME NEW s \in Sigs, NEW q \in Knobs, Steady(s, q), IInv, SteadyInv(s, q),
           \/ StartBuild \/ PrepareStore \/ OpenStore
           \/ \E c \in Cids : BuildCluster(c)
    PROVE  SteadyInv(s, q)'
  <1>1. TypeOK /\ StoreInv /\ CodecInv /\ op \in DOMAIN Operators
    BY DEF IInv, TypeOK
  <1>2. CASE StartBuild
    <2>1. /\ cfg' \in Way.builds /\ hash' = cfg'.sig /\ phase' = "prepare"
          /\ UNCHANGED <<disk, built, op>>
      BY <1>2 DEF StartBuild, StartRun
    <2>2. hash' = s
      BY <1>1, <2>1, SteadyFacts
    <2> QED BY <2>1, <2>2 DEF disk, SteadyInv, Written, Way
  <1>3. CASE PrepareStore
    <2>1. CASE UNCHANGED disk
      BY <1>3, <2>1 DEF PrepareStore, EndRun, disk, SteadyInv, Written, Way
    <2>2. CASE /\ phase = "prepare" /\ phase' = "open" /\ done' = {} /\ listMeta' = FALSE
               /\ storeHash' = None /\ codecHash' = None /\ UNCHANGED <<hash, cfg, op>>
      BY <2>2 DEF SteadyInv, Way
    <2> QED BY <1>3, <2>1, <2>2 DEF PrepareStore
  <1>4. CASE OpenStore
    <2>1. CASE ResumeStore /\ EndRun
      BY <1>4, <2>1, SteadyKept DEF ResumeStore, EndRun, disk
    <2>2. CASE ResumeStore /\ ~EndRun
      <3>1. phase = "open" /\ phase' = "build" /\ built' = {} /\ UNCHANGED <<disk, hash, cfg, op>>
        BY <1>1, <1>4, <2>2 DEF OpenStore, ResumeStore, StoreInv
      <3> QED BY <3>1 DEF disk, SteadyInv, Written, Way
    <2>3. CASE FreshStore
      <3>1. /\ phase = "open" /\ phase' = "build" /\ done = {} /\ ~listMeta /\ built = {}
            /\ UNCHANGED <<done, listMeta, storeHash, codecHash, built, hash, cfg, op>>
        BY <1>1, <1>4, <2>3, FreshIsEmpty DEF OpenStore, FreshStore, StoreInv
      <3> QED BY <3>1 DEF SteadyInv, Way
    <2> QED BY <1>4, <2>1, <2>2, <2>3 DEF OpenStore
  <1>5. ASSUME NEW c \in Cids, BuildCluster(c) PROVE SteadyInv(s, q)'
    <2>1. /\ phase = "build" /\ phase' = "build" /\ built' = built \cup {c}
          /\ UNCHANGED <<codecMeta, listMeta, storeHash, codecHash, cfg, hash, op>>
      BY <1>5 DEF BuildCluster
    <2>2. cfg.sig = s /\ cfg.knob = q /\ cfg.codec
      BY <1>1, <2>1, SteadyFacts DEF SteadyInv
    <2>3. CASE c \in done /\ UNCHANGED <<list, codec, done>>
      BY <2>1, <2>3 DEF SteadyInv, Written, Way
    <2>4. CASE /\ codec' = [codec EXCEPT ![c] = q] /\ list' = [list EXCEPT ![c] = s]
               /\ done' \subseteq done \cup {c}
      <3>1. \A d \in Cids : d # c => (Written(d, s, q) => Written(d, s, q)')
        BY <1>1, <2>4 DEF TypeOK, Written
      <3>2. Written(c, s, q)'
        BY <1>1, <2>4 DEF TypeOK, Written
      <3>3. \A d \in Cids : Written(d, s, q) => Written(d, s, q)'
        BY <3>1, <3>2
      <3>4. (\A d \in done' : Written(d, s, q)') /\ (\A d \in built' : Written(d, s, q)')
        BY <1>1, <2>1, <2>4, <3>2, <3>3 DEF SteadyInv, TypeOK
      <3> QED BY <2>1, <3>3, <3>4 DEF SteadyInv, Way
    <2>5. \/ c \in done /\ UNCHANGED <<list, codec, done>>
          \/ /\ codec' = [codec EXCEPT ![c] = q] /\ list' = [list EXCEPT ![c] = s]
             /\ done' \subseteq done \cup {c}
      BY <1>5, <2>2 DEF BuildCluster
    <2> QED BY <2>3, <2>4, <2>5
  <1> QED BY <1>2, <1>3, <1>4, <1>5

LEMMA SteadyBuildEnds ==
    ASSUME NEW s \in Sigs, NEW q \in Knobs, Steady(s, q), IInv, SteadyInv(s, q),
           FinishBuild \/ WriteStoreHash \/ WriteCodecHash \/ Cleanup
    PROVE  SteadyInv(s, q)'
  <1>1. TypeOK /\ CodecInv /\ op \in DOMAIN Operators
    BY DEF IInv, TypeOK
  <1>2. cfg \in Way.builds /\ cfg.knob = q /\ cfg.codec
    BY <1>1, SteadyFacts DEF SteadyInv, FinishBuild, WriteStoreHash, WriteCodecHash, Cleanup
  <1>3. CASE FinishBuild
    <2>1. codecMeta /\ \A c \in Cids : Written(c, s, q)
      BY <1>1, <1>2, <1>3 DEF FinishBuild, CodecInv, SteadyInv
    <2> QED BY <1>3, <2>1 DEF FinishBuild, SteadyInv, Written, Way
  <1>4. CASE WriteStoreHash
    BY <1>4 DEF WriteStoreHash, SteadyInv, Written, Way
  <1>5. CASE WriteCodecHash
    BY <1>2, <1>5 DEF WriteCodecHash, SteadyInv, Written, Way
  <1>6. CASE Cleanup
    BY <1>6 DEF Cleanup, SteadyInv, Written, Way
  <1> QED BY <1>3, <1>4, <1>5, <1>6

LEMMA SteadyEvalSteps ==
    ASSUME NEW s \in Sigs, NEW q \in Knobs, Steady(s, q), IInv, SteadyInv(s, q),
           \/ StartEval \/ CheckReuse \/ PrepareCodec \/ FinishRebuild \/ FailRebuild
           \/ Evaluate \/ Crash \/ \E c \in Cids : RebuildCluster(c)
    PROVE  SteadyInv(s, q)'
  <1>1. TypeOK /\ CodecInv /\ op \in DOMAIN Operators
    BY DEF IInv, TypeOK
  <1>2. CASE StartEval
    <2>1. /\ cfg' \in Way.evals /\ hash' = cfg'.sig /\ phase' = "reuse"
          /\ UNCHANGED <<disk, built, op>>
      BY <1>2 DEF StartEval, StartRun
    <2>2. hash' = s
      BY <1>1, <2>1, SteadyFacts
    <2> QED BY <2>1, <2>2 DEF disk, SteadyInv, Written, Way
  <1>3. CASE CheckReuse
    <2>1. CASE EndRun
      BY <1>3, <2>1, SteadyKept DEF CheckReuse, EndRun, disk
    <2>2. CASE ~EndRun
      <3>1. /\ phase = "reuse" /\ phase' = "codec" /\ listMeta
            /\ hash' = IF storeHash = None THEN hash ELSE storeHash
            /\ UNCHANGED <<disk, cfg, op>>
        BY <1>3, <2>2 DEF CheckReuse
      <3>2. hash' = s /\ cfg \in Way.evals
        BY <1>1, <3>1 DEF SteadyInv, CodecInv
      <3> QED BY <3>1, <3>2 DEF disk, SteadyInv, Written, Way
    <2> QED BY <2>1, <2>2
  <1>4. CASE PrepareCodec
    <2>1. phase = "codec" /\ listMeta /\ codecMeta /\ cfg \in Way.builds \cup Way.evals
      BY <1>4 DEF PrepareCodec, SteadyInv
    \* A build has just written the hash, an evaluation protects the store.
    <2>2. CodecValidated \/ cfg.protect
      BY <1>1, <2>1, SteadyFacts DEF CodecInv
    <2>3. UNCHANGED <<disk, hash, cfg, op>> /\ phase' \in {"idle", "evaluate"}
      BY <1>4, <2>1, <2>2 DEF PrepareCodec, EndRun
    <2> QED BY <2>3, SteadyKept DEF disk
  <1>5. CASE FinishRebuild \/ FailRebuild \/ \E c \in Cids : RebuildCluster(c)
    BY <1>5 DEF FinishRebuild, FailRebuild, RebuildCluster, SteadyInv
  <1>6. CASE Evaluate \/ Crash
    BY <1>6, SteadyKept DEF Evaluate, Crash, EndRun, disk
  <1> QED BY <1>2, <1>3, <1>4, <1>5, <1>6

LEMMA SteadyInductive == Spec => []AllSteady
  <1>1. Init => AllSteady
    BY SteadyInit DEF AllSteady
  <1>2. IInv /\ AllSteady /\ [Next]_vars => AllSteady'
    <2> SUFFICES ASSUME IInv, AllSteady, [Next]_vars,
                        NEW s \in Sigs, NEW q \in Knobs, Steady(s, q)'
                 PROVE  SteadyInv(s, q)'
      BY DEF AllSteady
    <2>1. op' = op
      BY DEF Next, vars, StartBuild, StartEval, StartRun, PrepareStore, OpenStore, ResumeStore,
             FreshStore, BuildCluster, FinishBuild, WriteStoreHash, WriteCodecHash, Cleanup,
             CheckReuse, PrepareCodec, RebuildCluster, FinishRebuild, FailRebuild, Evaluate, Crash
    <2>2. Steady(s, q) /\ SteadyInv(s, q)
      BY <2>1 DEF Steady, Way, AllSteady
    <2>3. CASE Next
      BY <2>2, <2>3, SteadyBuildSteps, SteadyBuildEnds, SteadyEvalSteps DEF Next
    <2>4. CASE UNCHANGED vars
      BY <2>2, <2>4 DEF vars, SteadyInv, Written, Way
    <2> QED BY <2>3, <2>4
  <1> QED BY <1>1, <1>2, Inductive, PTL DEF Spec

(* For the steady operator hash.u64 names a complete list built with its
   settings, at every moment of every run and after every kill. *)
THEOREM SteadyStoreHash == Spec => []SteadyStoreHashTruthful
  <1>1. AllSteady => SteadyStoreHashTruthful
    BY DEF AllSteady, SteadyInv, SteadyStoreHashTruthful, IsSteady, StoreHashTruthful, Written
  <1> QED BY <1>1, SteadyInductive, PTL

(* For the steady operator coeff_hash.u64 names the codec records that are
   there, so an evaluation that finds it may skip the rebuild. *)
THEOREM SteadyCodecHash == Spec => []SteadyCodecHashTruthful
  <1>1. AllSteady => SteadyCodecHashTruthful
    BY DEF AllSteady, SteadyInv, SteadyCodecHashTruthful, IsSteady, CodecHashTruthful, Written
  <1> QED BY <1>1, SteadyInductive, PTL

(* The steady operator loses no coefficients, neither to the cleanup of the
   floats nor to a rebuild of the codec. *)
THEOREM SteadyCoefficients == Spec => []SteadyCoefficientsRecoverable
  <1>1. AllSteady => SteadyCoefficientsRecoverable
    BY DEF AllSteady, SteadyInv, SteadyCoefficientsRecoverable, IsSteady,
           CoefficientsRecoverable, Written
  <1> QED BY <1>1, SteadyInductive, PTL

=============================================================================
