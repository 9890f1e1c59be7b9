---- MODULE EngineSetup ----
(***************************************************************************)
(* The life of an Engine around its generation loop: Engine::init(), which *)
(* maps the shard (WeightMmap), reads its header, finds expert 0, loads    *)
(* the Oracle (PtLoader), and takes the arena, the streams and the device  *)
(* buffers; and the destructors.  Every step may fail; init() then returns *)
(* false and leaves what it took to the destructors.  It may be called     *)
(* again with the same configuration, after a failure or not, at most      *)
(* MaxInits times in all.                                                  *)
(*                                                                         *)
(* The header's parser is a parameter: Json.tla models it, MCEngineSetup   *)
(* puts the two together, and the proofs hold for whatever it accepts.     *)
(*                                                                         *)
(* What the engine owns is the set held of handles its members refer to;   *)
(* a handle a member is assigned over without a release goes to lost.      *)
(***************************************************************************)
EXTENDS PtLoader, Sequences

CONSTANTS Headers,     \* the texts a shard's header may be
          Accepted(_), \* parse_header_json() takes the text
          TensorsIn(_),  \* and enters these names into tensors_
          DeviceBuffers, \* d_h_in_, d_h_out_, d_hbuf_, d_ybuf_
          MaxInits

ASSUME HeaderAssumption ==
    \A h \in Headers : h \in Seq(STRING) \ {<<>>} /\ TensorsIn(h) \subseteq STRING

VARIABLES build,       \* "host", "cuda", or "off": use_cuda without DEE_CUDA
          phase, inits,
          held, lost,
          header,      \* header_json_ while init() looks at it
          table        \* WeightMmap::tensors_, the names

setupVars == <<build, phase, inits, held, lost, header, table>>
vars == <<setupVars, loaderVars>>

Shard == {"fd", "map"}
OneOfEach == Shard \union {"arena", "compute_stream", "copy_stream", "host_buf"}
Handles == OneOfEach \union DeviceBuffers

\* The handles belong to different members.
ASSUME SetupAssumption == MaxInits \in Nat \ {0} /\ DeviceBuffers \intersect OneOfEach = {}

ExpertZero == "expert 0 gate_proj"

SetupInit ==
    /\ LoaderInit
    /\ build \in {"host", "cuda", "off"}
    /\ phase = "new" /\ inits = 0
    /\ held = {} /\ lost = {}
    /\ header = <<>> /\ table = {}

\* The engine's members now refer to the handles of hs.
Take(hs) == held' = held \union hs /\ lost' = lost \union (held \intersect hs)

Go(p) == phase' = p

\* Mutant of CloseShard: the descriptor stays open.
CloseShardKeepsFile == held' = held \ {"map"} /\ table' = {} /\ header' = <<>>

\* WeightMmap::close(), which open() starts with.
CloseShard == held' = held \ Shard /\ table' = {} /\ header' = <<>>

CallInit ==
    /\ phase \in {"new", "failed", "ready"}
    /\ inits < MaxInits
    /\ inits' = inits + 1
    /\ CloseShard
    /\ Go("mapping")
    /\ UNCHANGED <<build, lost, loaderVars>>

\* map_file(): open() fails, or fstat(), the size or mmap() does, or none.
MapFile ==
    /\ phase = "mapping"
    /\ \/ Go("failed") /\ \E hs \in {{}, {"fd"}} : Take(hs)
       \/ Go("header") /\ Take(Shard)
    /\ UNCHANGED <<build, inits, header, table, loaderVars>>

\* A header length that does not fit the file.
BadHeaderLength ==
    /\ phase = "header"
    /\ Go("failed")
    /\ UNCHANGED <<build, inits, held, lost, header, table, loaderVars>>

ParseHeader ==
    /\ phase = "header"
    /\ header' \in Headers
    /\ IF Accepted(header') THEN table' = TensorsIn(header') /\ Go("resolve")
       ELSE UNCHANGED table /\ Go("failed")
    /\ UNCHANGED <<build, inits, held, lost, loaderVars>>

\* resolve_expert() with its one shard: lookup() knows the name.
ExpertFound == ExpertZero \in table

\* The expert's tensor, then the rank of gate_proj and the hidden size.
ResolveExpert ==
    /\ phase = "resolve"
    /\ header' = <<>>
    /\ IF ExpertFound
       THEN \/ Go("failed") /\ UNCHANGED loaderVars
            \/ /\ Go("oracle") /\ load_pc' = "open"
               /\ UNCHANGED <<entries, buffers, pkl, tensors, num_layers, at, weights>>
       ELSE Go("failed") /\ UNCHANGED loaderVars
    /\ UNCHANGED <<build, inits, held, lost, table>>

LoadOracle == phase = "oracle" /\ LoaderStep /\ UNCHANGED setupVars

\* load() returns; the loader, a local variable, goes with its buffers.
OracleLoaded ==
    /\ phase = "oracle"
    /\ load_pc \in {"loaded", "failed"}
    /\ Go(IF load_pc = "loaded" /\ build # "off" THEN "arena" ELSE "failed")
    /\ load_pc' = "idle" /\ at' = 0 /\ LoaderGone
    /\ UNCHANGED <<build, inits, held, lost, header, table, num_layers, weights>>

\* Arena::init(): refused if there is an arena already.
ArenaInit ==
    /\ phase = "arena"
    /\ IF "arena" \in held THEN Go("failed") /\ UNCHANGED <<held, lost>>
       ELSE \/ Go("failed") /\ UNCHANGED <<held, lost>>
            \/ Go(IF build = "cuda" THEN "stream" ELSE "prefetcher") /\ Take({"arena"})
    /\ UNCHANGED <<build, inits, header, table, loaderVars>>

CreateStream ==
    /\ phase = "stream"
    /\ \/ Go("failed") /\ UNCHANGED <<held, lost>>
       \/ Go("buffers") /\ Take({"compute_stream"})
    /\ UNCHANGED <<build, inits, header, table, loaderVars>>

\* Mutant of AllocBuffers: one buffer is enough.
AllocBuffersAny ==
    /\ phase = "buffers"
    /\ \E hs \in SUBSET DeviceBuffers :
         Take(hs) /\ Go(IF hs # {} THEN "prefetcher" ELSE "failed")
    /\ UNCHANGED <<build, inits, header, table, loaderVars>>

\* All of them are tried; one that is missing fails init().
AllocBuffers ==
    /\ phase = "buffers"
    /\ \E hs \in SUBSET DeviceBuffers :
         Take(hs) /\ Go(IF hs = DeviceBuffers THEN "prefetcher" ELSE "failed")
    /\ UNCHANGED <<build, inits, header, table, loaderVars>>

\* AsyncPrefetcher::init(): a failed cudaMallocHost is tolerated.
PrefetcherInit ==
    /\ phase = "prefetcher"
    /\ IF build = "host" THEN Go("ready") /\ UNCHANGED <<held, lost>>
       ELSE \/ Go("failed") /\ UNCHANGED <<held, lost>>
            \/ Go("ready") /\ \E hs \in {{}, {"host_buf"}} : Take({"copy_stream"} \union hs)
    /\ UNCHANGED <<build, inits, header, table, loaderVars>>

(***************************************************************************)
(* The destructors: the engine's own, then its members' in reverse order   *)
(* of declaration.                                                         *)
(***************************************************************************)
DestroyEngine ==
    /\ phase \in {"new", "ready", "failed"}
    /\ held' = IF build = "cuda" THEN held \ (DeviceBuffers \union {"compute_stream"}) ELSE held
    /\ Go("~prefetcher")
    /\ UNCHANGED <<build, inits, lost, header, table, loaderVars>>

DestroyPrefetcher ==
    /\ phase = "~prefetcher"
    /\ held' = held \ {"copy_stream", "host_buf"}
    /\ Go("~cache")
    /\ UNCHANGED <<build, inits, lost, header, table, loaderVars>>

DestroyCache ==
    /\ phase = "~cache"
    /\ held' = held \ {"arena"}
    /\ Go("~mmap")
    /\ UNCHANGED <<build, inits, lost, header, table, loaderVars>>

DestroyMmap ==
    /\ phase = "~mmap"
    /\ CloseShard
    /\ Go("destroyed")
    /\ UNCHANGED <<build, inits, lost, loaderVars>>

InitStep ==
    \/ MapFile \/ BadHeaderLength \/ ParseHeader \/ ResolveExpert \/ LoadOracle \/ OracleLoaded
    \/ ArenaInit \/ CreateStream \/ AllocBuffers \/ PrefetcherInit

Destroy == DestroyEngine \/ DestroyPrefetcher \/ DestroyCache \/ DestroyMmap

SetupNext == CallInit \/ InitStep \/ Destroy

SetupSpec == SetupInit /\ [][SetupNext]_vars

(***************************************************************************)
(* Properties                                                              *)
(***************************************************************************)
SetupTypeOK ==
    /\ LoaderTypeOK
    /\ build \in {"host", "cuda", "off"}
    /\ phase \in {"new", "mapping", "header", "resolve", "oracle", "arena", "stream", "buffers",
                  "prefetcher", "ready", "failed", "~prefetcher", "~cache", "~mmap", "destroyed"}
    /\ inits \in 0 .. MaxInits
    /\ held \subseteq Handles /\ lost \subseteq Handles
    /\ header \in Seq(STRING)
    /\ table \subseteq STRING

\* Whatever step of whichever init() failed, a destroyed engine has released
\* every handle it ever took, and none was overwritten by a second init()
\* (engine.cpp:113-209, 264-271, 314-319).
NothingLeaks == phase = "destroyed" => held = {} /\ lost = {}

\* An init() that returned true left everything generate() uses: the mapped
\* shard with expert 0 in its table, a complete Oracle and the device side.
ReadyIsComplete ==
    phase = "ready" =>
        /\ Shard \union {"arena"} \subseteq held
        /\ build = "cuda" => DeviceBuffers \union {"compute_stream", "copy_stream"} \subseteq held
        /\ build # "off"
        /\ ExpertZero \in table
        /\ num_layers > 0 /\ DOMAIN weights = (0 .. num_layers - 1) \X Locals

\* See Intact: once the directory has been read, only an archive that is not
\* intact fails to load.
IntactArchiveLoads ==
    [][(load_pc \in {"pickle", "opened", "reading"} /\ load_pc' = "failed") => ~Intact]_vars

====
