# A TLA+ development for dee (dynamic expert eviction)

dee keeps the experts of a mixture-of-experts model in host memory and streams the ones an
*Oracle* predicts into a bounded pool of device memory just before a layer needs them.  What can
go wrong is bookkeeping: which expert owns which bytes, which copy has landed, what is evicted
for what.  This directory models that bookkeeping, checks it with TLC on small instances and
proves its safety with TLAPS for all instances.

## 1. The system

The repository holds three generations of the same idea.

* **The engine** (`dee.cpp/src/{vram_cache,async_prefetcher,oracle,engine,swiglu_cuda,weight_mmap,pt_loader,json_min}`):
  the C++ program that runs.  `Engine` owns an `Arena`-backed `VramCacheManager`, an
  `AsyncPrefetcher` with a copy stream, an Oracle and the memory-mapped shard.
* **The second runtime** (`dee.cpp/src/{vram_cache_manager,cuda_backend_*,oracle_scheduler,generation,moe_forward,dee}`):
  a slot cache, a device abstraction with mock streams and events, a scheduler and a generator.
* **The Python steps** (`modal_step*.py`): data collection, training, a cache simulator
  (`ExpertCache`, step 3) and a Triton streaming experiment (step 4).

| Component | State | Operations | Hard behaviour | What makes it correct |
|---|---|---|---|---|
| Arena | bump pointer `high_`, vector of holes `free_`, `used_` | `alloc`, `free`, `coalesce` | any order of releases; `high_` never retreats | holes sorted, disjoint, coalesced; `used_` exact; first fit |
| VramCacheManager | `blocks_`, `tick_`, `stats_` | `ensure`, `touch`, `sync_fallback`, `clear` | eviction before allocation; score of age and priority | blocks disjoint, no byte leaked, refusals only for a reason |
| AsyncPrefetcher | `inflight_`, `key_to_idx_`, copy stream, events | `prefetch`, `wait`, `synchronize_all`, `reset` | copies run beside the host; blocks reassigned under queued copies; CUDA calls that fail | after `wait` the block holds the expert's weights |
| Engine | hidden buffers, staging blobs, expert outputs, statistics | `init`, `generate`, `forward_layer`, `forward_layer_cuda` | three actors (host, copy stream, compute stream); a batch staged before any of it is used | every output from its own expert's weights; the batch resident; `generate` returns; statistics add up |
| Oracle | MLP weights | `load`, `predict` | a load that stops half way | a ranking of distinct experts |
| SwiGLU kernels | output slots | one launch per expert, a mean | run later than launched | read the weights they were launched for |
| WeightMmap, TensorResolver | descriptor, mapping, table of tensors | `open`, `close`, `lookup` | failure between mapping and parsing; reopening | nothing leaks; the table is what the header says |
| json_min | position, error flag | `parse` | errors are remembered, parsing goes on; repeated keys | accepts exactly the texts that begin with a well-formed value |
| PtLoader, Oracle `load` | buffers, pickle, table; the layers' weights | `open`, `read_tensor`, `close` | entries in any order, missing, short or corrupt; a load that stops half way | loaded whole or not at all; an intact archive loads |
| Slot cache (second runtime) | `free_list_`, `cached_`, `clock_` | `acquire`, `touch`, `evict_victim` | fixed number of slots that never return to the list | every slot unused or one expert's; the victim unambiguous |
| Device abstraction | pending copies, event watermarks | `memcpy_h2d_async`, `event_record`, `event_synchronize` | the mock runs copies lazily, CUDA beside the host | an event covers exactly the work before it |
| OracleScheduler, Generator | predictions, counters | `on_token_decoded`, `run_layers`, `generate` | a slot reassigned under queued copies; predicted experts evicted before their turn | an expert is evaluated with its own weights; counters add up; `generate` returns |
| ExpertCache simulator | `vram`, `last_used`, `_lookahead_rank`, counters | `set_lookahead_ranked`, `prefetch_delta`, `request_expert`, `evict` | evicting while walking the prediction | a predicted expert is never evicted for another one |
| Triton experiment | ExpertCache, slot table, free slots, staging buffer, two streams | `ensure_resident`, the token loop | two tables in lockstep; both streams use one staging buffer; slots refilled while a stack that reads them is queued | one slot per resident expert; blocks hold the expert the table names |

`PROJECT.json` lists the components with their status, the hazards with their source lines, the
map from definitions to source lines, and the runs.

**Interaction.**  `Engine::forward_layer` asks the Oracle for a ranking, calls
`AsyncPrefetcher::prefetch` for each expert (which calls `VramCacheManager::ensure`, which calls
`Arena::free` and `Arena::alloc`), then for each expert `wait`, `data`, SwiGLU and `touch`.  The CUDA
path queues the SwiGLU kernels on a compute stream and joins it at the end of the layer.  The
streams share nothing with the host but the arena's memory, their queues and the events.
`Engine::init` opens the shard (`WeightMmap::open`, which calls `json::parse`), loads the Oracle
(`OracleScheduler::load` with a `PtLoader`), and takes arena, streams and buffers; whatever it took
before a failing step is left to the destructors.  In the second runtime `Generator::run_layers` calls
`OracleScheduler::on_token_decoded`, which prefetches the predicted experts into slots of the slot cache,
then for each routed expert `is_ready`, or `prefetch_expert` and `synchronize_expert`, then `touch` and
`ptr_of`.

## 2. The modules

```
ArenaOps ──────────── pure operators on an arena value [high, free]
  ├─ Arena            the allocator as a state machine (abstract specification)
  ├─ ArenaList        the vector of holes; refines Arena  ── MCArenaList, ArenaList_proof
  └─ VramCache        the cache manager            ── MCVramCache, VramCache_proof
       └─ AsyncPrefetcher   transfers and memory   ── MCAsyncPrefetcher, AsyncPrefetcher_proof
            └─ Engine       the generation loop    ── MCEngine, Engine_proof
ExpertCache ───────── the Python pool
  ├─ CacheSim         the replay loop              ── MCCacheSim, CacheSim_proof
  └─ Triton           slots, two CUDA streams      ── MCTriton, Triton_proof
SlotCache ─────────── the slot cache of the second runtime
  └─ Generator        device, scheduler, generation loop          ── MCGenerator, Generator_proof
Json ──────────────── the JSON parser and a reference definition
PtLoader ──────────── loading the Oracle from an archive
  └─ EngineSetup      init() and the destructors   ── MCEngineSetup (with Json), EngineSetup_proof
```

**ArenaOps / Arena / ArenaList.**  The free list is a *set of byte offsets*.  The code's vector of
holes is that set written down run by run, and a first-fit scan in offset order returns the lowest
offset at which the request fits (`Fits`, `AllocOff`); `ArenaList` has the vector itself, with the
insertion by `lower_bound`, the single merge pass and `used_`, and is checked and proved to implement `Arena`
under the mapping *holes ↦ the bytes they cover*.  `Coalesce` is the merge pass in closed form: a merged hole runs from a
hole that does not touch the one before it (`Starts`) to the end of the hole in front of the next such.  The loop as it is written is
`CoalesceLoop` in `MCArenaList`, where TLC compares the two over all lists of up to four small holes, in order or not
(the assumption `CoalesceIsItsLoop`).

**VramCache.**  `blocks` is a function on the resident keys (the code erases evicted blocks from the
map).  `ensure` is `EnsureHit` or `EnsureMiss`; `evict_until_free` is the relation `Evicts(V, need)`:
`V` is a set of blocks the loop can have evicted (lowest scores first, ties in any order as the
hash map's iteration decides, one look at the free space before each eviction).  A failed
allocation drops `V` all the same.  `sync_fallback` and `clear` are there although the engine never
calls them.  `out` records the last answer, which the properties talk about.

**AsyncPrefetcher.**  `mem` says of each byte of the arena which byte of which expert's weights it
holds.  On the mock backend `wait` runs all transfers up to the one asked for (`Drained`: each byte
holds what the last of them into it wrote); with CUDA
a copy engine (`DeviceCopy`, external) performs the submitted copies in order between any two host steps,
and an event is the number of copies submitted before it.  With `CudaFails` a copy or an event
creation may fail as `cuda_submit` handles it: logged, and nothing else.  `ready` is the set of keys
`wait` answered true for and that have not been evicted since.

**Engine.**  One action per step of the loop: `Generate`, `Predict`, `StageExpert`/`StageMissing`,
`ComputeMock` or `LaunchKernel`, `SkipExpert`, `EndLayer`, `EndToken`, `Gather`; `RunKernel` is the
compute stream.  Vectors are abstracted to where they come from: an output is the expert, token and
layer it was computed for, and whether the bytes read were that expert's.  `use_cuda` and `num_tokens` are
variables chosen initially, so one run covers both backends and both ways to spend two tokens.

**ExpertCache / CacheSim.**  `_lookahead_rank` is a function from the predicted experts to ranks,
`prefetch_delta`'s list is the set of those still missing, taken in rank order; one step per
loop iteration.  `run_sweep` has the same loop as `run_simulation`.

**Triton.**  The token loop of `run_triton_prefetch`, one action per loop iteration or synchronisation.
`Bring` is `ensure_resident` for an expert that is not resident: the eviction when no slot is free,
the slot table, the two operations queued (copy to the staging buffer, kernel to the slot), and
`cache.prefetch`, which looks at the capacity again.  The streams perform queued operations in order
between any two host steps.  Three waits separate them: `tolist()` of the prediction waits for the main
stream, on which the Oracle runs; `torch.cuda.synchronize(prefetch_stream)` waits for all streams of the
device; and `main_stream.synchronize()`.  Which of several free slots is taken is left open.

**SlotCache.**  `cached` is a function on the resident experts; `free_list` is the code's stack.  `Acquire` is
the whole of `acquire()`: a hit refreshes the stamp, a miss takes the top of the stack or the slot of
`EvictVictim`.  Priorities are the ranks of the Oracle's floats.

**Generator.**  One action per step of `run_layers` and `generate`.  A slot has two halves, `gate_up` and
`down`, filled by two copies; `pending` is the stream's queue and an event is the watermark of
`event_record`.  `EventSynchronize` runs the copies below the watermark on the mock device; with CUDA it
blocks until `DeviceCopy` (external) has performed them.  The prefetcher class this runtime includes
(`prefetch_expert`, `synchronize_expert`, `is_ready`, `is_inflight`) **is not in the repository**; the header
of that name belongs to the first runtime.  It is modelled from its use and from `tests/test_vram_prefetch.cpp`, and
what is checked rests on this contract: `prefetch_expert` acquires a slot, queues both copies and records one event
behind them; an expert that loses its slot is neither ready nor in flight any more.
`ptr_of` at `generation.cpp:72` is not checked for null, so the second half of the contract is what the loop's safety hangs on.
`Evaluate` reads the slot's memory on both devices.  On the mock that is what the code does; on a CUDA build
`generation.cpp:72-79` passes a pointer from `cudaMalloc` to `expert_mlp`, a function of the host (`moe_forward.cpp`), which cannot
read it on ordinary device memory.  What is shown for `"cuda"` is therefore about the order of copies, waits and reads, for a device
whose memory the host can read; the mock half is what runs.

**Json.**  Texts are sequences of tokens, a value is the set of paths to its leaves.  `ParseValue`,
`ParseMembers`, `ParseElements` follow the parser, which goes on after an error; `WellFormed` and `Means` say
what a text means without a parser, by cutting it at the commas outside all brackets.

**PtLoader.**  The archive is the environment: each directory entry is chosen when it is read.  A storage is
whether it is long enough for the tensor of its place, a pickle the pair (name, storage) its scan finds.
`weights` records which storage each tensor of the Oracle was read from; what an earlier `load()` left is `Earlier`.

**EngineSetup.**  `held` is the set of handles the engine's members refer to, `lost` those assigned over without
a release.  Every step of `init()` may fail; `init()` may be called again, and the engine destroyed at any time
between calls, member after member.  Which headers the parser accepts and which tensors it finds in them are the constant operators
`Accepted` and `TensorsIn`, so that the proofs hold for any parser; `MCEngineSetup` puts `Json`'s in their place.

Definitions called `... Mutant of ...` in their comments are deliberately wrong variants used to
show that each property can fail.

## 3. The runs

Passing:

| Run | Instance | Shows |
|---|---|---|
| `arena_list` | 8 bytes, sizes 0–3 (2 285 states) | free list canonical, `used_` exact, the vector implements the byte set; the closed form of `coalesce` is its loop |
| `cache_mixed` | 5 bytes, sizes 1–3, 3 keys, 5 calls (476 k) | blocks disjoint, nothing leaked, refusals are fragmentation, the policy of the header |
| `prefetch` | 3 bytes, blobs of 1, 1, 2, 4 calls, both backends (316 k) | after `wait` the weights are there and nothing is on its way to overwrite them |
| `engine` | 2 slots, 2 of 4 experts, 2 layers, 2 tokens, both backends (394 k) | the whole loop: own weights, kernels not under a copy, the batch resident, nothing pending at `reset`, statistics, skipped experts reported, no refusal, `generate` returns |
| `cache_sim` | 5 experts, capacity 3, 3 predicted, 2 routed, 2 predictions (45 k) | a predicted expert is there until an unforeseen miss |
| `triton` | 4 experts, 2 slots, 3 predicted, 3 tokens (152 k) | table and pool in lockstep, the matmul reads the right blocks, the loop ends |
| `generator` | 3 experts, 2 slots, 2 priorities, three configurations of layers, width and prompt, both devices (476 k) | own weights whatever was reassigned under queued copies, ready slots settled, events cover their copies, counters, `generate` returns |
| `engine_setup` | layers of 2 tensors, archives of up to 5 entries, about 600 headers, 2 calls of `init` (609 k) | nothing leaks, a ready engine is complete, the header means what it says, the Oracle is loaded whole or not at all |

Violations, each of a sentence of the repository (see `findings`):

| Run | The sentence | What happens |
|---|---|---|
| `prefetch_cuda_fails` | "its transfer has completed before compute uses it" | a copy or event that failed is reported ready |
| `engine_batch` | "should not happen (wait guarantees resident)" | with 3 experts in 3 slots a layer evicts one of its own experts; an old block of top priority outranks it |
| `engine_chain` | "hidden = moe_swiglu(L, hidden, experts)" | layers do not chain: each reads the token's input |
| `engine_stale_output` | "mean combine" | on CUDA the mean includes an old output of a skipped expert |

Five more sentences the code does not keep, seen in the models and not given a run of their own:

* "still no room (nbytes > budget)" (`vram_cache.cpp:131`): with mixed sizes a request within the budget is refused
  because the free bytes are split between a hole and the top; `RefusalIsFragmentation` says that this is the only other reason.
* "On error returns a Value of type Null" (`json_min.h:39`): the parser returns what it has built so far; its caller
  looks at `ok` first.
* "sync_fallback stalls (miss at compute time)" (`vram_cache.h:102`, and `engine.h:62`): the loop counts the experts it skips and
  `generate` overwrites that count with the cache's own (`engine.cpp:251`), which only `sync_fallback()` raises and the engine never
  calls, so it is always 0.  `SkipsStillReported` shows where the number survives: if the batches fit, the waits the
  prefetcher counts without a transfer are the skipped experts.
* "because the Oracle did not predict the expert" (`generation.h:78`): once all slots are used, a predicted expert that
  is resident is passed over without a touch and can lose its slot to the prefetch of the next predicted one; `reactive_prefetches_`
  counts it.  `ReactiveMeansMispredicted` holds until then.
* "Returns false on failure." (`pt_loader.h:46`): on a deflate stream that is cut short `inflate_entry` loops for ever
  (`pt_loader.cpp:123-132`, the action `InflateAgain`), so `open`, and with it `init`, does not return.

**Bounds.**  Every counter is bounded by a named constant (`MaxCalls`, `MaxTokens`, `NumTokens`).
Five bytes with three sizes give holes that are too small, exact and partial fits.  Two slots for two
of four experts per layer make every batch evict an older one, and two tokens (or two `generate` calls)
request every key again, once with its old transfer still in `key_to_idx_` and once after `reset`.
`PriorityWeight` is 2 in `cache_mixed` and `prefetch`, so that within five ticks recency can both
lose to priority and outweigh it; in `engine` it is the code's 2^20.  In `triton` the width exceeds the capacity, so that
prefetching evicts what it has just loaded, requests miss and both streams load in one iteration.
In `generator` two slots for two routed and two predicted of three experts make
the predicted and the routed experts of a layer together exceed the cache, with copies of up to three experts in the
queue; two layers or two prompt tokens bring keys back after an eviction.  In `engine_setup` the six tensors of a layer are two and
the four device buffers two; four storages make two full layers, and five entries leave room for a
duplicate, a skipped entry or a pickle at any position.  The headers are every text one token away from a real one, its prefixes, a
header with a repeated tensor, and all texts of at most two tokens.  Two calls of `init` are enough for a second one to meet
every state the first one can leave.
Symmetry is used over keys of equal
size and over experts, only in runs without liveness.  `BatchResident` passes in `engine` with two experts
per layer and fails in `engine_batch` with three: with two, the only fresh block that could be evicted is
the top-priority one, which no older block outranks.

**Fairness** (only `GenerateReturns`, `PipelineCompletes`, `GenerationEnds`).  Weak fairness of the host thread and of each
stream: the operating system schedules the one host thread, and CUDA streams make progress on
queued work.  Nothing is assumed about the order between them.
What would make the three fail is a wait for work that nobody has queued or will queue; their mutants are such waits.

**Deadlock.**  `engine`, its violations, `cache_sim`, `triton`, `generator` and `engine_setup` end, so their configurations
allow it; in `engine`, `triton` and `generator` the liveness properties show that they end only when their work is done.

## 4. The proofs

*`VramCache_proof`* — for every budget, key set, size set and priority weight:

* `CacheInvariant`: `CacheInv` is inductive: types, holes below the bump pointer, `BlocksDisjoint`
  and `BlocksCoverTaken`.  The last two need each other: a new block avoids the old ones because it
  is carved out of bytes that are not taken and the old ones are; and releasing a block makes exactly its bytes free because no other block shares them.  From it `CacheTypeCorrect`,
  `CacheBlocksDisjoint`, `CacheNoLeak`.
* `CacheUniformNeverRefused`: with one size that fits the budget, no request is refused.
  The extra invariant is `FreeIsTiled`: the free set is a disjoint union of whole blocks, so any hole is
  large enough; after the eviction loop there is a hole, or else the taken bytes are all those
  below the bump pointer and the byte count the loop compares is the room above it.
* `CacheRefusal`: any mix of sizes, any history; a request within the budget is refused only when that many bytes are
  free in pieces.  `evict_until_free` stops because they are free, or because nothing is left to evict, and then the whole budget is free.
* `CachePolicy`: the header's policy as an action property.  The victims have the lowest scores, and for any positive
  weight the score grows with recency and with priority.

The module begins with the lemmas on `Carve`, `Release`, `AllocOff` and on counting bytes.

*`ArenaList_proof`* — for every budget, set of sizes and history of `alloc` and `free`:

* `ListInvariant`, and from it `FreeListIsCanonical`, `UsedIsExact`.  `ListInv` adds to the two properties that the callers' ranges are
  disjoint and make up exactly the bytes below the bump pointer that no hole covers (`LivePartition`): that is why a range that comes
  back overlaps no hole, and why subtracting its size keeps `used_` exact.  `InsertHoles` shows that `lower_bound` puts it where
  the list stays in order, `CoalesceHoles` that the merged holes cover the same bytes and no two touch, `TakeHole` what `alloc` leaves
  of a hole.  No induction over the list is needed: the starts of the merged holes are a set of positions, and the lemmas
  on ranks (`NthOf`, `GroupOf`) cut the list at them.
* `ArenaListImplements`: the refinement of `Arena`, and with it the link from the byte sets on which all proofs of the cache, the
  prefetcher and the engine rest to the vector the code keeps.  The byte behind a hole is in no hole (`RangeInHole`), so a free range lies in one hole and
  the lowest offset at which a request fits is the start of the first hole that is large enough.

*`EngineSetup_proof`* — for every archive, number of tensors in a layer, set of device buffers, header and header parser:

* `SetupInvariant`, and from it `SetupTypeCorrect`, `SetupLeaksNothing`, `ReadyEngineComplete`.  `HandlesInv` says that a handle of the device side is held
  only behind the arena, and a second `Arena::init` fails while there is one; so a repeated `init()` never reaches the steps that would
  assign a stream or a buffer over.  `StepsInv` says what each step finds of the ones before it.
* `OracleLoadedWhole`, `IntactIsLoaded`.  The table numbers the storages from 0 on, as many as there are buffers; every
  layer below the current one was read through it (`LoaderInv`).  A last layer that is not full, or a storage number missing in between,
  leaves a tensor of the table without a buffer, so the load fails; with all of them read, counting shows that no buffer is left over.

*`CacheSim_proof`* — for every set of experts, capacity, width and replay length:

* `SimInvariant`, `SimNoMissBeforeASurprise`, `SimDeltaSparesPredicted`, `SimLoadsAccountedFor`.  `SimInv` has the types and adds that
  while `prefetch_delta` runs, its list holds only predicted experts the pool lacks, and all of them when
  the width is at most the capacity.  The argument is a pigeonhole: a full pool that lacks a predicted
  expert cannot consist of predicted experts, and an unpredicted one scores -1, a predicted one at least 1.

*`Triton_proof`* — for every set of experts, capacity and width, a width above the capacity included:

* `TritonLockstep`.  The table maps the pool injectively into the slots that are not free, so the pool
  is below its capacity whenever a slot is free or has just been freed; `cache.prefetch` therefore never
  evicts behind `ensure_resident`'s back, and the lockstep is preserved.
* `TritonInvariant`, `TritonStackReads`.  `StreamInv` says that the waits leave work on one stream at a time (the prefetch stream
  while predictions are queued, else the main stream), so the staging buffer has one user; that each kernel into a
  slot stands right behind its copy into the staging buffer; that the last kernel into a resident expert's slot moves that expert,
  or it is there already; and that a queued stack is the last operation and has the current table.

*`Generator_proof`, first part* — the slot cache, for every number of slots, key set and range of priorities:

* `SlotInvariant`, `SlotCachePartition`, `SlotStampsDistinct`.  `SlotInv` is the conjunction of the types, the partition and
  the distinct stamps.  The partition is what makes `cached_` non-empty when the free list is empty (slot 0 must be
  somewhere), and the lexicographic order of (priority, stamp) on pairs of naturals is well-founded, so
  `evict_victim` finds a minimum: the comment at `vram_cache_manager.cpp:42` is proved.

*`AsyncPrefetcher_proof`* — for every budget, key set and blob sizes, mixed ones included, on both backends:

* `PrefetchInvariant`, `PrefetchReadyHoldsWeights`, `PrefetchReadyNotUnderCopy`, all under the hypothesis `CudaFails = FALSE`: the run
  `prefetch_cuda_fails` shows that they are false without it.  A block is handed to its next owner while copies into the
  same bytes are still queued, so neither property is inductive.  `PrefetchInv` sees both backends as one queue of copies at increasing
  positions (`Jobs`) and adds, for a resident expert with a transfer (`Covered`): nothing into its block is queued behind that transfer,
  and once the transfer has run nothing into it is queued at all.  The proof needs `CacheInv`: a fresh block misses all others, so
  a new transfer disturbs no one else's cover.
* `PrefetchTypeCorrect` has no such hypothesis; a failed copy or event keeps the types.

*`Engine_proof`* — for every number of tokens, layers and experts, every top-k, budget and single-layer shard, on both backends, as long as no CUDA call fails:

* `EngineInvariant`, and from it `EngineTypeCorrect`, `EngineOutputs`, `EngineKernels`, `EngineResetsClean`.  `EngineInv` adds to `PrefetchInv`:
  queued kernels read blocks that are loaded and into which no copy is queued (`KernelInv`); a resident expert of this layer that the
  staging loop has passed has a transfer, so that its wait really waits (`StagedInv`); every copy still queued
  is at or before the transfer of an expert whose wait is yet to come (`PendingInv`), so the last wait of a layer empties the queue,
  although `wait` covers one expert each and an expert may be evicted by a later one of its own layer.
* `EngineStatistics`, `EngineNeverRefused`.  With one blob size an eviction frees exactly the bytes the next blob takes: the
  free list is empty between two calls (`CompactInv`), the bump pointer counts the bytes in use, and a load evicts at most one expert.
* `EngineBatch`: `BatchResident` for at most two experts a layer (`Count <= 2`); `engine_batch` shows that it is false for three.
  When the second expert is staged the first one has the highest priority and the newest stamp, so only it being alone could make it the
  victim, and then there is room for both.
* `EngineSkipsReported`: `SkipsStillReported`, again for `Count <= 2`.  `SkipInv` adds that only experts with a staged blob ever get a transfer
  and that the cache's own count stays 0.  A wait then finds no transfer exactly for the experts the shard lacks, and by
  `BatchInv` those are the skipped ones.

*`Generator_proof`* — the loop, for every set of experts, number of slots, configuration, Oracle and router, on both devices:

* `GenInvariant`, and from it `GenTypeCorrect`, `GenSlots`, `GenReadySettled`, `GenEventCovers`, `GenOwnWeights`, `GenTelemetry`, `GenReactive`.
  `WeightsInv` follows the queue: copies are in the order of their sequence numbers; every copy into the slot of an expert in flight is below that
  expert's event, and the last one into each half is its own; nothing is queued into the slot of a ready expert.  `CountInv` states
  the counters in the middle of a token, `PredictionInv` that while a slot is unused whatever was predicted is resident or still to be scheduled.
  The results rest on the contract of the missing prefetcher class (section 2).

Assumptions are those named in the modules (`CapAssumption`, `CacheAssumption`, `PrefetcherAssumption`, `EngineAssumption`,
`ExpertCacheAssumption`, `SimAssumption`, `TritonAssumption`, `SlotCacheAssumption`, `GeneratorAssumption`, `SizesAssumption`,
`PtLoaderAssumption`, `HeaderAssumption`, `SetupAssumption`); TLC evaluates them in the runs.
Each inductive invariant also holds on the instance of its component's run, as TLC confirms.

**Only model-checked**: liveness (`GenerateReturns`, `PipelineCompletes`, `GenerationEnds`), since fairness and ENABLED are
outside the proof system's reach; `HeaderMeansWhatItSays`, which is about the recursive parser of `Json`; and `CoalesceIsItsLoop`, which is about
a fold: what either computes for every input needs induction over data.  Every other invariant and action property of the runs is
stated by a theorem, `ReadyHoldsWeights` and those built on it for CUDA calls that do not fail, `BatchResident` and `SkipsStillReported` for at most two experts a layer.

## 5. What is abstracted or left out

* The cache, prefetcher and loop modules start from a successful `init`; `EngineSetup` has its failures.  `TopK` is at least 1;
  a Python pool has room for at least one expert, so
  `evict()` on a full pool always finds a victim; pointers are not null; sums of sizes do not overflow `size_t`; one size per expert (the engine's).
* In `EngineSetup` the configuration does not change between two calls of `init`, as in the programs; with another `use_cuda` the
  destructor would skip `cuda_cleanup()` (see the hazards).  A handle whose creation failed is not counted: after a failed
  `cudaStreamCreate` the prefetcher's destructor destroys an unset one (`async_prefetcher.cpp:23,52`).  The `PtLoader` is a fresh one
  for each load, as in `OracleScheduler::load`; `close()` keeps the pickle of the file before.
* Numbers in a header are well formed (`std::stoll` throws otherwise, and nothing catches it), every expert of the second runtime
  fits a slot (the callers size the slots so), and a shard has one layer: `staging_` is keyed by the
  expert only, so with several layers in one shard the engine would stage the first layer's blob for all; the model does not show that.
* A copy of one blob is one step.  A reader that overlaps it is still seen, because
  `ReadyNotUnderCopy` and `KernelNotUnderCopy` forbid a *queued* copy into bytes being read.
* Floating point (Oracle, SwiGLU, mean) is abstracted to provenance; the ranking is arbitrary.
* **Not modelled**: ggml (vendored and not called by the engine); the command line and benchmark (argument parsing and
  printing around the engine); the data collection, training and probe scripts (file and network I/O and floating point, no
  protocol state); the bytes of zip, pickle and deflate; `dump_manifest`, `f16_to_f32` and the other conversions; the second
  overload of `WeightMmap::open`, `OracleScheduler::ensure_ready` and `synchronize_all`, which nothing calls.

## 6. Plan

1. *Done*: arena, cache, prefetcher, engine with its set-up, simulator, Triton experiment, second runtime, loaders; proofs of every
   invariant and action property the runs check, and of the refinement of `Arena`, with the exceptions named at the end of section 4.
2. **Left**: the hazards without a property (`PROJECT.json`): the growth of `inflight_` within one `generate`, a second `init()` with another
   `use_cuda`, the stamps of the Python pool, the inflate loop on a stream that is cut short, a predicted expert that is not refreshed, numbers in a header that do not fit, and the scan for the end of the directory in a very short file.
