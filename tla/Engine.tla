------------------------------- MODULE Engine -------------------------------
(***************************************************************************)
(* Engine (dee/engine.{h,cpp}): the generation loop over tokens and layers. *)
(* A layer predicts experts, stages them all, then waits for and computes   *)
(* with one after the other.  With the mock backend the SwiGLU runs in the  *)
(* host thread; with CUDA it is queued on a compute stream that runs beside *)
(* the host and the copy stream and is joined at the end of the layer.      *)
(*                                                                         *)
(* Keys is the set of pairs <<layer, expert>>.  Vectors are abstracted to   *)
(* where they come from: a hidden state is the token and layer that wrote   *)
(* it, an expert output the expert, token and layer it was computed for and *)
(* whether the weights read were that expert's.                             *)
(***************************************************************************)
EXTENDS AsyncPrefetcher

CONSTANTS TokenCounts, \* the values of cfg_.num_tokens
          NumLayers,   \* cfg_.num_layers, clamped to the Oracle's
          NumExperts,  \* experts the Oracle ranks
          TopK,        \* cfg_.topk
          Shard,       \* the pairs <<layer, expert>> whose tensors the shard holds
          MaxTokens    \* bound on the tokens of all calls of generate() together

Layers == 0 .. NumLayers - 1
Experts == 0 .. NumExperts - 1

ASSUME EngineAssumption ==
    /\ TokenCounts \subseteq 1 .. MaxTokens
    /\ NumLayers \in Nat \ {0} /\ NumExperts \in Nat \ {0}
    /\ TopK \in Nat \ {0} /\ MaxTokens \in Nat
    /\ Keys = Layers \X Experts
    /\ Priorities = 1 .. TopK
    /\ <<0, 0>> \in Shard  \* init() fails otherwise
    /\ Uniform             \* one blob size, not above the budget

VARIABLES num_tokens,  \* cfg_.num_tokens, fixed by init()
          phase,    \* where the host thread is in generate()
          token, layer, experts,
          k,        \* the loop index over experts
          staging,  \* staging_: the shard layer each staged expert's blob comes from
          y,        \* what each of the TopK outputs was computed from
          kernels,  \* kernels queued on compute_stream_
          buf,      \* hidden_buf_
          cur,      \* which of the two is the token's input
          estats,   \* stats_
          runs      \* calls of generate() that returned

engineVars == <<num_tokens, phase, token, layer, experts, k, staging, y, kernels, buf, cur,
                estats, runs>>
allVars == <<vars, engineVars>>

Prompt == <<>>
NoOutput == <<>>  \* nothing was added to the sum
Garbage ==        \* device memory nobody has written
    [expert |-> 0, layer |-> 0, token |-> -1, own |-> FALSE]
Count == IF TopK < NumExperts THEN TopK ELSE NumExperts

\* Oracle predict: the best Count experts in the order of their logits, which
\* depend on the hidden state; any order is possible.
Predictions ==
    {s \in [1 .. Count -> Experts] : \A i, j \in 1 .. Count : s[i] = s[j] => i = j}

Outputs ==
    [expert : Experts, token : 0 .. MaxTokens - 1, layer : Layers, own : BOOLEAN]

EngineTypeOK ==
    /\ TypeOK
    /\ num_tokens \in TokenCounts
    /\ phase \in {"idle", "layer", "stage", "compute", "gather"}
    /\ token \in 0 .. num_tokens - 1
    /\ layer \in Layers
    /\ experts \in Predictions \cup {<<>>}
    /\ k \in 1 .. Count + 1
    /\ DOMAIN staging \subseteq Experts
    /\ y \in [1 .. Count -> Outputs \cup {NoOutput, Garbage}]
    /\ buf \in [0 .. 1 -> {Prompt} \cup ((0 .. MaxTokens - 1) \X Layers)]
    /\ cur \in 0 .. 1
    /\ runs \in 0 .. MaxTokens

EngineInit ==
    /\ Init
    /\ num_tokens \in TokenCounts
    /\ phase = "idle"
    /\ token = 0 /\ layer = 0 /\ experts = <<>> /\ k = 1
    /\ staging = [e \in {} |-> 0]
    /\ y = [i \in 1 .. Count |-> IF use_cuda THEN Garbage ELSE NoOutput]
    /\ kernels = <<>>
    /\ buf = [i \in 0 .. 1 |-> Prompt]
    /\ cur = 0
    /\ estats = [fallbacks |-> 0, peak_vram |-> 0, cache_hits |-> 0, cache_loads |-> 0,
                 evictions |-> 0, prefetch_issued |-> 0, prefetch_fallbacks |-> 0]
    /\ runs = 0
------------------------------------------------------------------------------
\* Another generate() stays within the bound.
MoreRuns == (runs + 1) * num_tokens <= MaxTokens

Generate ==
    /\ phase = "idle" /\ MoreRuns
    /\ phase' = "layer"
    /\ token' = 0 /\ layer' = 0 /\ cur' = 0
    /\ buf' = [buf EXCEPT ![0] = Prompt]
    /\ UNCHANGED <<vars, experts, k, staging, y, kernels, estats, runs,
                   num_tokens>>

\* The host's accumulator starts at zero; the device's buffer keeps what it had.
Predict ==
    /\ phase = "layer"
    /\ phase' = "stage"
    /\ experts' \in Predictions
    /\ k' = 1
    /\ y' = IF use_cuda THEN y ELSE [i \in 1 .. Count |-> NoOutput]
    /\ UNCHANGED <<vars, token, layer, staging, kernels, buf, cur, estats, runs,
                   num_tokens>>

\* avail_layer: a shard that holds layer 0 is taken for a single-layer one.
AvailLayer(l) == IF <<0, 0>> \in Shard THEN 0 ELSE l

\* get_staging: the blob is made once per expert, from the layer that layer 0
\* maps to, or not at all if the shard lacks the expert.
CanStage(e) == e \in DOMAIN staging \/ <<AvailLayer(0), e>> \in Shard

\* The staging loop goes on, or the compute loop starts.
NextStaged ==
    \/ k < Count /\ k' = k + 1 /\ UNCHANGED phase
    \/ k = Count /\ k' = 1 /\ phase' = "compute"

StageExpert ==
    /\ phase = "stage"
    /\ CanStage(experts[k])
    /\ staging' = [e \in DOMAIN staging \cup {experts[k]} |->
                     IF e \in DOMAIN staging THEN staging[e] ELSE AvailLayer(0)]
    /\ Prefetch(<<layer, experts[k]>>, TopK - (k - 1))
    /\ NextStaged
    /\ UNCHANGED <<token, layer, experts, y, kernels, buf, cur, estats, runs,
                   num_tokens>>

\* An expert the shard lacks is not prefetched.
StageMissing ==
    /\ phase = "stage"
    /\ ~CanStage(experts[k])
    /\ NextStaged
    /\ UNCHANGED <<vars, token, layer, experts, staging, y, kernels, buf, cur, estats,
                   runs, num_tokens>>

Output(key, t, own) == [expert |-> key[2], layer |-> key[1], token |-> t, own |-> own]

\* Does the range at off hold the weights of key in memory m?
HoldsWeights(m, key, off) ==
    \A b \in Span(off, BlobSize[key]) : m[b] = <<key, b - off>>

\* Mutant of ComputeMock: the wait is left out.
ComputeMockNoWait ==
    LET key == <<layer, experts[k]>> IN
    /\ phase = "compute" /\ k <= Count /\ ~use_cuda
    /\ key \in Resident
    /\ y' = [y EXCEPT ![k] = Output(key, token, HoldsWeights(mem, key, blocks[key].off))]
    /\ Touch(key)
    /\ k' = k + 1
    /\ UNCHANGED <<pfVars, phase, token, layer, experts, staging, kernels, buf, cur,
                   estats, runs, num_tokens>>

\* wait, data, swiglu on the host, touch.
ComputeMock ==
    LET key == <<layer, experts[k]>> IN
    /\ phase = "compute" /\ k <= Count /\ ~use_cuda
    /\ WaitStep(key)
    /\ key \in Resident
    /\ y' = [y EXCEPT ![k] = Output(key, token, HoldsWeights(mem', key, blocks[key].off))]
    /\ Touch(key)
    /\ k' = k + 1
    /\ UNCHANGED <<phase, token, layer, experts, staging, kernels, buf, cur, estats,
                   runs, num_tokens>>

\* Mutant of LaunchKernel: the launch does not wait for the copy.
LaunchKernelNoWait ==
    LET key == <<layer, experts[k]>> IN
    /\ phase = "compute" /\ k <= Count /\ use_cuda
    /\ key \in Resident
    /\ kernels' = Append(kernels, [slot |-> k, key |-> key, token |-> token,
                                   off |-> blocks[key].off])
    /\ k' = k + 1
    /\ UNCHANGED <<vars, phase, token, layer, experts, staging, y, buf, cur, estats,
                   runs, num_tokens>>

\* wait, data, and the kernel queued; the CUDA path does not touch the block.
LaunchKernel ==
    LET key == <<layer, experts[k]>> IN
    /\ phase = "compute" /\ k <= Count /\ use_cuda
    /\ Wait(key)
    /\ key \in Resident
    /\ kernels' = Append(kernels, [slot |-> k, key |-> key, token |-> token,
                                   off |-> blocks[key].off])
    /\ k' = k + 1
    /\ UNCHANGED <<phase, token, layer, experts, staging, y, buf, cur, estats,
                   runs, num_tokens>>

\* The expert is not resident after the wait: it is left out.
SkipExpert ==
    LET key == <<layer, experts[k]>> IN
    /\ phase = "compute" /\ k <= Count
    /\ Wait(key)
    /\ key \notin Resident
    /\ estats' = [estats EXCEPT !.fallbacks = @ + 1]
    /\ k' = k + 1
    /\ UNCHANGED <<phase, token, layer, experts, staging, y, kernels, buf, cur, runs,
                   num_tokens>>

\* The compute stream runs the oldest kernel.
RunKernel ==
    /\ kernels # <<>>
    /\ LET g == Head(kernels) IN
       y' = [y EXCEPT ![g.slot] = Output(g.key, g.token, HoldsWeights(mem, g.key, g.off))]
    /\ kernels' = Tail(kernels)
    /\ UNCHANGED <<vars, phase, token, layer, experts, k, staging, buf, cur, estats,
                   runs, num_tokens>>

\* Mutant of Joined: the layer ends without cudaStreamSynchronize.
JoinedNever == phase = "compute" /\ k > Count

\* The layer's combine; with CUDA after cudaStreamSynchronize(compute_stream_).
Joined == phase = "compute" /\ k > Count /\ kernels = <<>>

\* Mutant of EndLayer: one layer too many.
EndLayerOffByOne ==
    /\ Joined
    /\ layer <= NumLayers - 1
    /\ buf' = [buf EXCEPT ![1 - cur] = <<token, layer>>]
    /\ layer' = layer + 1
    /\ phase' = "layer" /\ k' = 1
    /\ UNCHANGED <<vars, token, experts, staging, y, kernels, cur, estats, runs,
                   num_tokens>>

\* h_out is written; the next layer reads the same h_in as this one.
EndLayer ==
    /\ Joined
    /\ layer < NumLayers - 1
    /\ buf' = [buf EXCEPT ![1 - cur] = <<token, layer>>]
    /\ layer' = layer + 1
    /\ phase' = "layer" /\ k' = 1
    /\ UNCHANGED <<vars, token, experts, staging, y, kernels, cur, estats, runs,
                   num_tokens>>

Peak(used) == IF used > estats.peak_vram THEN used ELSE estats.peak_vram

\* The last layer: the buffers swap and the peak is sampled.
EndToken ==
    /\ Joined
    /\ layer = NumLayers - 1
    /\ buf' = [buf EXCEPT ![1 - cur] = <<token, layer>>]
    /\ cur' = 1 - cur
    /\ estats' = [estats EXCEPT !.peak_vram = Peak(UsedBytes(arena))]
    /\ layer' = 0 /\ k' = 1
    /\ IF token < num_tokens - 1 THEN token' = token + 1 /\ phase' = "layer"
                                ELSE UNCHANGED token /\ phase' = "gather"
    /\ UNCHANGED <<vars, experts, staging, y, kernels, runs, num_tokens>>

\* reset() and the statistics.
\* Mutant of Gather: the prefetcher's fallbacks are not gathered.
GatherLosesFallbacks ==
    /\ phase = "gather"
    /\ Reset
    /\ estats' = [estats EXCEPT !.cache_hits = stats.hits, !.cache_loads = stats.loads,
                                !.evictions = stats.evictions, !.fallbacks = stats.fallbacks,
                                !.prefetch_issued = pstats.issued]
    /\ phase' = "idle"
    /\ runs' = runs + 1
    /\ UNCHANGED <<token, layer, experts, k, staging, y, kernels, buf, cur,
                   num_tokens>>

Gather ==
    /\ phase = "gather"
    /\ Reset
    /\ estats' = [estats EXCEPT !.cache_hits = stats.hits, !.cache_loads = stats.loads,
                                !.evictions = stats.evictions, !.fallbacks = stats.fallbacks,
                                !.prefetch_issued = pstats.issued,
                                !.prefetch_fallbacks = pstats.fallbacks]
    /\ phase' = "idle"
    /\ runs' = runs + 1
    /\ UNCHANGED <<token, layer, experts, k, staging, y, kernels, buf, cur,
                   num_tokens>>

Finished == phase = "idle" /\ ~MoreRuns

HostStep ==
    \/ Generate \/ Predict \/ StageExpert \/ StageMissing
    \/ ComputeMock \/ LaunchKernel \/ SkipExpert
    \/ EndLayer \/ EndToken \/ Gather

CopyStep == DeviceCopy /\ UNCHANGED engineVars

EngineNext ==
    \/ HostStep
    \/ CopyStep
    \/ RunKernel

\* The host thread is never descheduled for good, and both CUDA streams make
\* progress on what is queued.
EngineSpec ==
    /\ EngineInit /\ [][EngineNext]_allVars
    /\ WF_allVars(HostStep) /\ WF_allVars(CopyStep) /\ WF_allVars(RunKernel)
------------------------------------------------------------------------------
\* Every expert output of a layer comes from the weights of the expert it is for:
\* no kernel reads a block before its copy is complete, or after another expert's
\* copy has overwritten it.
OutputsFromOwnWeights ==
    \A i \in 1 .. Count : y[i] \notin {NoOutput, Garbage} => y[i].own

\* While a kernel is queued or running no copy is on its way into its block.
KernelNotUnderCopy ==
    \A i \in DOMAIN kernels, j \in DOMAIN stream :
        Span(kernels[i].off, BlobSize[kernels[i].key])
            \cap Span(stream[j].dst, stream[j].nbytes) = {}

\* "should not happen (wait guarantees resident)": when the layer comes to its
\* experts, all those it could stage are resident, if the budget holds that many.
BatchResident ==
    (phase = "compute" /\ \A n \in Sizes : Count * n <= Cap) =>
        \A i \in k .. Count : CanStage(experts[i]) => <<layer, experts[i]>> \in Resident

\* reset() drops no transfer that was still to run: a block would stay resident
\* without its weights and the next generate() would find it there.
NothingPendingAtReset == phase = "gather" => Pending = {}

\* The statistics add up after generate(): every issued transfer was a hit or a
\* load, every load is still resident or was evicted, and the peak sampled at the
\* token ends is the arena's high-water mark.
StatisticsAddUp ==
    (phase = "idle" /\ runs > 0) =>
        /\ estats.cache_hits + estats.cache_loads = estats.prefetch_issued
        /\ estats.cache_loads - estats.evictions = Cardinality(Resident)
        /\ estats.peak_vram = arena.high

\* generate() counts the experts its layers skipped and then overwrites the count
\* with the cache's own (engine.cpp:93, 251).  As long as a batch fits the budget the
\* prefetcher has seen the same misses: what prefetch_fallbacks is about to grow by
\* is the number skipped in this generate().
SkipsStillReported ==
    (phase = "gather" /\ \A n \in Sizes : Count * n <= Cap) =>
        pstats.fallbacks = estats.prefetch_fallbacks + estats.fallbacks

\* generate() returns: no wait for a copy, and no join of the compute stream,
\* blocks for ever.
GenerateReturns == <>Finished

\* "hidden = moe_swiglu(L, hidden, experts)": a layer's input is the output of the
\* layer before it.
LayersChain ==
    phase = "stage" /\ layer > 0 => buf[cur] = <<token, layer - 1>>

\* "mean combine": the outputs averaged at the end of a layer are outputs of this
\* layer, or left out.
CombinesThisLayer ==
    Joined => \A i \in 1 .. Count :
                 y[i] # NoOutput => (y[i].token = token /\ y[i].layer = layer)
=============================================================================
