---------------------------- MODULE Engine_proof ----------------------------
(***************************************************************************)
(* The generation loop's safety for every number of tokens, layers and      *)
(* experts, every top-k, budget and single-layer shard, on both backends,   *)
(* as long as no CUDA call fails.                                           *)
(*                                                                         *)
(* An output is computed from the right weights because the block its       *)
(* kernel reads is quiet when the kernel is queued, and stays quiet: no     *)
(* transfer is submitted between the waits of a layer and its join.  That a *)
(* wait is always for a transfer that was submitted, and that every         *)
(* transfer is waited for before reset(), follows from which experts the    *)
(* staging loop has passed.  The second half is about the cache: that its   *)
(* statistics add up, and which experts of a layer stay resident.           *)
(***************************************************************************)
EXTENDS Engine, AsyncPrefetcher_proof

Kernel == [slot : 1 .. Count, key : Keys, token : 0 .. MaxTokens - 1, off : 0 .. Cap - 1]

KeyAt(i) == <<layer, experts[i]>>

LoopTypeOK ==
    /\ EngineTypeOK
    /\ kernels \in Seq(Kernel)
    /\ phase \in {"stage", "compute"} => experts \in Predictions
    /\ phase = "stage" => k <= Count
    /\ phase # "idle" => MoreRuns

\* A resident expert was staged; one of this layer has a transfer once the staging
\* loop has passed it.
StagedInv ==
    /\ \A x \in Resident : x[2] \in DOMAIN staging
    /\ \A i \in 1 .. Count :
         /\ phase = "compute" \/ (phase = "stage" /\ i < k)
         /\ KeyAt(i) \in Resident
         => KeyAt(i) \in DOMAIN key_to_idx

\* A queued kernel reads a quiet block of a resident expert.
KernelInv ==
    /\ phase # "compute" => kernels = <<>>
    /\ \A i \in DOMAIN kernels :
         /\ kernels[i].key \in Resident
         /\ kernels[i].off = blocks[kernels[i].key].off
         /\ Quiet(kernels[i].key, kernels[i].off, blocks[kernels[i].key].size, Jobs, mem)

\* Every transfer still to run is covered by a wait of this layer that is to come.
PendingInv ==
    /\ phase \notin {"stage", "compute"} => DOMAIN Jobs = {}
    /\ phase = "stage" /\ DOMAIN Jobs # {} =>
         \E i \in 1 .. Count :
            i < k /\ KeyAt(i) \in DOMAIN key_to_idx /\ JobOf(KeyAt(i)) = LastJob
    /\ phase = "compute" =>
         \A p \in DOMAIN Jobs :
            \E i \in 1 .. Count :
               i >= k /\ KeyAt(i) \in DOMAIN key_to_idx /\ p <= JobOf(KeyAt(i))

EngineInv ==
    PrefetchInv /\ LoopTypeOK /\ StagedInv /\ KernelInv /\ OutputsFromOwnWeights /\ PendingInv
------------------------------------------------------------------------------
(***************************************************************************)
(* Types of the loop                                                        *)
(***************************************************************************)
\* At least one expert a layer, and no more than there are.
LEMMA CountFacts ==
    /\ Count \in Nat /\ Count >= 1 /\ Count <= NumExperts
    /\ NumLayers \in Nat /\ NumLayers >= 1 /\ MaxTokens \in Nat
    /\ TopK \in Nat /\ Count <= TopK
  BY EngineAssumption DEF Count

\* The host's variables, and those of the expert it is about to handle.
LEMMA LoopFacts ==
    ASSUME LoopTypeOK
    PROVE  /\ num_tokens \in Nat /\ num_tokens >= 1 /\ num_tokens <= MaxTokens
           /\ token \in 0 .. MaxTokens - 1 /\ layer \in Layers /\ k \in Nat
           /\ phase \in {"stage", "compute"} =>
                \A i \in 1 .. Count : experts[i] \in Experts /\ KeyAt(i) \in Keys
<1>1. num_tokens \in 1 .. MaxTokens /\ token \in 0 .. num_tokens - 1
  BY EngineAssumption DEF LoopTypeOK, EngineTypeOK
<1>2. token \in 0 .. MaxTokens - 1
  BY <1>1, CountFacts
<1>3. layer \in Layers /\ k \in Nat
  BY CountFacts DEF LoopTypeOK, EngineTypeOK
<1>4. ASSUME phase \in {"stage", "compute"}, NEW i \in 1 .. Count
      PROVE  experts[i] \in Experts /\ KeyAt(i) \in Keys
  <2>1. experts[i] \in Experts
    BY <1>4 DEF LoopTypeOK, Predictions
  <2> QED BY <1>3, <2>1, EngineAssumption DEF KeyAt
<1> QED
  BY <1>1, <1>2, <1>3, <1>4, CountFacts

\* An output is one, and records whether its weights were right.
LEMMA OutputFacts ==
    ASSUME NEW key \in Keys, NEW t \in 0 .. MaxTokens - 1, NEW own \in BOOLEAN
    PROVE  /\ Output(key, t, own) \in Outputs
           /\ Output(key, t, own).own = own
<1>1. key[1] \in Layers /\ key[2] \in Experts
  BY EngineAssumption
<1> QED
  BY <1>1 DEF Output, Outputs

\* Another generate() fits: the count of the calls stays within the bound.
LEMMA RunsBounded ==
    ASSUME LoopTypeOK, phase # "idle" PROVE runs + 1 \in 0 .. MaxTokens
<1>1. /\ runs \in Nat /\ num_tokens \in Nat /\ num_tokens >= 1 /\ MaxTokens \in Nat
      /\ (runs + 1) * num_tokens <= MaxTokens
  BY LoopFacts, CountFacts DEF LoopTypeOK, EngineTypeOK, MoreRuns
<1>2. \A a, n \in Nat : n >= 1 => a <= a * n
  <2> SUFFICES ASSUME NEW a \in Nat, NEW n \in Nat, n >= 1 PROVE a <= a * n
    OBVIOUS
  <2>1. PICK j \in Nat : n = j + 1
    <3>1. n - 1 \in Nat /\ n = (n - 1) + 1
      OBVIOUS
    <3> QED BY <3>1
  <2>2. a * n = a * j + a /\ a * j \in Nat
    BY <2>1
  <2> QED BY <2>2
<1>3. runs + 1 <= (runs + 1) * num_tokens /\ (runs + 1) * num_tokens \in Nat
  BY <1>1, <1>2
<1> QED
  BY <1>1, <1>3

\* What a step must show of the types: those of the variables it changes.
LEMMA TypeStep ==
    ASSUME PrefetchInv', num_tokens' \in TokenCounts,
           phase' \in {"idle", "layer", "stage", "compute", "gather"},
           token' \in 0 .. num_tokens' - 1, layer' \in Layers,
           experts' \in Predictions \cup {<<>>}, k' \in 1 .. Count + 1,
           DOMAIN staging' \subseteq Experts,
           y' \in [1 .. Count -> Outputs \cup {NoOutput, Garbage}],
           buf' \in [0 .. 1 -> {Prompt} \cup ((0 .. MaxTokens - 1) \X Layers)],
           cur' \in 0 .. 1, runs' \in 0 .. MaxTokens, kernels' \in Seq(Kernel),
           phase' \in {"stage", "compute"} => experts' \in Predictions,
           phase' = "stage" => k' <= Count,
           phase' # "idle" => MoreRuns'
    PROVE  LoopTypeOK'
<1>1. TypeOK'
  BY DEF PrefetchInv, CacheInv, TypeOK
<1> QED
  BY <1>1 DEF LoopTypeOK, EngineTypeOK

------------------------------------------------------------------------------
(***************************************************************************)
(* Steps of the host that leave the cache and the prefetcher alone          *)
(***************************************************************************)
\* What such a step leaves as it was.
LEMMA VarsAlone ==
    ASSUME EngineInv, UNCHANGED vars
    PROVE  /\ PrefetchInv' /\ Jobs' = Jobs /\ LastJob' = LastJob
           /\ \A x : JobOf(x)' = JobOf(x)
           /\ Resident' = Resident
           /\ UNCHANGED <<blocks, key_to_idx, mem, stream, use_cuda>>
<1>1. UNCHANGED <<blocks, key_to_idx, mem, stream, use_cuda>>
  BY DEF vars, cacheVars, pfVars
<1> QED
  BY <1>1, StutterInv DEF EngineInv, Resident

\* The queued kernels stay and what they read stays as it was.
LEMMA KernelsAlone ==
    ASSUME EngineInv, UNCHANGED <<vars, kernels>>, phase' # "compute" => kernels = <<>>
    PROVE  KernelInv'
<1>1. Jobs' = Jobs /\ Resident' = Resident /\ UNCHANGED <<blocks, mem, kernels>>
  BY VarsAlone
<1> QED
  BY <1>1 DEF EngineInv, KernelInv

\* generate() starts with an empty queue.
LEMMA GenerateInv ==
    ASSUME EngineInv, Generate PROVE EngineInv'
<1>1. /\ PrefetchInv' /\ Jobs' = Jobs /\ Resident' = Resident
  BY VarsAlone DEF Generate
<1>2. /\ phase = "idle" /\ MoreRuns /\ phase' = "layer"
      /\ token' = 0 /\ layer' = 0 /\ cur' = 0 /\ buf' = [buf EXCEPT ![0] = Prompt]
      /\ UNCHANGED <<vars, experts, k, staging, y, kernels, estats, runs, num_tokens>>
  BY DEF Generate
<1>3. LoopTypeOK'
  <2>1. LoopTypeOK /\ EngineTypeOK
    BY DEF EngineInv, LoopTypeOK
  <2>2. buf' \in [0 .. 1 -> {Prompt} \cup ((0 .. MaxTokens - 1) \X Layers)]
    BY <1>2, <2>1 DEF EngineTypeOK
  <2>3. 0 \in 0 .. num_tokens - 1 /\ 0 \in Layers
    BY <2>1, LoopFacts, CountFacts DEF Layers
  <2>4. MoreRuns'
    BY <1>2 DEF MoreRuns
  <2> QED BY <1>1, <1>2, <2>1, <2>2, <2>3, <2>4, TypeStep DEF LoopTypeOK, EngineTypeOK
<1>4. KernelInv'
  BY <1>2, KernelsAlone DEF EngineInv, KernelInv
<1>5. StagedInv' /\ PendingInv' /\ OutputsFromOwnWeights'
  BY <1>1, <1>2 DEF EngineInv, StagedInv, PendingInv, OutputsFromOwnWeights
<1> QED
  BY <1>1, <1>3, <1>4, <1>5 DEF EngineInv

\* The staging loop starts with an empty queue.
LEMMA PredictInv ==
    ASSUME EngineInv, Predict PROVE EngineInv'
<1>1. /\ PrefetchInv' /\ Jobs' = Jobs /\ Resident' = Resident
  BY VarsAlone DEF Predict
<1>2. /\ phase = "layer" /\ phase' = "stage" /\ experts' \in Predictions /\ k' = 1
      /\ y' = IF use_cuda THEN y ELSE [i \in 1 .. Count |-> NoOutput]
      /\ UNCHANGED <<vars, token, layer, staging, kernels, buf, cur, estats, runs, num_tokens>>
  BY DEF Predict
<1>3. LoopTypeOK'
  <2>1. LoopTypeOK /\ EngineTypeOK
    BY DEF EngineInv, LoopTypeOK
  <2>2. y' \in [1 .. Count -> Outputs \cup {NoOutput, Garbage}]
    BY <1>2, <2>1 DEF EngineTypeOK
  <2>3. 1 \in 1 .. Count + 1 /\ 1 <= Count
    BY CountFacts
  <2>4. MoreRuns'
    BY <1>2, <2>1 DEF MoreRuns, LoopTypeOK
  <2> QED BY <1>1, <1>2, <2>1, <2>2, <2>3, <2>4, TypeStep DEF LoopTypeOK, EngineTypeOK
<1>4. KernelInv'
  BY <1>2, KernelsAlone DEF EngineInv, KernelInv
<1>5. OutputsFromOwnWeights'
  <2>1. \A i \in 1 .. Count : y'[i] = y[i] \/ y'[i] = NoOutput
    BY <1>2
  <2> QED BY <2>1 DEF EngineInv, OutputsFromOwnWeights
<1>6. StagedInv'
  <2>1. \A i \in 1 .. Count : ~(i < 1)
    BY CountFacts
  <2>2. \A x \in Resident' : x[2] \in DOMAIN staging'
    BY <1>1, <1>2 DEF EngineInv, StagedInv
  <2> QED BY <1>2, <2>1, <2>2 DEF StagedInv
<1>7. PendingInv'
  BY <1>1, <1>2 DEF EngineInv, PendingInv
<1> QED
  BY <1>1, <1>3, <1>4, <1>5, <1>6, <1>7 DEF EngineInv

\* With the last wait of the layer done, nothing is left of the queue.
LEMMA JoinedQueue ==
    ASSUME EngineInv, Joined PROVE DOMAIN Jobs = {}
<1>1. k \in Nat /\ k > Count /\ phase = "compute" /\ Count \in Nat
  BY LoopFacts, CountFacts DEF EngineInv, Joined
<1>2. \A i \in 1 .. Count : ~(i >= k)
  BY <1>1
<1> QED
  BY <1>1, <1>2 DEF EngineInv, PendingInv

\* The next layer starts with an empty queue.
LEMMA EndLayerInv ==
    ASSUME EngineInv, EndLayer PROVE EngineInv'
<1>1. /\ PrefetchInv' /\ Jobs' = Jobs /\ Resident' = Resident
  BY VarsAlone DEF EndLayer
<1>2. /\ Joined /\ layer < NumLayers - 1 /\ buf' = [buf EXCEPT ![1 - cur] = <<token, layer>>]
      /\ layer' = layer + 1 /\ phase' = "layer" /\ k' = 1
      /\ UNCHANGED <<vars, token, experts, staging, y, kernels, cur, estats, runs, num_tokens>>
  BY DEF EndLayer
<1>3. LoopTypeOK /\ EngineTypeOK
  BY DEF EngineInv, LoopTypeOK
<1>4. LoopTypeOK'
  <2>1. <<token, layer>> \in (0 .. MaxTokens - 1) \X Layers
    BY <1>3, LoopFacts
  <2>2. buf' \in [0 .. 1 -> {Prompt} \cup ((0 .. MaxTokens - 1) \X Layers)]
    BY <1>2, <1>3, <2>1 DEF EngineTypeOK
  <2>3. layer + 1 \in Layers /\ 1 \in 1 .. Count + 1
    BY <1>2, <1>3, LoopFacts, CountFacts DEF Layers
  <2>4. MoreRuns'
    BY <1>2, <1>3 DEF MoreRuns, LoopTypeOK, Joined
  <2> QED BY <1>1, <1>2, <1>3, <2>2, <2>3, <2>4, TypeStep DEF LoopTypeOK, EngineTypeOK
<1>5. KernelInv'
  BY <1>2, KernelsAlone DEF Joined
<1>6. DOMAIN Jobs = {}
  BY <1>2, JoinedQueue
<1>7. StagedInv' /\ PendingInv' /\ OutputsFromOwnWeights'
  BY <1>1, <1>2, <1>6 DEF EngineInv, StagedInv, PendingInv, OutputsFromOwnWeights
<1> QED
  BY <1>1, <1>4, <1>5, <1>7 DEF EngineInv

\* So does the next token, or the statistics.
LEMMA EndTokenInv ==
    ASSUME EngineInv, EndToken PROVE EngineInv'
<1>1. /\ PrefetchInv' /\ Jobs' = Jobs /\ Resident' = Resident
  BY VarsAlone DEF EndToken
<1>2. /\ Joined /\ buf' = [buf EXCEPT ![1 - cur] = <<token, layer>>] /\ cur' = 1 - cur
      /\ layer' = 0 /\ k' = 1
      /\ IF token < num_tokens - 1 THEN token' = token + 1 /\ phase' = "layer"
                                   ELSE UNCHANGED token /\ phase' = "gather"
      /\ UNCHANGED <<vars, experts, staging, y, kernels, runs, num_tokens>>
  BY DEF EndToken
<1>3. LoopTypeOK /\ EngineTypeOK
  BY DEF EngineInv, LoopTypeOK
<1>4. phase' \in {"layer", "gather"}
  BY <1>2
<1>5. LoopTypeOK'
  <2>1. <<token, layer>> \in (0 .. MaxTokens - 1) \X Layers
    BY <1>3, LoopFacts
  <2>2. /\ buf' \in [0 .. 1 -> {Prompt} \cup ((0 .. MaxTokens - 1) \X Layers)]
        /\ cur' \in 0 .. 1
    BY <1>2, <1>3, <2>1 DEF EngineTypeOK
  <2>3. 0 \in Layers /\ 1 \in 1 .. Count + 1
    BY CountFacts DEF Layers
  <2>4. token' \in 0 .. num_tokens' - 1
    BY <1>2, <1>3, LoopFacts DEF EngineTypeOK
  <2>5. MoreRuns'
    BY <1>2, <1>3 DEF MoreRuns, LoopTypeOK, Joined
  <2> QED BY <1>1, <1>2, <1>3, <1>4, <2>2, <2>3, <2>4, <2>5, TypeStep DEF LoopTypeOK, EngineTypeOK
<1>6. KernelInv'
  BY <1>2, KernelsAlone DEF Joined
<1>7. DOMAIN Jobs = {}
  BY <1>2, JoinedQueue
<1>8. StagedInv' /\ PendingInv' /\ OutputsFromOwnWeights'
  BY <1>1, <1>2, <1>4, <1>7 DEF EngineInv, StagedInv, PendingInv, OutputsFromOwnWeights
<1> QED
  BY <1>1, <1>5, <1>6, <1>8 DEF EngineInv

\* reset() finds the queue empty.
LEMMA GatherInv ==
    ASSUME EngineInv, Gather PROVE EngineInv'
<1>1. /\ phase = "gather" /\ Reset /\ phase' = "idle" /\ runs' = runs + 1
      /\ UNCHANGED <<token, layer, experts, k, staging, y, kernels, buf, cur, num_tokens>>
  BY DEF Gather
<1>2. PrefetchInv' /\ DOMAIN Jobs' \subseteq DOMAIN Jobs
  BY <1>1, ResetInv DEF EngineInv
<1>3. DOMAIN Jobs = {} /\ kernels = <<>>
  BY <1>1 DEF EngineInv, PendingInv, KernelInv
<1>4. Resident' = Resident
  BY <1>1 DEF Reset, cacheVars, Resident
<1>5. LoopTypeOK /\ EngineTypeOK
  BY DEF EngineInv, LoopTypeOK
<1>6. runs' \in 0 .. MaxTokens
  BY <1>1, <1>5, RunsBounded
<1>7. LoopTypeOK'
  BY <1>1, <1>2, <1>5, <1>6, TypeStep DEF LoopTypeOK, EngineTypeOK
<1>8. KernelInv'
  BY <1>1, <1>3 DEF KernelInv
<1>9. StagedInv' /\ PendingInv' /\ OutputsFromOwnWeights'
  BY <1>1, <1>2, <1>3, <1>4 DEF EngineInv, StagedInv, PendingInv, OutputsFromOwnWeights
<1> QED
  BY <1>2, <1>7, <1>8, <1>9 DEF EngineInv

\* A step that changes nothing.
LEMMA IdleInv ==
    ASSUME EngineInv, UNCHANGED allVars PROVE EngineInv'
<1>1. UNCHANGED <<vars, num_tokens, phase, token, layer, experts, k, staging, y, kernels, buf,
                  cur, estats, runs>>
  BY DEF allVars, engineVars
<1>2. /\ PrefetchInv' /\ Jobs' = Jobs /\ Resident' = Resident /\ LastJob' = LastJob
      /\ \A x : JobOf(x)' = JobOf(x)
      /\ UNCHANGED <<blocks, key_to_idx, mem>>
  BY <1>1, VarsAlone
<1>3. LoopTypeOK'
  BY <1>1, <1>2, TypeStep DEF EngineInv, LoopTypeOK, EngineTypeOK, MoreRuns
<1>4. KernelInv'
  BY <1>1, KernelsAlone DEF EngineInv, KernelInv
<1>5. StagedInv'
  BY <1>1, <1>2 DEF EngineInv, StagedInv, KeyAt
<1>6. PendingInv'
  <2>1. \A i : KeyAt(i)' = KeyAt(i)
    BY <1>1 DEF KeyAt
  <2>2. \A i : JobOf(KeyAt(i))' = JobOf(KeyAt(i))
    BY <1>1, <1>2, <2>1 DEF JobOf, vars, pfVars
  <2> QED BY <1>1, <1>2, <2>1, <2>2 DEF EngineInv, PendingInv
<1>7. OutputsFromOwnWeights'
  BY <1>1 DEF EngineInv, OutputsFromOwnWeights
<1> QED
  BY <1>2, <1>3, <1>4, <1>5, <1>6, <1>7 DEF EngineInv

\* The oldest kernel reads a quiet block: what is there is its expert's.
LEMMA RunKernelInv ==
    ASSUME EngineInv, RunKernel PROVE EngineInv'
<1> DEFINE g == Head(kernels)
<1>1. /\ kernels # <<>> /\ kernels' = Tail(kernels)
      /\ y' = [y EXCEPT ![g.slot] = Output(g.key, g.token, HoldsWeights(mem, g.key, g.off))]
      /\ UNCHANGED <<vars, phase, token, layer, experts, k, staging, buf, cur, estats, runs,
                     num_tokens>>
  BY DEF RunKernel
<1>2. /\ PrefetchInv' /\ Jobs' = Jobs /\ Resident' = Resident /\ LastJob' = LastJob
      /\ UNCHANGED <<blocks, key_to_idx, mem, use_cuda, inflight>>
  <2>1. UNCHANGED inflight
    BY <1>1 DEF vars, pfVars
  <2> QED BY <1>1, <2>1, VarsAlone
<1>3. LoopTypeOK /\ EngineTypeOK /\ kernels \in Seq(Kernel) /\ KernelInv /\ PrefetchInv
  BY DEF EngineInv, LoopTypeOK
<1>4. /\ g \in Kernel /\ g = kernels[1] /\ 1 \in DOMAIN kernels
      /\ kernels' \in Seq(Kernel)
      /\ \A i \in DOMAIN kernels' : i + 1 \in DOMAIN kernels /\ kernels'[i] = kernels[i + 1]
  BY <1>1, <1>3
<1>5. g.slot \in 1 .. Count /\ g.key \in Keys /\ g.token \in 0 .. MaxTokens - 1
  BY <1>4 DEF Kernel
<1>6. HoldsWeights(mem, g.key, g.off) = TRUE
  <2>1. /\ g.key \in Resident /\ g.off = blocks[g.key].off
        /\ Quiet(g.key, g.off, blocks[g.key].size, Jobs, mem)
    BY <1>3, <1>4 DEF KernelInv
  <2>2. blocks[g.key].size = BlobSize[g.key]
    BY <1>3, <2>1 DEF PrefetchInv, CopyInv
  <2> QED BY <2>1, <2>2 DEF Quiet, LoadedAt, HoldsWeights
<1> HIDE DEF g
<1>7. PICK o : /\ o = Output(g.key, g.token, HoldsWeights(mem, g.key, g.off))
               /\ o \in Outputs /\ o.own = TRUE
  BY <1>5, <1>6, OutputFacts
<1>8. /\ y' \in [1 .. Count -> Outputs \cup {NoOutput, Garbage}]
      /\ \A i \in 1 .. Count : y'[i] = y[i] \/ y'[i] = o
  BY <1>1, <1>3, <1>5, <1>7 DEF EngineTypeOK
<1>9. LoopTypeOK'
  <2>1. MoreRuns' <=> MoreRuns
    BY <1>1 DEF MoreRuns
  <2> QED BY <1>1, <1>2, <1>3, <1>4, <1>8, <2>1, TypeStep DEF LoopTypeOK, EngineTypeOK
<1>10. KernelInv'
  <2>1. phase = "compute"
    BY <1>1, <1>3 DEF KernelInv
  <2> QED BY <1>1, <1>2, <1>3, <1>4, <2>1 DEF KernelInv
<1>11. OutputsFromOwnWeights'
  BY <1>7, <1>8 DEF EngineInv, OutputsFromOwnWeights
<1>12. StagedInv'
  BY <1>1, <1>2 DEF EngineInv, StagedInv, KeyAt
<1>13. PendingInv'
  <2>1. \A i : KeyAt(i)' = KeyAt(i)
    BY <1>1 DEF KeyAt
  <2>2. \A i : JobOf(KeyAt(i))' = JobOf(KeyAt(i))
    BY <1>2, <2>1 DEF JobOf
  <2> QED BY <1>1, <1>2, <2>1, <2>2 DEF EngineInv, PendingInv
<1> QED
  BY <1>2, <1>9, <1>10, <1>11, <1>12, <1>13 DEF EngineInv
------------------------------------------------------------------------------
(***************************************************************************)
(* Steps that run the queue                                                 *)
(***************************************************************************)
\* The positions of this layer's transfers stay.
LEMMA KeysAlone ==
    ASSUME UNCHANGED <<layer, experts>>, NEW c, Runs(c)
    PROVE  /\ DOMAIN Jobs' \subseteq DOMAIN Jobs
           /\ \A i : KeyAt(i)' = KeyAt(i)
           /\ \A i : KeyAt(i) \in DOMAIN key_to_idx => JobOf(KeyAt(i))' = JobOf(KeyAt(i))
<1>1. \A i : KeyAt(i)' = KeyAt(i)
  BY DEF KeyAt
<1>2. ASSUME NEW i, KeyAt(i) \in DOMAIN key_to_idx
      PROVE  JobOf(KeyAt(i))' = JobOf(KeyAt(i))
  <2>1. PICK x : x = KeyAt(i)
    OBVIOUS
  <2>2. x \in DOMAIN key_to_idx /\ KeyAt(i)' = x
    BY <1>1, <1>2, <2>1
  <2>3. JobOf(x)' = JobOf(x)
    BY <2>2 DEF Runs
  <2>4. JobOf(KeyAt(i))' = JobOf(x)'
    BY <2>2 DEF JobOf
  <2> QED BY <2>1, <2>3, <2>4
<1>3. DOMAIN Jobs' \subseteq DOMAIN Jobs
  BY DEF Runs, Left
<1> QED
  BY <1>1, <1>2, <1>3

\* The blocks of the queued kernels stay quiet.
LEMMA KernelsQuiet ==
    ASSUME EngineInv, SameBlocks,
           \A x \in Resident :
                Quiet(x, blocks[x].off, blocks[x].size, Jobs, mem)
                  => Quiet(x, blocks[x].off, blocks[x].size, Jobs', mem')
    PROVE  \A i \in DOMAIN kernels :
             /\ kernels[i].key \in Resident'
             /\ kernels[i].off = blocks'[kernels[i].key].off
             /\ Quiet(kernels[i].key, kernels[i].off, blocks'[kernels[i].key].size, Jobs', mem')
<1> SUFFICES ASSUME NEW i \in DOMAIN kernels
             PROVE  /\ kernels[i].key \in Resident'
                    /\ kernels[i].off = blocks'[kernels[i].key].off
                    /\ Quiet(kernels[i].key, kernels[i].off, blocks'[kernels[i].key].size,
                             Jobs', mem')
  OBVIOUS
<1>1. PICK x : x = kernels[i].key
  OBVIOUS
<1>2. x \in Resident /\ kernels[i].off = blocks[x].off
      /\ Quiet(x, blocks[x].off, blocks[x].size, Jobs, mem)
  BY <1>1 DEF EngineInv, KernelInv
<1>3. /\ Quiet(x, blocks[x].off, blocks[x].size, Jobs', mem') /\ x \in Resident'
      /\ blocks'[x].off = blocks[x].off /\ blocks'[x].size = blocks[x].size
  BY <1>2 DEF SameBlocks
<1> QED
  BY <1>1, <1>2, <1>3

\* The copy engine works in every phase of the host.
LEMMA CopyStepInv ==
    ASSUME EngineInv, CopyStep PROVE EngineInv'
<1>1. /\ DeviceCopy /\ PrefetchInv
      /\ UNCHANGED <<num_tokens, phase, token, layer, experts, k, staging, y, kernels, buf, cur,
                     estats, runs>>
  BY DEF CopyStep, engineVars, EngineInv
<1>2. CacheInv' /\ SameBlocks
  BY <1>1, SameCache DEF DeviceCopy, PrefetchInv
<1>3. PrefetcherTypeOK' /\ (\E c \in Nat : Runs(c)) /\ ready' = ready
  BY <1>1, DeviceCopyRuns DEF DeviceCopy, PrefetchInv
<1>4. PICK c \in Nat : Runs(c)
  BY <1>3
<1>5. /\ PrefetchInv'
      /\ \A x \in Resident :
           Quiet(x, blocks[x].off, blocks[x].size, Jobs, mem)
             => Quiet(x, blocks[x].off, blocks[x].size, Jobs', mem')
  BY <1>1, <1>2, <1>3, <1>4, QueueRuns
<1>6. LoopTypeOK'
  BY <1>1, <1>5, TypeStep DEF EngineInv, LoopTypeOK, EngineTypeOK, MoreRuns
<1>7. KernelInv'
  <2>1. \A i \in DOMAIN kernels :
          /\ kernels[i].key \in Resident'
          /\ kernels[i].off = blocks'[kernels[i].key].off
          /\ Quiet(kernels[i].key, kernels[i].off, blocks'[kernels[i].key].size, Jobs', mem')
    BY <1>2, <1>5, KernelsQuiet
  <2> QED BY <1>1, <2>1 DEF EngineInv, KernelInv
<1>8. /\ DOMAIN Jobs' \subseteq DOMAIN Jobs
      /\ \A i : KeyAt(i)' = KeyAt(i)
      /\ \A i : KeyAt(i) \in DOMAIN key_to_idx => JobOf(KeyAt(i))' = JobOf(KeyAt(i))
      /\ LastJob' = LastJob /\ key_to_idx' = key_to_idx
  BY <1>1, <1>4, KeysAlone DEF Runs
<1>9. StagedInv'
  BY <1>1, <1>2, <1>8 DEF EngineInv, StagedInv, SameBlocks
<1>10. PendingInv'
  BY <1>1, <1>8 DEF EngineInv, PendingInv
<1>11. OutputsFromOwnWeights'
  BY <1>1 DEF EngineInv, OutputsFromOwnWeights
<1> QED
  BY <1>5, <1>6, <1>7, <1>9, <1>10, <1>11 DEF EngineInv

\* The host waits for the k-th expert.
LEMMA WaitedStep ==
    ASSUME EngineInv, phase = "compute", k <= Count, WaitStep(<<layer, experts[k]>>),
           CacheInv', SameBlocks, UNCHANGED <<phase, layer, experts, staging>>, k' = k + 1
    PROVE  /\ PrefetchInv' /\ StagedInv' /\ PendingInv'
           /\ KeyAt(k) \in Keys
           /\ KeyAt(k) \in Resident
                => Quiet(KeyAt(k), blocks[KeyAt(k)].off, blocks[KeyAt(k)].size, Jobs', mem')
           /\ \A i \in DOMAIN kernels :
                /\ kernels[i].key \in Resident'
                /\ kernels[i].off = blocks'[kernels[i].key].off
                /\ Quiet(kernels[i].key, kernels[i].off, blocks'[kernels[i].key].size,
                         Jobs', mem')
<1>1. PrefetchInv /\ LoopTypeOK /\ StagedInv /\ PendingInv
  BY DEF EngineInv
<1>2. k \in 1 .. Count /\ KeyAt(k) \in Keys
  <2>1. k \in 1 .. Count
    BY <1>1, CountFacts DEF LoopTypeOK, EngineTypeOK
  <2> QED BY <1>1, <2>1, LoopFacts
<1>3. PICK x : x = KeyAt(k)
  OBVIOUS
<1>4. x \in Keys /\ WaitStep(x)
  <2>1. WaitStep(KeyAt(k))
    BY DEF KeyAt
  <2> QED BY ONLY <1>2, <1>3, <2>1
<1>5. /\ PrefetchInv'
      /\ x \in Resident \cap DOMAIN key_to_idx
           => Quiet(x, blocks[x].off, blocks[x].size, Jobs', mem')
      /\ \A z \in Resident :
           Quiet(z, blocks[z].off, blocks[z].size, Jobs, mem)
             => Quiet(z, blocks[z].off, blocks[z].size, Jobs', mem')
  BY <1>1, <1>4, WaitStepInv
<1>6. /\ \E c \in Nat : Runs(c)
      /\ x \in DOMAIN key_to_idx => \A p \in DOMAIN Jobs' : p > JobOf(x)
  BY <1>1, <1>4, WaitRuns DEF PrefetchInv
<1>7. PICK c \in Nat : Runs(c)
  BY <1>6
<1>8. /\ DOMAIN Jobs' \subseteq DOMAIN Jobs
      /\ \A i : KeyAt(i)' = KeyAt(i)
      /\ \A i : KeyAt(i) \in DOMAIN key_to_idx => JobOf(KeyAt(i))' = JobOf(KeyAt(i))
      /\ key_to_idx' = key_to_idx /\ Resident' = Resident
  BY <1>7, KeysAlone DEF Runs, SameBlocks
<1>9. KeyAt(k) \in Resident => KeyAt(k) \in DOMAIN key_to_idx
  BY <1>1, <1>2 DEF StagedInv
<1>10. StagedInv'
  BY <1>1, <1>8 DEF StagedInv
<1>11. PendingInv'
  <2>1. ASSUME NEW p \in DOMAIN Jobs'
        PROVE  \E i \in 1 .. Count :
                  i >= k + 1 /\ KeyAt(i) \in DOMAIN key_to_idx /\ p <= JobOf(KeyAt(i))
    <3>1. PICK i \in 1 .. Count :
            i >= k /\ KeyAt(i) \in DOMAIN key_to_idx /\ p <= JobOf(KeyAt(i))
      BY <1>1, <1>8 DEF PendingInv
    <3>2. i # k
      <4>1. SUFFICES ASSUME i = k PROVE FALSE
        OBVIOUS
      <4>2. x \in DOMAIN key_to_idx /\ p <= JobOf(x)
        BY <1>3, <3>1, <4>1
      <4>3. p > JobOf(x)
        BY <1>6, <4>2
      <4>4. p \in Nat /\ JobOf(x) \in Nat
        <5>1. DOMAIN Jobs \subseteq 1 .. LastJob /\ LastJob \in Nat
          BY <1>1, JobsFacts DEF PrefetchInv
        <5>2. JobOf(x) \in 1 .. LastJob
          BY <1>1, <4>2 DEF PrefetchInv, CopyInv
        <5> QED BY <1>8, <5>1, <5>2
      <4> QED BY <4>2, <4>3, <4>4
    <3>3. i >= k + 1
      BY <1>2, <3>1, <3>2, CountFacts
    <3> QED BY <3>1, <3>3
  <2>2. \A p \in DOMAIN Jobs' :
          \E i \in 1 .. Count :
             i >= k' /\ KeyAt(i)' \in DOMAIN key_to_idx' /\ p <= JobOf(KeyAt(i))'
    BY <1>8, <2>1
  <2> QED BY <2>2 DEF PendingInv
<1>12. \A i \in DOMAIN kernels :
          /\ kernels[i].key \in Resident'
          /\ kernels[i].off = blocks'[kernels[i].key].off
          /\ Quiet(kernels[i].key, kernels[i].off, blocks'[kernels[i].key].size, Jobs', mem')
  BY <1>5, KernelsQuiet
<1>13. KeyAt(k) \in Resident
         => Quiet(KeyAt(k), blocks[KeyAt(k)].off, blocks[KeyAt(k)].size, Jobs', mem')
  BY <1>3, <1>5, <1>9
<1> QED
  BY <1>2, <1>5, <1>10, <1>11, <1>12, <1>13

\* An expert that is not resident is waited for and left out.
LEMMA SkipExpertInv ==
    ASSUME EngineInv, SkipExpert PROVE EngineInv'
<1>1. /\ phase = "compute" /\ k <= Count /\ WaitStep(<<layer, experts[k]>>) /\ k' = k + 1
      /\ UNCHANGED <<cacheVars, phase, token, layer, experts, staging, y, kernels, buf, cur, runs,
                     num_tokens>>
  BY DEF SkipExpert, Wait
<1>2. CacheInv' /\ SameBlocks
  BY <1>1, SameCache DEF EngineInv, PrefetchInv
<1>3. /\ PrefetchInv' /\ StagedInv' /\ PendingInv'
      /\ \A i \in DOMAIN kernels :
           /\ kernels[i].key \in Resident'
           /\ kernels[i].off = blocks'[kernels[i].key].off
           /\ Quiet(kernels[i].key, kernels[i].off, blocks'[kernels[i].key].size, Jobs', mem')
  BY <1>1, <1>2, WaitedStep
<1>4. LoopTypeOK'
  <2>1. LoopTypeOK /\ EngineTypeOK
    BY DEF EngineInv, LoopTypeOK
  <2>2. k' \in 1 .. Count + 1
    BY <1>1, <2>1, CountFacts DEF EngineTypeOK
  <2>3. MoreRuns'
    BY <1>1, <2>1 DEF MoreRuns, LoopTypeOK
  <2> QED BY <1>1, <1>3, <2>1, <2>2, <2>3, TypeStep DEF LoopTypeOK, EngineTypeOK
<1>5. KernelInv' /\ OutputsFromOwnWeights'
  BY <1>1, <1>3 DEF EngineInv, KernelInv, OutputsFromOwnWeights
<1> QED
  BY <1>3, <1>4, <1>5 DEF EngineInv

\* The host computes with the block it just waited for, which is quiet.
LEMMA ComputeMockInv ==
    ASSUME EngineInv, ComputeMock PROVE EngineInv'
<1> DEFINE key == <<layer, experts[k]>>
<1>1. /\ phase = "compute" /\ k <= Count /\ WaitStep(key) /\ k' = k + 1
      /\ key \in Resident /\ Touch(key)
      /\ y' = [y EXCEPT ![k] = Output(key, token, HoldsWeights(mem', key, blocks[key].off))]
      /\ UNCHANGED <<phase, token, layer, experts, staging, kernels, buf, cur, runs, num_tokens>>
  BY DEF ComputeMock
<1>2. LoopTypeOK /\ EngineTypeOK /\ PrefetchInv /\ CacheInv
  BY DEF EngineInv, LoopTypeOK, PrefetchInv
<1>3. k \in 1 .. Count /\ key \in Keys
  <2>1. k \in 1 .. Count
    BY <1>1, <1>2, CountFacts DEF EngineTypeOK
  <2> QED BY <1>1, <1>2, <2>1, LoopFacts DEF KeyAt
<1>4. CacheInv' /\ SameBlocks
  <2>1. PICK x : x = key
    OBVIOUS
  <2>2. x \in Keys /\ Touch(x)
    BY ONLY <1>1, <1>3, <2>1
  <2>3. CacheInv'
    BY <1>2, <2>2, TouchInv
  <2>4. SameBlocks
    <3>1. /\ blocks \in [Resident -> Block] /\ x \in Resident
          /\ blocks' = [blocks EXCEPT ![x].last_used = tick + 1]
      BY <1>2, <2>2 DEF Touch, CacheInv, CacheTypeOK
    <3> QED BY <3>1 DEF SameBlocks, Resident, Block
  <2> QED BY <2>3, <2>4
<1>5. /\ PrefetchInv' /\ StagedInv' /\ PendingInv'
      /\ Quiet(key, blocks[key].off, blocks[key].size, Jobs', mem')
      /\ \A i \in DOMAIN kernels :
           /\ kernels[i].key \in Resident'
           /\ kernels[i].off = blocks'[kernels[i].key].off
           /\ Quiet(kernels[i].key, kernels[i].off, blocks'[kernels[i].key].size, Jobs', mem')
  BY <1>1, <1>4, WaitedStep DEF KeyAt
<1>6. HoldsWeights(mem', key, blocks[key].off) = TRUE
  <2>1. blocks[key].size = BlobSize[key]
    BY <1>1, <1>2 DEF PrefetchInv, CopyInv
  <2> HIDE DEF key
  <2> QED BY <1>5, <2>1 DEF Quiet, LoadedAt, HoldsWeights
<1> HIDE DEF key
<1>7. PICK o : /\ o = Output(key, token, HoldsWeights(mem', key, blocks[key].off))
               /\ o \in Outputs /\ o.own = TRUE
  <2>1. token \in 0 .. MaxTokens - 1
    BY <1>2, LoopFacts
  <2> QED BY <1>3, <1>6, <2>1, OutputFacts
<1>8. /\ y' \in [1 .. Count -> Outputs \cup {NoOutput, Garbage}]
      /\ \A i \in 1 .. Count : y'[i] = y[i] \/ y'[i] = o
  BY <1>1, <1>2, <1>3, <1>7 DEF EngineTypeOK
<1>9. LoopTypeOK'
  <2>1. k' \in 1 .. Count + 1
    BY <1>1, <1>3, CountFacts
  <2>2. MoreRuns'
    BY <1>1, <1>2 DEF MoreRuns, LoopTypeOK
  <2> QED BY <1>1, <1>2, <1>5, <1>8, <2>1, <2>2, TypeStep DEF LoopTypeOK, EngineTypeOK
<1>10. KernelInv'
  BY <1>1, <1>5 DEF KernelInv
<1>11. OutputsFromOwnWeights'
  BY <1>7, <1>8 DEF EngineInv, OutputsFromOwnWeights
<1> QED
  BY <1>5, <1>9, <1>10, <1>11 DEF EngineInv

\* A kernel is queued for the block the host just waited for, which is quiet.
LEMMA LaunchKernelInv ==
    ASSUME EngineInv, LaunchKernel PROVE EngineInv'
<1> DEFINE key == <<layer, experts[k]>>
           g == [slot |-> k, key |-> key, token |-> token, off |-> blocks[key].off]
<1>1. /\ phase = "compute" /\ k <= Count /\ WaitStep(key) /\ k' = k + 1
      /\ key \in Resident /\ kernels' = Append(kernels, g)
      /\ UNCHANGED <<cacheVars, phase, token, layer, experts, staging, y, buf, cur, runs, num_tokens>>
  BY DEF LaunchKernel, Wait
<1>2. LoopTypeOK /\ EngineTypeOK /\ PrefetchInv /\ CacheInv /\ kernels \in Seq(Kernel)
  BY DEF EngineInv, LoopTypeOK, PrefetchInv
<1>3. k \in 1 .. Count /\ key \in Keys
  <2>1. k \in 1 .. Count
    BY <1>1, <1>2, CountFacts DEF EngineTypeOK
  <2> QED BY <1>1, <1>2, <2>1, LoopFacts DEF KeyAt
<1>4. CacheInv' /\ SameBlocks
  BY <1>1, <1>2, SameCache
<1>5. /\ PrefetchInv' /\ StagedInv' /\ PendingInv'
      /\ Quiet(key, blocks[key].off, blocks[key].size, Jobs', mem')
      /\ \A i \in DOMAIN kernels :
           /\ kernels[i].key \in Resident'
           /\ kernels[i].off = blocks'[kernels[i].key].off
           /\ Quiet(kernels[i].key, kernels[i].off, blocks'[kernels[i].key].size, Jobs', mem')
  BY <1>1, <1>4, WaitedStep DEF KeyAt
<1>6. g \in Kernel /\ g.key = key /\ g.off = blocks[key].off
  <2>1. token \in 0 .. MaxTokens - 1
    BY <1>2, LoopFacts
  <2>2. blocks[key].off \in 0 .. Cap - 1
    <3> HIDE DEF key
    <3> QED BY <1>1, <1>2, BlockFacts
  <2> HIDE DEF key
  <2> QED BY <1>3, <2>1, <2>2 DEF Kernel
<1>7. /\ key \in Resident' /\ blocks'[key].off = blocks[key].off
      /\ blocks'[key].size = blocks[key].size
  BY <1>1, <1>4 DEF SameBlocks
<1> HIDE DEF key, g
<1>8. /\ kernels' \in Seq(Kernel) /\ DOMAIN kernels' = 1 .. Len(kernels) + 1
      /\ Len(kernels) \in Nat /\ DOMAIN kernels = 1 .. Len(kernels)
      /\ \A i \in 1 .. Len(kernels) : kernels'[i] = kernels[i]
      /\ kernels'[Len(kernels) + 1] = g
  BY <1>1, <1>2, <1>6
<1>9. LoopTypeOK'
  <2>1. k' \in 1 .. Count + 1
    BY <1>1, <1>3, CountFacts
  <2>2. MoreRuns'
    BY <1>1, <1>2 DEF MoreRuns, LoopTypeOK
  <2> QED BY <1>1, <1>2, <1>5, <1>8, <2>1, <2>2, TypeStep DEF LoopTypeOK, EngineTypeOK
<1>10. KernelInv'
  <2>1. ASSUME NEW i \in DOMAIN kernels'
        PROVE  /\ kernels'[i].key \in Resident'
               /\ kernels'[i].off = blocks'[kernels'[i].key].off
               /\ Quiet(kernels'[i].key, kernels'[i].off, blocks'[kernels'[i].key].size,
                        Jobs', mem')
    <3>1. (i \in DOMAIN kernels /\ kernels'[i] = kernels[i]) \/ kernels'[i] = g
      BY <1>8
    <3>2. CASE kernels'[i] = g
      BY <1>5, <1>6, <1>7, <3>2
    <3>3. CASE i \in DOMAIN kernels /\ kernels'[i] = kernels[i]
      BY <1>5, <3>3
    <3> QED BY <3>1, <3>2, <3>3
  <2> QED BY <1>1, <2>1 DEF KernelInv
<1>11. OutputsFromOwnWeights'
  BY <1>1 DEF EngineInv, OutputsFromOwnWeights
<1> QED
  BY <1>5, <1>9, <1>10, <1>11 DEF EngineInv
------------------------------------------------------------------------------
(***************************************************************************)
(* Staging                                                                  *)
(***************************************************************************)

\* The k-th expert is staged or passed over; the loop goes on, or the compute loop
\* starts.
LEMMA StagedOn ==
    ASSUME EngineInv, phase = "stage", NextStaged, PrefetchInv',
           UNCHANGED <<token, layer, experts, y, kernels, buf, cur, runs, num_tokens>>,
           DOMAIN staging' \subseteq Experts,
           \A x \in Resident' : x[2] \in DOMAIN staging',
           \A i \in 1 .. Count :
              i <= k /\ KeyAt(i)' \in Resident' => KeyAt(i)' \in DOMAIN key_to_idx',
           DOMAIN Jobs' # {} =>
              \E i \in 1 .. Count : /\ i <= k /\ KeyAt(i)' \in DOMAIN key_to_idx'
                                    /\ JobOf(KeyAt(i))' = LastJob'
    PROVE  EngineInv'
<1>1. LoopTypeOK /\ EngineTypeOK /\ KernelInv /\ kernels = <<>>
  BY DEF EngineInv, LoopTypeOK, KernelInv
<1>2. k \in 1 .. Count /\ Count \in Nat
  BY <1>1, CountFacts DEF LoopTypeOK, EngineTypeOK
<1>3. \/ k < Count /\ k' = k + 1 /\ phase' = "stage"
      \/ k = Count /\ k' = 1 /\ phase' = "compute"
  BY DEF NextStaged
<1>4. LoopTypeOK'
  <2>1. k' \in 1 .. Count + 1 /\ (phase' = "stage" => k' <= Count)
    BY <1>2, <1>3
  <2>2. MoreRuns'
    BY <1>1 DEF MoreRuns, LoopTypeOK
  <2> QED BY <1>1, <1>3, <2>1, <2>2, TypeStep DEF LoopTypeOK, EngineTypeOK
<1>5. KernelInv' /\ OutputsFromOwnWeights'
  BY <1>1 DEF EngineInv, KernelInv, OutputsFromOwnWeights
<1>6. \A i \in 1 .. Count : phase' = "compute" \/ i < k' => i <= k
  BY <1>2, <1>3
<1>7. StagedInv'
  BY <1>3, <1>6 DEF StagedInv
<1>8. PendingInv'
  <2>1. phase' \in {"stage", "compute"}
    BY <1>3
  <2>2. ASSUME phase' = "stage", DOMAIN Jobs' # {}
        PROVE  \E i \in 1 .. Count :
                  i < k' /\ KeyAt(i)' \in DOMAIN key_to_idx' /\ JobOf(KeyAt(i))' = LastJob'
    <3>1. \A i \in 1 .. Count : i <= k => i < k'
      BY <1>2, <1>3, <2>2
    <3> QED BY <2>2, <3>1
  <2>3. ASSUME phase' = "compute", NEW p \in DOMAIN Jobs'
        PROVE  \E i \in 1 .. Count :
                  i >= k' /\ KeyAt(i)' \in DOMAIN key_to_idx' /\ p <= JobOf(KeyAt(i))'
    <3>1. k' = 1 /\ \A i \in 1 .. Count : i >= k'
      BY <1>2, <1>3, <2>3
    <3>2. p <= LastJob'
      <4>1. PrefetcherTypeOK'
        BY DEF PrefetchInv
      <4>2. DOMAIN Jobs' \subseteq 1 .. LastJob' /\ LastJob' \in Nat
        BY <4>1, JobsNext
      <4> QED BY <4>2
    <3>3. DOMAIN Jobs' # {}
      BY <2>3
    <3>4. PICK i \in 1 .. Count : KeyAt(i)' \in DOMAIN key_to_idx' /\ JobOf(KeyAt(i))' = LastJob'
      BY <3>3
    <3> QED BY <3>1, <3>2, <3>4
  <2> QED BY <2>1, <2>2, <2>3 DEF PendingInv
<1> QED
  BY <1>4, <1>5, <1>7, <1>8 DEF EngineInv

\* An expert the shard lacks was never staged, and is not resident.
LEMMA StageMissingInv ==
    ASSUME EngineInv, StageMissing PROVE EngineInv'
<1>1. /\ phase = "stage" /\ ~CanStage(experts[k]) /\ NextStaged
      /\ UNCHANGED <<vars, token, layer, experts, staging, y, kernels, buf, cur, estats, runs,
                     num_tokens>>
  BY DEF StageMissing
<1>2. /\ PrefetchInv' /\ Jobs' = Jobs /\ Resident' = Resident /\ LastJob' = LastJob
      /\ UNCHANGED <<key_to_idx, use_cuda, inflight>>
  <2>1. UNCHANGED inflight
    BY <1>1 DEF vars, pfVars
  <2> QED BY <1>1, <2>1, VarsAlone
<1>3. LoopTypeOK /\ EngineTypeOK /\ StagedInv /\ PendingInv
  BY DEF EngineInv, LoopTypeOK
<1>4. k \in 1 .. Count /\ Count \in Nat
  BY <1>1, <1>3, CountFacts DEF LoopTypeOK, EngineTypeOK
<1>5. \A i : KeyAt(i)' = KeyAt(i) /\ JobOf(KeyAt(i))' = JobOf(KeyAt(i))
  BY <1>1, <1>2 DEF KeyAt, JobOf
<1>6. KeyAt(k) \notin Resident
  BY <1>1, <1>3 DEF StagedInv, CanStage, KeyAt
<1>7. \A i \in 1 .. Count :
        i <= k /\ KeyAt(i)' \in Resident' => KeyAt(i)' \in DOMAIN key_to_idx'
  <2>1. \A i \in 1 .. Count : i <= k => i < k \/ i = k
    BY <1>4
  <2> QED BY <1>1, <1>2, <1>3, <1>5, <1>6, <2>1 DEF StagedInv
<1>8. DOMAIN Jobs' # {} =>
        \E i \in 1 .. Count : /\ i <= k /\ KeyAt(i)' \in DOMAIN key_to_idx'
                              /\ JobOf(KeyAt(i))' = LastJob'
  <2>1. \A i \in 1 .. Count : i < k => i <= k
    BY <1>4
  <2> QED BY <1>1, <1>2, <1>3, <1>5, <2>1 DEF PendingInv
<1>9. /\ DOMAIN staging' \subseteq Experts
      /\ \A x \in Resident' : x[2] \in DOMAIN staging'
  BY <1>1, <1>2, <1>3 DEF StagedInv, EngineTypeOK
<1> QED
  BY <1>1, <1>2, <1>7, <1>8, <1>9, StagedOn

\* The k-th expert's transfer becomes the last of the queue.
LEMMA StageExpertInv ==
    ASSUME CudaFails = FALSE, EngineInv, StageExpert PROVE EngineInv'
<1>1. /\ phase = "stage" /\ NextStaged
      /\ staging' = [e \in DOMAIN staging \cup {experts[k]} |->
                       IF e \in DOMAIN staging THEN staging[e] ELSE AvailLayer(0)]
      /\ Prefetch(<<layer, experts[k]>>, TopK - (k - 1))
      /\ UNCHANGED <<token, layer, experts, y, kernels, buf, cur, estats, runs, num_tokens>>
  BY DEF StageExpert
<1>2. LoopTypeOK /\ EngineTypeOK /\ StagedInv /\ PendingInv /\ PrefetchInv
  BY DEF EngineInv, LoopTypeOK
<1>3. k \in 1 .. Count /\ Count \in Nat /\ experts[k] \in Experts /\ KeyAt(k) \in Keys
  <2>1. k \in 1 .. Count /\ Count \in Nat
    BY <1>1, <1>2, CountFacts DEF LoopTypeOK, EngineTypeOK
  <2> QED BY <1>1, <1>2, <2>1, LoopFacts
<1>4. TopK - (k - 1) \in Priorities
  BY <1>3, CountFacts, EngineAssumption
<1>5. PICK x, pr : x = KeyAt(k) /\ pr = TopK - (k - 1)
  OBVIOUS
<1>6. x \in Keys /\ pr \in Priorities /\ Prefetch(x, pr) /\ x[2] = experts[k]
  <2>1. Prefetch(KeyAt(k), TopK - (k - 1)) /\ KeyAt(k)[2] = experts[k]
    BY <1>1 DEF KeyAt
  <2> QED BY ONLY <1>3, <1>4, <1>5, <2>1
<1>7. /\ PrefetchInv'
      /\ out'.ok => /\ DOMAIN key_to_idx' = DOMAIN key_to_idx \cup {x}
                    /\ LastJob' = LastJob + 1 /\ JobOf(x)' = LastJob + 1
      /\ ~out'.ok => /\ key_to_idx' = key_to_idx /\ Jobs' = Jobs /\ LastJob' = LastJob
                     /\ Resident' \subseteq Resident
                     /\ \A z : JobOf(z)' = JobOf(z)
      /\ Resident' \subseteq Resident \cup {x}
      /\ out'.ok \in BOOLEAN /\ (x \in Resident => out'.ok)
  BY <1>2, <1>6, PrefetchStepInv
<1>8. \A i : KeyAt(i)' = KeyAt(i)
  BY <1>1 DEF KeyAt
<1>9. \A z \in Resident' : z[2] \in DOMAIN staging'
  BY <1>1, <1>2, <1>6, <1>7 DEF StagedInv
<1>10. DOMAIN staging' \subseteq Experts
  BY <1>1, <1>2, <1>3 DEF EngineTypeOK
<1>11. \A i \in 1 .. Count : i <= k => i < k \/ i = k
  BY <1>3
<1>12. ASSUME NEW i \in 1 .. Count, i <= k, KeyAt(i)' \in Resident'
       PROVE  KeyAt(i)' \in DOMAIN key_to_idx'
  <2>1. CASE KeyAt(i) = x
    <3>1. out'.ok
      BY <1>7, <1>8, <1>12, <2>1
    <3> QED BY <1>7, <1>8, <2>1, <3>1
  <2>2. CASE KeyAt(i) # x
    <3>1. i < k /\ KeyAt(i) \in Resident
      BY <1>5, <1>7, <1>8, <1>11, <1>12, <2>2
    <3>2. KeyAt(i) \in DOMAIN key_to_idx
      BY <1>1, <1>2, <3>1 DEF StagedInv
    <3> QED BY <1>7, <1>8, <3>2
  <2> QED BY <2>1, <2>2
<1>13. ASSUME DOMAIN Jobs' # {}
       PROVE  \E i \in 1 .. Count : /\ i <= k /\ KeyAt(i)' \in DOMAIN key_to_idx'
                                    /\ JobOf(KeyAt(i))' = LastJob'
  <2>1. CASE out'.ok
    <3>1. PICK i \in 1 .. Count : i = k /\ i <= k
      BY <1>3
    <3>2. KeyAt(i)' = x
      BY <1>5, <1>8, <3>1
    <3>3. JobOf(KeyAt(i))' = JobOf(x)'
      BY <3>2 DEF JobOf
    <3> QED BY <1>7, <2>1, <3>1, <3>2, <3>3
  <2>2. CASE ~out'.ok
    <3>1. PICK i \in 1 .. Count :
            i < k /\ KeyAt(i) \in DOMAIN key_to_idx /\ JobOf(KeyAt(i)) = LastJob
      BY <1>1, <1>2, <1>7, <1>13, <2>2 DEF PendingInv
    <3>2. PICK z : z = KeyAt(i)
      OBVIOUS
    <3>3. KeyAt(i)' = z /\ JobOf(z) = LastJob /\ z \in DOMAIN key_to_idx
      BY <1>8, <3>1, <3>2
    <3>4. JobOf(KeyAt(i))' = JobOf(z)'
      BY <3>3 DEF JobOf
    <3>5. JobOf(KeyAt(i))' = LastJob'
      BY <1>7, <2>2, <3>3, <3>4
    <3>6. i <= k
      BY <1>3, <3>1
    <3> QED BY <1>7, <2>2, <3>3, <3>5, <3>6
  <2> QED BY <1>7, <2>1, <2>2
<1> QED
  BY <1>1, <1>7, <1>9, <1>10, <1>12, <1>13, StagedOn
------------------------------------------------------------------------------
(***************************************************************************)
(* The specification                                                        *)
(***************************************************************************)
\* Nothing is resident, queued or computed.
LEMMA InitEngineInv == EngineInit => EngineInv
<1> SUFFICES ASSUME EngineInit PROVE EngineInv
  OBVIOUS
<1>1. /\ PrefetchInv /\ phase = "idle" /\ token = 0 /\ layer = 0 /\ experts = <<>> /\ k = 1
      /\ staging = [e \in {} |-> 0] /\ kernels = <<>> /\ cur = 0 /\ runs = 0
      /\ buf = [i \in 0 .. 1 |-> Prompt] /\ num_tokens \in TokenCounts
      /\ y = [i \in 1 .. Count |-> IF use_cuda THEN Garbage ELSE NoOutput]
  BY InitPrefetchInv DEF EngineInit
<1>2. num_tokens \in 1 .. MaxTokens /\ 0 \in Layers /\ 1 \in 1 .. Count + 1
  BY <1>1, EngineAssumption, CountFacts DEF Layers
<1>3. LoopTypeOK
  <2>1. TypeOK
    BY <1>1 DEF PrefetchInv, CacheInv, TypeOK
  <2>2. y \in [1 .. Count -> Outputs \cup {NoOutput, Garbage}]
    BY <1>1
  <2>3. kernels \in Seq(Kernel) /\ DOMAIN staging \subseteq Experts
    BY <1>1
  <2>4. 0 \in 0 .. num_tokens - 1 /\ 0 \in 0 .. MaxTokens /\ 0 \in 0 .. 1
    BY <1>2, CountFacts
  <2> QED BY <1>1, <1>2, <2>1, <2>2, <2>3, <2>4 DEF LoopTypeOK, EngineTypeOK
<1>4. Resident = {} /\ DOMAIN Jobs = {}
  <2>1. DOMAIN blocks = {} /\ inflight = <<>> /\ stream = <<>> /\ performed = 0
    BY DEF EngineInit, Init, CacheInit, PrefetcherInit
  <2>2. DOMAIN inflight = {} /\ performed + 1 .. performed + Len(stream) = {}
    BY <2>1
  <2> QED BY <2>1, <2>2 DEF Resident, Jobs
<1>5. StagedInv /\ KernelInv /\ PendingInv
  BY <1>1, <1>4 DEF StagedInv, KernelInv, PendingInv
<1>6. OutputsFromOwnWeights
  BY <1>1 DEF OutputsFromOwnWeights
<1> QED
  BY <1>1, <1>3, <1>5, <1>6 DEF EngineInv

\* Every step keeps the invariant.
LEMMA NextEngineInv ==
    ASSUME CudaFails = FALSE PROVE EngineInv /\ [EngineNext]_allVars => EngineInv'
<1> SUFFICES ASSUME EngineInv, [EngineNext]_allVars PROVE EngineInv'
  OBVIOUS
<1>1. CASE HostStep
  BY <1>1, GenerateInv, PredictInv, StageExpertInv, StageMissingInv, ComputeMockInv,
     LaunchKernelInv, SkipExpertInv, EndLayerInv, EndTokenInv, GatherInv DEF HostStep
<1>2. CASE CopyStep
  BY <1>2, CopyStepInv
<1>3. CASE RunKernel
  BY <1>3, RunKernelInv
<1>4. CASE UNCHANGED allVars
  BY <1>4, IdleInv
<1> QED
  BY <1>1, <1>2, <1>3, <1>4 DEF EngineNext

\* The invariant holds throughout generate(), on both backends, as long as
\* cudaMemcpyAsync and cudaEventCreate do not fail (engine.cpp:39-111, 211-302).
THEOREM EngineInvariant ==
    ASSUME CudaFails = FALSE PROVE EngineSpec => []EngineInv
<1>1. EngineInit => EngineInv
  BY InitEngineInv
<1>2. EngineInv /\ [EngineNext]_allVars => EngineInv'
  BY NextEngineInv
<1> QED
  BY <1>1, <1>2, PTL DEF EngineSpec

\* The loop's counters, buffers and outputs stay within their types; in particular
\* the layer and token indices stay in range and the number of calls within bound
\* (engine.cpp:211-262).
THEOREM EngineTypeCorrect ==
    ASSUME CudaFails = FALSE PROVE EngineSpec => []EngineTypeOK
<1>1. EngineInv => EngineTypeOK
  BY DEF EngineInv, LoopTypeOK
<1> QED
  BY <1>1, EngineInvariant, PTL

\* Every expert output is computed from the weights of the expert it is for: after
\* wait() the block is loaded, and stays so until the kernel has run
\* (engine.cpp:86-98, 277-302).
THEOREM EngineOutputs ==
    ASSUME CudaFails = FALSE PROVE EngineSpec => []OutputsFromOwnWeights
<1>1. EngineInv => OutputsFromOwnWeights
  BY DEF EngineInv
<1> QED
  BY <1>1, EngineInvariant, PTL

\* No copy is on its way into the block a queued kernel reads: the copy and the
\* compute stream need no synchronisation of their own (engine.cpp:277-302).
THEOREM EngineKernels ==
    ASSUME CudaFails = FALSE PROVE EngineSpec => []KernelNotUnderCopy
<1>1. EngineInv => KernelNotUnderCopy
  <2> SUFFICES ASSUME EngineInv, NEW i \in DOMAIN kernels, NEW j \in DOMAIN stream
               PROVE  Span(kernels[i].off, BlobSize[kernels[i].key])
                        \cap Span(stream[j].dst, stream[j].nbytes) = {}
    BY DEF KernelNotUnderCopy
  <2>1. PrefetchInv /\ PrefetcherTypeOK /\ CopyInv
    BY DEF EngineInv, PrefetchInv
  <2>2. use_cuda /\ performed \in Nat /\ DOMAIN stream = 1 .. Len(stream) /\ Len(stream) \in Nat
    BY <2>1 DEF CopyInv, PrefetcherTypeOK
  <2>3. /\ DOMAIN Jobs = performed + 1 .. performed + Len(stream)
        /\ \A p \in DOMAIN Jobs : Jobs[p] = stream[p - performed]
    BY <2>1, <2>2, JobsFacts
  <2>4. PICK p \in DOMAIN Jobs : Jobs[p] = stream[j]
    <3>1. PICK p \in Nat : p = performed + j
      BY <2>2
    <3>2. p \in DOMAIN Jobs /\ p - performed = j
      BY <2>2, <2>3, <3>1
    <3> QED BY <2>3, <3>2
  <2>5. PICK x : x = kernels[i].key
    OBVIOUS
  <2>6. x \in Resident /\ Quiet(x, kernels[i].off, blocks[x].size, Jobs, mem)
    BY <2>5 DEF EngineInv, KernelInv
  <2>7. blocks[x].size = BlobSize[x]
    BY <2>1, <2>6 DEF CopyInv
  <2> QED BY <2>4, <2>5, <2>6, <2>7 DEF Quiet, Writes
<1> QED
  BY <1>1, EngineInvariant, PTL

\* When generate() resets the prefetcher no transfer is left to run, because every
\* staged expert is waited for, resident or not (engine.cpp:81-98, 237-240).
THEOREM EngineResetsClean ==
    ASSUME CudaFails = FALSE PROVE EngineSpec => []NothingPendingAtReset
<1>1. EngineInv => NothingPendingAtReset
  <2> SUFFICES ASSUME EngineInv, phase = "gather" PROVE Pending = {}
    BY DEF NothingPendingAtReset
  <2>1. DOMAIN Jobs = {} /\ PrefetcherTypeOK
    BY DEF EngineInv, PendingInv, PrefetchInv
  <2>2. CASE use_cuda
    <3>1. /\ DOMAIN Jobs = performed + 1 .. performed + Len(stream)
          /\ performed \in Nat /\ DOMAIN stream = 1 .. Len(stream) /\ Len(stream) \in Nat
      <4>1. DOMAIN Jobs = performed + 1 .. performed + Len(stream)
        BY <2>1, <2>2, JobsFacts
      <4> QED BY <2>1, <4>1 DEF PrefetcherTypeOK
    <3>2. Len(stream) = 0
      <4>1. SUFFICES ASSUME Len(stream) # 0 PROVE FALSE
        OBVIOUS
      <4>2. performed + 1 \in DOMAIN Jobs
        BY <3>1, <4>1
      <4> QED BY <2>1, <4>2
    <3> QED BY <2>2, <3>1, <3>2 DEF Pending
  <2>3. CASE ~use_cuda
    BY <2>1, <2>3 DEF Pending, Jobs
  <2> QED BY <2>2, <2>3
<1> QED
  BY <1>1, EngineInvariant, PTL
------------------------------------------------------------------------------
(***************************************************************************)
(* The statistics, and the experts of a layer that stay resident.           *)
(*                                                                         *)
(* With one blob size an eviction frees exactly the bytes the next blob     *)
(* takes: the free list is empty between two calls, the bump pointer counts *)
(* the bytes in use, and a load evicts at most one expert.  Each load adds  *)
(* one resident expert and each eviction takes one away.                    *)
(***************************************************************************)
EngineStats == [fallbacks : Nat, peak_vram : Nat, cache_hits : Nat, cache_loads : Nat,
                evictions : Nat, prefetch_issued : Nat, prefetch_fallbacks : Nat]

\* The arena has no holes, nothing was refused and nobody is newer than the clock.
CompactInv ==
    /\ arena.free = {}
    /\ out.ok
    /\ \A x \in Resident : blocks[x].last_used <= tick

\* A submitted transfer was a hit or a load, a load is resident or was evicted.
CountInv ==
    /\ stats.hits + stats.loads = pstats.issued
    /\ stats.loads = stats.evictions + Cardinality(Resident)

\* generate() ends with the peak at the bump pointer and the counters copied.
GatheredInv ==
    /\ estats \in EngineStats
    /\ estats.peak_vram <= arena.high
    /\ phase = "gather" \/ (phase = "idle" /\ runs > 0) => estats.peak_vram = arena.high
    /\ phase = "idle" /\ runs > 0 =>
         /\ estats.cache_hits = stats.hits /\ estats.cache_loads = stats.loads
         /\ estats.evictions = stats.evictions /\ estats.prefetch_issued = pstats.issued

StatisticsInv == CompactInv /\ CountInv /\ GatheredInv

\* x was staged last, with the highest priority.
Newest(x) ==
    /\ blocks[x].last_used = tick /\ blocks[x].priority = TopK
    /\ \A z \in Resident : z # x => blocks[z].last_used < tick

BatchFits == Count <= 2 /\ \A n \in Sizes : Count * n <= Cap

\* The experts of this layer that the loop has staged are resident.
BatchInv ==
    BatchFits =>
        /\ \A i \in 1 .. Count :
             /\ phase = "compute" \/ (phase = "stage" /\ i < k)
             /\ CanStage(experts[i])
             => KeyAt(i) \in Resident
        /\ phase = "stage" /\ k = 2 /\ KeyAt(1) \in Resident => Newest(KeyAt(1))

\* One blob size for all experts, and it fits the budget.
LEMMA OneBlobSize ==
    \E n \in Nat \ {0} : Sizes = {n} /\ n <= Cap /\ \A x \in Keys : BlobSize[x] = n
<1>1. <<0, 0>> \in Keys
  BY EngineAssumption, CountFacts DEF Layers, Experts
<1>2. PICK n : n = BlobSize[<<0, 0>>]
  OBVIOUS
<1>3. n \in Sizes /\ \A x \in Keys : BlobSize[x] \in Sizes
  BY <1>1, <1>2, PrefetcherAssumption
<1>4. \A m \in Sizes : m = n /\ n <= Cap
  BY <1>3, EngineAssumption DEF Uniform
<1>5. n \in Nat \ {0}
  BY <1>3, CacheAssumption
<1> QED
  BY <1>3, <1>4, <1>5

\* The bytes of a resident expert: as many as its size, and below the budget.
LEMMA SpanFacts ==
    ASSUME CacheInv, Uniform, NEW n \in Sizes, NEW v \in Resident
    PROVE  /\ blocks[v].off \in Nat /\ KeySpan(v) = Span(blocks[v].off, n)
           /\ IsFiniteSet(KeySpan(v)) /\ Cardinality(KeySpan(v)) = n
           /\ KeySpan(v) \subseteq Taken(arena)
<1>1. blocks[v] \in Block
  BY DEF CacheInv, CacheTypeOK
<1>2. blocks[v].off \in Nat /\ blocks[v].size = n
  BY <1>1, CapAssumption DEF Block, Uniform
<1>3. KeySpan(v) = Span(blocks[v].off, n)
  BY <1>2 DEF KeySpan
<1>4. KeySpan(v) \subseteq Taken(arena)
  BY DEF CacheInv, BlocksCoverTaken, Bytes
<1>5. n \in Nat \ {0}
  BY CacheAssumption
<1>6. PICK o \in Nat : o = blocks[v].off
  BY <1>2
<1>7. o \in Int /\ o + n - 1 \in Int /\ ~(o > o + n - 1)
  BY <1>5, <1>6
<1>8. IsFiniteSet(o .. o + n - 1) /\ Cardinality(o .. o + n - 1) = (o + n - 1) - o + 1
  BY <1>7, FS_Interval
<1>9. IsFiniteSet(Span(o, n)) /\ Cardinality(Span(o, n)) = n
  BY <1>5, <1>6, <1>8 DEF Span
<1> QED
  BY <1>2, <1>3, <1>4, <1>6, <1>9

\* Without a resident expert there is room for another.
LEMMA OneIsEnough ==
    ASSUME CacheInv, Uniform, NEW n \in Sizes, NEW W \in SUBSET Resident, W # {}
    PROVE  EnoughWithout(W, n)
<1>1. PICK w \in W : TRUE
  OBVIOUS
<1>2. PICK a : a = Release(arena, Bytes(W))
  OBVIOUS
<1>3. a \in Arenas /\ BelowHigh(a) /\ Taken(a) = Bytes(Resident \ W)
  BY <1>2, EvictLemma
<1>4. IsFiniteSet(KeySpan(w)) /\ Cardinality(KeySpan(w)) = n /\ KeySpan(w) \subseteq Taken(arena)
  BY <1>1, SpanFacts
<1>5. Taken(a) \cap KeySpan(w) = {}
  BY <1>1, <1>3 DEF CacheInv, BlocksDisjoint, Bytes
<1>6. Taken(a) \subseteq 0 .. Cap - 1 /\ Taken(arena) \subseteq 0 .. Cap - 1
  BY <1>3, CapAssumption DEF Taken, Arenas, CacheInv, CacheTypeOK
<1>7. IsFiniteSet(0 .. Cap - 1) /\ Cardinality(0 .. Cap - 1) = Cap
  <2>1. 0 \in Int /\ Cap - 1 \in Int
    BY CapAssumption
  <2> QED
    BY <2>1, FS_Interval, CountBelow, CapAssumption
<1>8. IsFiniteSet(Taken(a)) /\ Cardinality(Taken(a)) \in Nat
  BY <1>6, <1>7, FS_Subset, FS_CardinalityType
<1>9. Cardinality(Taken(a) \cup KeySpan(w)) = Cardinality(Taken(a)) + n
  <2>1. Cardinality(Taken(a) \cup KeySpan(w))
          = Cardinality(Taken(a)) + Cardinality(KeySpan(w)) - Cardinality(Taken(a) \cap KeySpan(w))
    BY <1>4, <1>8, FS_Union
  <2>2. Cardinality(Taken(a) \cap KeySpan(w)) = 0
    BY <1>5, FS_EmptySet
  <2>3. n \in Nat
    BY CacheAssumption
  <2> QED
    BY <1>4, <1>8, <2>1, <2>2, <2>3
<1>10. Cardinality(Taken(a) \cup KeySpan(w)) <= Cap
  <2>1. Taken(a) \cup KeySpan(w) \subseteq 0 .. Cap - 1
    BY <1>4, <1>6
  <2> QED
    BY <1>7, <2>1, FS_Subset
<1>11. Cap - Cardinality(Taken(a)) >= n
  <2>1. n \in Nat /\ Cap \in Nat
    BY CacheAssumption, CapAssumption
  <2> QED
    BY <1>8, <1>9, <1>10, <2>1
<1> QED
  BY <1>2, <1>11 DEF EnoughWithout, FreeSpace, UsedBytes

\* A load evicts at most one expert, and only when there is no room without that.
LEMMA EvictsOne ==
    ASSUME CacheInv, Uniform, NEW n \in Sizes, NEW V \in SUBSET Resident, Evicts(V, n)
    PROVE  V = {} \/ ((\E v \in Resident : V = {v}) /\ ~EnoughWithout({}, n))
<1> SUFFICES ASSUME V # {} PROVE (\E v \in Resident : V = {v}) /\ ~EnoughWithout({}, n)
  OBVIOUS
<1>1. PICK last \in V : ~EnoughWithout(V \ {last}, n)
  BY DEF Evicts
<1>2. V \ {last} = {}
  BY <1>1, OneIsEnough
<1>3. V = {last}
  BY <1>2
<1> QED
  BY <1>1, <1>2, <1>3

\* The next blob takes the bytes of the evicted one, or those above the bump pointer.
LEMMA StaysCompact ==
    ASSUME CacheInv, Uniform, arena.free = {}, NEW n \in Sizes,
           NEW V \in SUBSET Resident, Evicts(V, n), NEW a, a = Release(arena, Bytes(V)),
           AllocOff(a, n) # NoRoom
    PROVE  /\ Carve(a, AllocOff(a, n), n).free = {}
           /\ Carve(a, AllocOff(a, n), n).high >= arena.high
<1>1. a.free = Bytes(V) /\ a.high = arena.high
  BY EvictLemma
<1>2. n \in Nat \ {0} /\ arena.high \in Nat
  BY CacheAssumption, CapAssumption DEF CacheInv, CacheTypeOK, Arenas
<1>3. Carve(a, AllocOff(a, n), n).high >= arena.high
  BY <1>1, <1>2 DEF Carve
<1>4. CASE V = {}
  <2>1. a.free = {}
    BY <1>1, <1>4 DEF Bytes
  <2> QED
    BY <1>3, <2>1 DEF Carve
<1>5. ASSUME NEW v \in Resident, V = {v} PROVE Carve(a, AllocOff(a, n), n).free = {}
  <2>1. PICK o \in Nat : o = blocks[v].off
    BY SpanFacts
  <2>2. a.free = Span(o, n)
    <3>1. Bytes({v}) = KeySpan(v)
      BY DEF Bytes
    <3>2. KeySpan(v) = Span(o, n)
      BY <2>1, SpanFacts
    <3> QED
      BY <1>1, <1>5, <3>1, <3>2
  <2>3. o \in Span(o, n) /\ \A b \in Span(o, n) : b \in Int /\ b >= o
    BY <1>2 DEF Span
  <2>4. \A b \in Span(o, n) : Span(b, n) \subseteq Span(o, n) => b = o
    <3> SUFFICES ASSUME NEW b \in Span(o, n), Span(b, n) \subseteq Span(o, n) PROVE b = o
      OBVIOUS
    <3>1. b \in Int /\ b >= o /\ b + n - 1 \in Span(b, n)
      BY <1>2, <2>3 DEF Span
    <3>2. b + n - 1 \in Span(o, n)
      BY <3>1
    <3>3. b + n - 1 <= o + n - 1
      BY <3>2 DEF Span
    <3> QED
      BY <1>2, <3>1, <3>3
  <2>5. Fits(a, n) = {o}
    BY <2>2, <2>3, <2>4 DEF Fits
  <2>6. Min(Fits(a, n)) = o
    BY <2>5, MinOfNat
  <2>7. AllocOff(a, n) = o
    BY <1>2, <2>5, <2>6 DEF AllocOff
  <2> QED
    BY <2>2, <2>7 DEF Carve
<1> QED
  BY <1>3, <1>4, <1>5, EvictsOne

\* Room for two, and the newest expert of the highest priority is not the one to go.
LEMMA NewestStays ==
    ASSUME CacheInv, Uniform, NEW n \in Sizes, 2 * n <= Cap, NEW z \in Resident, Newest(z),
           ~EnoughWithout({}, n),
           \A w \in Resident : w # z => Score(blocks[z]) <= Score(blocks[w])
    PROVE  FALSE
<1>1. ASSUME NEW w \in Resident, w # z PROVE FALSE
  <2>1. PICK b \in Block, c \in Block : b = blocks[z] /\ c = blocks[w]
    BY DEF CacheInv, CacheTypeOK
  <2>2. /\ b.last_used = tick /\ b.priority = TopK /\ c.last_used < tick
    BY <1>1, <2>1 DEF Newest
  <2>3. tick \in Nat /\ c.last_used \in Nat /\ c.priority \in 1 .. TopK /\ TopK \in Nat
    BY EngineAssumption DEF Block, CacheInv, CacheTypeOK
  <2>4. /\ b.last_used >= c.last_used /\ b.priority >= c.priority
        /\ b.last_used + b.priority > c.last_used + c.priority
    BY <2>2, <2>3
  <2>5. ~(Score(b) <= Score(c))
    BY <2>4, ScoreGrows
  <2> QED
    BY <1>1, <2>1, <2>5
<1>2. Resident = {z}
  BY <1>1
<1>3. {} \in SUBSET Resident /\ Resident \ {} = {z} /\ Bytes({z}) = KeySpan(z)
  BY <1>2 DEF Bytes
<1>4. Taken(Release(arena, Bytes({}))) = KeySpan(z)
  BY <1>3, EvictLemma
<1>5. Cardinality(KeySpan(z)) = n
  BY SpanFacts
<1>6. n \in Nat /\ Cap \in Nat
  BY CacheAssumption, CapAssumption
<1>7. Cap - n >= n
  BY <1>6
<1> QED
  BY <1>4, <1>5, <1>7 DEF EnoughWithout, FreeSpace, UsedBytes

\* Bringing in one expert for those of V changes the number of residents by as many.
LEMMA ResidentsCounted ==
    ASSUME NEW S, IsFiniteSet(S), NEW V \in SUBSET S, NEW x, x \notin S
    PROVE  /\ Cardinality(S) \in Nat /\ Cardinality(V) \in Nat
           /\ Cardinality((S \ V) \cup {x}) + Cardinality(V) = Cardinality(S) + 1
<1>1. IsFiniteSet(V) /\ IsFiniteSet(S \ V)
  BY FS_Subset
<1>2. /\ Cardinality(S) \in Nat /\ Cardinality(V) \in Nat /\ Cardinality(S \ V) \in Nat
  BY <1>1, FS_CardinalityType
<1>3. Cardinality(S \ V) = Cardinality(S) - Cardinality(S \cap V)
  BY FS_Difference
<1>4. S \cap V = V
  OBVIOUS
<1>5. Cardinality((S \ V) \cup {x}) = Cardinality(S \ V) + 1
  BY <1>1, FS_AddElement
<1>6. Cardinality(S \cap V) = Cardinality(V)
  BY <1>4
<1>7. \A c, d, e, f \in Int : d = c - e /\ f = d + 1 => f + e = c + 1
  OBVIOUS
<1>8. Cardinality((S \ V) \cup {x}) \in Int
  BY <1>2, <1>5
<1>9. Cardinality(S \ V) = Cardinality(S) - Cardinality(V)
  BY <1>3, <1>6
<1> QED
  BY ONLY <1>2, <1>5, <1>7, <1>8, <1>9, Cardinality(S) \in Int, Cardinality(V) \in Int,
     Cardinality(S \ V) \in Int

\* What prefetch() does to the cache when it finds the expert resident.
LEMMA HitCounted ==
    ASSUME CacheInv, CompactInv, NEW x \in Keys, NEW n \in Sizes, NEW pr \in Priorities,
           EnsureHit(x, n, pr)
    PROVE  /\ CompactInv' /\ arena'.high >= arena.high /\ x \in Resident'
           /\ Cardinality(Resident') = Cardinality(Resident)
           /\ stats'.hits = stats.hits + 1 /\ stats'.loads = stats.loads
           /\ stats'.evictions = stats.evictions
           /\ tick' = tick + 1 /\ blocks'[x].last_used = tick' /\ blocks'[x].priority = pr
           /\ \A z \in Resident' : z # x => z \in Resident /\ blocks'[z] = blocks[z]
           /\ Resident \subseteq Resident'
<1>1. /\ x \in Resident /\ tick' = tick + 1
      /\ blocks' = [blocks EXCEPT ![x].last_used = tick + 1, ![x].priority = pr]
      /\ stats' = [stats EXCEPT !.ensures = @ + 1, !.hits = @ + 1]
      /\ out'.ok /\ UNCHANGED arena
  BY DEF EnsureHit, Answer
<1>2. /\ blocks \in [Resident -> Block] /\ stats \in Stats /\ tick \in Nat /\ arena.high \in Nat
  BY CapAssumption DEF CacheInv, CacheTypeOK, Arenas
<1>3. Resident' = Resident
  BY <1>1, <1>2 DEF Resident
<1>4. PICK b : b = [blocks[x] EXCEPT !.last_used = tick + 1, !.priority = pr]
  OBVIOUS
<1>5. blocks' = [blocks EXCEPT ![x] = b]
  BY <1>1, <1>2, <1>4
<1>6. blocks[x] \in Block
  BY <1>1, <1>2
<1>7. b.last_used = tick + 1 /\ b.priority = pr
  BY <1>4, <1>6 DEF Block
<1>8. blocks'[x] = b /\ \A z \in Resident : z # x => blocks'[z] = blocks[z]
  BY <1>1, <1>2, <1>5
<1>9. ASSUME NEW z \in Resident' PROVE blocks'[z].last_used <= tick'
  <2>1. CASE z = x
    BY <1>1, <1>2, <1>7, <1>8, <2>1
  <2>2. CASE z # x
    <3>1. blocks'[z] = blocks[z] /\ blocks[z].last_used <= tick
      BY <1>3, <1>8, <1>9, <2>2 DEF CompactInv
    <3>2. blocks[z] \in Block
      BY <1>2, <1>3, <1>9
    <3>3. blocks[z].last_used \in Nat
      BY <3>2 DEF Block
    <3> QED
      BY <1>1, <1>2, <3>1, <3>3
  <2> QED
    BY <2>1, <2>2
<1>10. /\ stats'.hits = stats.hits + 1 /\ stats'.loads = stats.loads
       /\ stats'.evictions = stats.evictions
  BY <1>1, <1>2 DEF Stats
<1>11. CompactInv'
  BY <1>1, <1>9 DEF CompactInv
<1>12. arena'.high >= arena.high
  BY <1>1, <1>2
<1> QED
  BY <1>1, <1>3, <1>7, <1>8, <1>10, <1>11, <1>12

\* What it does when the expert is missing.
LEMMA MissCounted ==
    ASSUME CacheInv, Uniform, CompactInv, NEW x \in Keys, NEW n \in Sizes, NEW pr \in Priorities,
           EnsureMiss(x, n, pr, 0)
    PROVE  /\ CompactInv' /\ arena'.high >= arena.high /\ x \in Resident'
           /\ stats'.hits = stats.hits /\ stats'.loads = stats.loads + 1
           /\ Cardinality(Resident') + (stats'.evictions - stats.evictions)
                = Cardinality(Resident) + 1
           /\ tick' = tick + 1 /\ blocks'[x].last_used = tick' /\ blocks'[x].priority = pr
           /\ \A z \in Resident' : z # x => z \in Resident /\ blocks'[z] = blocks[z]
           /\ \A z \in Resident : z \notin Resident' =>
                 /\ ~EnoughWithout({}, n)
                 /\ \A w \in Resident : w # z => Score(blocks[z]) <= Score(blocks[w])
<1>1. PICK V \in SUBSET Resident :
        LET off == AllocOff(Release(arena, Bytes(V)), n) IN
        /\ Evicts(V, n)
        /\ stats' = [stats EXCEPT !.ensures = @ + 1,
                                  !.loads = @ + (IF off = NoRoom THEN 0 ELSE 1),
                                  !.evictions = @ + Cardinality(V),
                                  !.fallbacks = @ + 0]
        /\ \/ off # NoRoom /\ Place(x, n, pr, V, off)
           \/ off = NoRoom /\ Drop(n, V)
  BY DEF EnsureMiss
<1>2. x \notin Resident
  BY DEF EnsureMiss
<1>3. out'.ok
  <2>1. FreeIsTiled
    BY DEF CompactInv, FreeIsTiled, Tiles
  <2> QED
    BY <2>1, UniformMiss
<1>4. PICK a, off : a = Release(arena, Bytes(V)) /\ off = AllocOff(a, n)
  OBVIOUS
<1>5. off # NoRoom /\ Place(x, n, pr, V, off)
  BY <1>1, <1>3, <1>4 DEF Drop, Answer
<1>6. /\ arena' = Carve(a, off, n) /\ tick' = tick + 1
      /\ blocks' = [j \in (Resident \ V) \cup {x} |->
                      IF j = x
                      THEN [off |-> off, size |-> n, last_used |-> tick + 1, priority |-> pr]
                      ELSE blocks[j]]
  BY <1>4, <1>5 DEF Place
<1>7. blocks \in [Resident -> Block] /\ stats \in Stats /\ tick \in Nat /\ Resident \subseteq Keys
  BY DEF CacheInv, CacheTypeOK
<1>8. arena'.free = {} /\ arena'.high >= arena.high
  BY <1>1, <1>4, <1>5, <1>6, StaysCompact DEF CompactInv
<1>9. Resident' = (Resident \ V) \cup {x}
  BY <1>6 DEF Resident
<1>10. blocks'[x].last_used = tick + 1 /\ blocks'[x].priority = pr
  BY <1>6
<1>11. \A z \in Resident' : z # x => z \in Resident /\ blocks'[z] = blocks[z]
  BY <1>6, <1>9
<1>12. ASSUME NEW z \in Resident' PROVE blocks'[z].last_used <= tick'
  <2>1. CASE z = x
    BY <1>6, <1>7, <1>10, <2>1
  <2>2. CASE z # x
    <3>1. z \in Resident /\ blocks'[z] = blocks[z] /\ blocks[z].last_used <= tick
      BY <1>11, <1>12, <2>2 DEF CompactInv
    <3>2. blocks[z] \in Block
      BY <1>7, <3>1
    <3>3. blocks[z].last_used \in Nat
      BY <3>2 DEF Block
    <3> QED
      BY <1>6, <1>7, <3>1, <3>3
  <2> QED
    BY <2>1, <2>2
<1>13. IsFiniteSet(Resident)
  BY <1>7, CacheAssumption, FS_Subset
<1>14. /\ Cardinality(Resident) \in Nat /\ Cardinality(V) \in Nat
       /\ Cardinality(Resident') + Cardinality(V) = Cardinality(Resident) + 1
  BY <1>2, <1>9, <1>13, ResidentsCounted
<1>15. /\ stats'.hits = stats.hits /\ stats'.loads = stats.loads + 1
       /\ stats'.evictions = stats.evictions + Cardinality(V)
  BY <1>1, <1>4, <1>5, <1>7 DEF Stats
<1>16. stats.evictions \in Nat
  BY <1>7 DEF Stats
<1>17. Cardinality(Resident') + (stats'.evictions - stats.evictions) = Cardinality(Resident) + 1
  <2>1. stats'.evictions - stats.evictions = Cardinality(V)
    BY <1>14, <1>15, <1>16
  <2> QED
    BY <1>14, <2>1
<1>18. ASSUME NEW z \in Resident, z \notin Resident'
       PROVE  /\ ~EnoughWithout({}, n)
              /\ \A w \in Resident : w # z => Score(blocks[z]) <= Score(blocks[w])
  <2>1. z \in V
    BY <1>9, <1>18
  <2>2. V = {z} /\ ~EnoughWithout({}, n)
    BY <1>1, <2>1, EvictsOne
  <2> QED
    BY <1>1, <2>2 DEF Evicts
<1>19. CompactInv'
  BY <1>3, <1>8, <1>12 DEF CompactInv
<1> QED
  BY <1>6, <1>8, <1>9, <1>10, <1>11, <1>15, <1>17, <1>18, <1>19

\* prefetch() is never refused; each call is counted once as issued and once as a hit
\* or a load.
LEMMA PrefetchCounted ==
    ASSUME PrefetchInv, CompactInv, CountInv, NEW x \in Keys, NEW pr \in Priorities,
           Prefetch(x, pr)
    PROVE  /\ CompactInv' /\ CountInv' /\ arena'.high >= arena.high /\ x \in Resident'
           /\ tick' = tick + 1 /\ blocks'[x].last_used = tick' /\ blocks'[x].priority = pr
           /\ \A z \in Resident' : z # x => z \in Resident /\ blocks'[z] = blocks[z]
           /\ \A z \in Resident : z \notin Resident' =>
                 /\ ~EnoughWithout({}, BlobSize[x])
                 /\ \A w \in Resident : w # z => Score(blocks[z]) <= Score(blocks[w])
<1>1. CacheInv /\ PrefetcherTypeOK /\ Uniform
  BY EngineAssumption DEF PrefetchInv
<1>2. PICK n \in Sizes : n = BlobSize[x]
  BY PrefetcherAssumption
<1>3. EnsureHit(x, n, pr) \/ EnsureMiss(x, n, pr, 0)
  BY <1>2 DEF Prefetch, Ensure
<1>4. pstats.issued \in Nat /\ stats.hits \in Nat /\ stats.loads \in Nat /\ stats.evictions \in Nat
  <2>1. pstats \in [issued : Nat, waited : Nat, fallbacks : Nat] /\ stats \in Stats
    BY <1>1 DEF PrefetcherTypeOK, CacheInv, CacheTypeOK
  <2> QED
    BY <2>1 DEF Stats
<1>5. Cardinality(Resident) \in Nat
  BY <1>1, CacheAssumption, FS_Subset, FS_CardinalityType DEF CacheInv, CacheTypeOK
<1>6. ASSUME out'.ok PROVE pstats'.issued = pstats.issued + 1
  <2>1. pstats' = [pstats EXCEPT !.issued = @ + 1]
    BY <1>6 DEF Prefetch, Enqueue
  <2>2. pstats \in [issued : Nat, waited : Nat, fallbacks : Nat]
    BY <1>1 DEF PrefetcherTypeOK
  <2> QED
    BY <2>1, <2>2
<1>7. stats.hits + stats.loads = pstats.issued /\ stats.loads = stats.evictions + Cardinality(Resident)
  BY DEF CountInv
<1>8. CASE EnsureHit(x, n, pr)
  <2>1. /\ CompactInv' /\ arena'.high >= arena.high /\ x \in Resident'
        /\ Cardinality(Resident') = Cardinality(Resident)
        /\ stats'.hits = stats.hits + 1 /\ stats'.loads = stats.loads
        /\ stats'.evictions = stats.evictions
        /\ tick' = tick + 1 /\ blocks'[x].last_used = tick' /\ blocks'[x].priority = pr
        /\ \A z \in Resident' : z # x => z \in Resident /\ blocks'[z] = blocks[z]
        /\ Resident \subseteq Resident'
    BY <1>1, <1>8, HitCounted
  <2>2. pstats'.issued = pstats.issued + 1
    BY <1>6, <2>1 DEF CompactInv
  <2>3. stats'.hits + stats'.loads = pstats'.issued
    BY <1>4, <1>7, <2>1, <2>2
  <2>4. CountInv'
    BY <1>7, <2>1, <2>3 DEF CountInv
  <2> QED
    BY <2>1, <2>4
<1>9. CASE EnsureMiss(x, n, pr, 0)
  <2>1. /\ CompactInv' /\ arena'.high >= arena.high /\ x \in Resident'
        /\ stats'.hits = stats.hits /\ stats'.loads = stats.loads + 1
        /\ Cardinality(Resident') + (stats'.evictions - stats.evictions) = Cardinality(Resident) + 1
        /\ tick' = tick + 1 /\ blocks'[x].last_used = tick' /\ blocks'[x].priority = pr
        /\ \A z \in Resident' : z # x => z \in Resident /\ blocks'[z] = blocks[z]
        /\ \A z \in Resident : z \notin Resident' =>
              /\ ~EnoughWithout({}, n)
              /\ \A w \in Resident : w # z => Score(blocks[z]) <= Score(blocks[w])
    BY <1>1, <1>9, MissCounted
  <2>2. pstats'.issued = pstats.issued + 1
    BY <1>6, <2>1 DEF CompactInv
  <2>3. stats'.hits + stats'.loads = pstats'.issued
    BY <1>4, <1>7, <2>1, <2>2
  <2>4. CacheInv'
    BY <1>1, <1>9, MissInv
  <2>5. Cardinality(Resident') \in Nat /\ stats'.evictions \in Nat
    <3>1. Resident' \subseteq Keys /\ stats' \in Stats
      BY <2>4 DEF CacheInv, CacheTypeOK
    <3>2. IsFiniteSet(Resident')
      BY <3>1, CacheAssumption, FS_Subset
    <3> QED
      BY <3>1, <3>2, FS_CardinalityType DEF Stats
  <2>6. \A c, d, e, f, l \in Int : l = e + c /\ d + (f - e) = c + 1 => l + 1 = f + d
    OBVIOUS
  <2>7. stats.loads + 1 = stats'.evictions + Cardinality(Resident')
    BY ONLY <1>4, <1>5, <1>7, <2>1, <2>5, <2>6, Nat \subseteq Int
  <2>8. stats'.loads = stats'.evictions + Cardinality(Resident')
    BY <2>1, <2>7
  <2>9. CountInv'
    BY <2>3, <2>8 DEF CountInv
  <2> QED
    BY <1>2, <2>1, <2>9
<1> QED
  BY <1>3, <1>8, <1>9

\* A step that leaves the cache alone, and of the prefetcher what it has issued.
LEMMA CacheAlone ==
    ASSUME CompactInv, CountInv, UNCHANGED cacheVars, pstats'.issued = pstats.issued
    PROVE  CompactInv' /\ CountInv'
  BY DEF CompactInv, CountInv, cacheVars, Resident

\* A wait issues nothing.
LEMMA WaitIssuesNothing ==
    ASSUME PrefetcherTypeOK, NEW x, WaitStep(x) PROVE pstats'.issued = pstats.issued
<1>1. pstats \in [issued : Nat, waited : Nat, fallbacks : Nat]
  BY DEF PrefetcherTypeOK
<1>2. \/ pstats' = [pstats EXCEPT !.waited = @ + 1]
      \/ pstats' = [pstats EXCEPT !.waited = @ + 1, !.fallbacks = @ + 1]
  BY DEF WaitStep, WaitUnknown, WaitMock, WaitCuda
<1> QED
  BY <1>1, <1>2

\* touch() makes a block newer, and nothing else.
LEMMA TouchCounted ==
    ASSUME CacheInv, CompactInv, CountInv, NEW x, Touch(x), pstats'.issued = pstats.issued
    PROVE  CompactInv' /\ CountInv' /\ Resident' = Resident /\ UNCHANGED <<arena, stats>>
<1>1. /\ x \in Resident /\ tick' = tick + 1
      /\ blocks' = [blocks EXCEPT ![x].last_used = tick + 1]
      /\ UNCHANGED <<arena, stats, out>>
  BY DEF Touch
<1>2. blocks \in [Resident -> Block] /\ tick \in Nat
  BY DEF CacheInv, CacheTypeOK
<1>3. PICK b : b = [blocks[x] EXCEPT !.last_used = tick + 1]
  OBVIOUS
<1>4. blocks' = [blocks EXCEPT ![x] = b] /\ blocks[x] \in Block
  BY <1>1, <1>2, <1>3
<1>5. b.last_used = tick + 1
  BY <1>3, <1>4 DEF Block
<1>6. Resident' = Resident
  BY <1>2, <1>4 DEF Resident
<1>7. ASSUME NEW z \in Resident PROVE blocks'[z].last_used <= tick'
  <2>1. CASE z = x
    BY <1>1, <1>2, <1>4, <1>5, <2>1
  <2>2. CASE z # x
    <3>1. blocks'[z] = blocks[z] /\ blocks[z].last_used <= tick /\ blocks[z] \in Block
      BY <1>2, <1>4, <2>2 DEF CompactInv
    <3>2. blocks[z].last_used \in Nat
      BY <3>1 DEF Block
    <3> QED
      BY <1>1, <1>2, <3>1, <3>2
  <2> QED
    BY <2>1, <2>2
<1>8. CompactInv'
  BY <1>1, <1>6, <1>7 DEF CompactInv
<1>9. CountInv'
  BY <1>1, <1>6 DEF CountInv
<1> QED
  BY <1>1, <1>6, <1>8, <1>9

\* With no holes the bytes in use are those below the bump pointer.
LEMMA UsedIsHigh ==
    ASSUME CacheInv, CompactInv PROVE UsedBytes(arena) = arena.high /\ arena.high \in Nat
<1>1. arena.high \in Nat
  BY CapAssumption DEF CacheInv, CacheTypeOK, Arenas
<1>2. Taken(arena) = 0 .. arena.high - 1
  BY DEF CompactInv, Taken
<1> QED
  BY <1>1, <1>2, CountBelow DEF UsedBytes

LEMMA StatisticsInit == EngineInit => StatisticsInv
<1> SUFFICES ASSUME EngineInit PROVE StatisticsInv
  OBVIOUS
<1>1. /\ arena = EmptyArena /\ out = NoAnswer /\ Resident = {} /\ runs = 0 /\ phase = "idle"
      /\ stats = [ensures |-> 0, hits |-> 0, loads |-> 0, evictions |-> 0, fallbacks |-> 0]
      /\ pstats = [issued |-> 0, waited |-> 0, fallbacks |-> 0]
  BY DEF EngineInit, Init, CacheInit, PrefetcherInit, Resident
<1>2. CompactInv
  BY <1>1 DEF CompactInv, EmptyArena, NoAnswer
<1>3. CountInv
  BY <1>1, FS_EmptySet DEF CountInv
<1>4. estats \in EngineStats /\ estats.peak_vram = 0
  BY DEF EngineInit, EngineStats
<1>5. GatheredInv
  BY <1>1, <1>4 DEF GatheredInv, EmptyArena
<1> QED
  BY <1>2, <1>3, <1>5 DEF StatisticsInv

LEMMA StatisticsNext ==
    ASSUME EngineInv, StatisticsInv, [EngineNext]_allVars PROVE StatisticsInv'
<1>1. /\ PrefetchInv /\ CacheInv /\ PrefetcherTypeOK /\ LoopTypeOK /\ EngineTypeOK
      /\ CompactInv /\ CountInv /\ GatheredInv
  BY DEF EngineInv, StatisticsInv, PrefetchInv, LoopTypeOK
<1>2. estats \in EngineStats /\ estats.peak_vram \in Nat /\ arena.high \in Nat
  BY <1>1, UsedIsHigh DEF GatheredInv, EngineStats
\* Steps within a layer: the statistics of generate() are not due.
<1>3. ASSUME CompactInv', CountInv', arena'.high >= arena.high, arena'.high \in Nat,
             estats' \in EngineStats, estats'.peak_vram = estats.peak_vram,
             phase' \notin {"gather", "idle"}
      PROVE  StatisticsInv'
  <2>1. estats'.peak_vram <= arena'.high
    BY <1>1, <1>2, <1>3 DEF GatheredInv
  <2> QED
    BY <1>3, <2>1 DEF StatisticsInv, GatheredInv
\* Steps that leave the cache and the statistics alone.
<1>4. ASSUME UNCHANGED <<cacheVars, estats>>, pstats'.issued = pstats.issued,
             (phase' = phase /\ runs' = runs) \/ phase' \notin {"gather", "idle"}
      PROVE  StatisticsInv'
  <2>1. CompactInv' /\ CountInv' /\ UNCHANGED <<arena, stats>>
    BY <1>1, <1>4, CacheAlone DEF cacheVars
  <2> QED
    BY <1>1, <1>4, <2>1 DEF StatisticsInv, GatheredInv
<1>5. CASE StageExpert
  <2>1. /\ phase = "stage" /\ Prefetch(<<layer, experts[k]>>, TopK - (k - 1)) /\ NextStaged
        /\ UNCHANGED estats
    BY <1>5 DEF StageExpert
  <2>2. k \in 1 .. Count /\ <<layer, experts[k]>> \in Keys /\ TopK - (k - 1) \in Priorities
    <3>1. k \in 1 .. Count /\ Count \in Nat
      BY <1>1, <2>1, CountFacts DEF LoopTypeOK, EngineTypeOK
    <3>2. <<layer, experts[k]>> \in Keys
      BY <1>1, <2>1, <3>1, LoopFacts DEF KeyAt
    <3> QED
      BY <3>1, <3>2, CountFacts, EngineAssumption
  <2>3. PICK x \in Keys, pr \in Priorities : x = <<layer, experts[k]>> /\ pr = TopK - (k - 1)
    BY <2>2
  <2>4. Prefetch(x, pr)
    BY ONLY <2>1, <2>3
  <2>5. CompactInv' /\ CountInv' /\ arena'.high >= arena.high
    BY <1>1, <2>4, PrefetchCounted
  <2>6. arena'.high \in Nat
    <3>1. PICK n \in Sizes : Ensure(x, n, pr)
      BY <2>4, PrefetcherAssumption DEF Prefetch
    <3>2. CacheInv'
      BY <1>1, <3>1, HitInv, MissInv DEF Ensure
    <3> QED
      BY <3>2, CapAssumption DEF CacheInv, CacheTypeOK, Arenas
  <2>7. phase' \notin {"gather", "idle"}
    BY <2>1 DEF NextStaged
  <2> QED
    BY <1>2, <1>3, <2>1, <2>5, <2>6, <2>7
<1>6. CASE ComputeMock
  <2>1. PICK x : WaitStep(x) /\ Touch(x) /\ phase = "compute" /\ UNCHANGED <<phase, estats>>
    BY <1>6 DEF ComputeMock
  <2>2. pstats'.issued = pstats.issued
    BY <1>1, <2>1, WaitIssuesNothing
  <2>3. CompactInv' /\ CountInv' /\ UNCHANGED arena
    BY <1>1, <2>1, <2>2, TouchCounted
  <2> QED
    BY <1>2, <1>3, <2>1, <2>3
<1>7. CASE LaunchKernel
  <2>1. PICK x : Wait(x) /\ phase = "compute" /\ UNCHANGED <<phase, estats>>
    BY <1>7 DEF LaunchKernel
  <2> QED
    BY <1>1, <1>4, <2>1, WaitIssuesNothing DEF Wait
<1>8. CASE SkipExpert
  <2>1. PICK x : /\ Wait(x) /\ phase = "compute" /\ UNCHANGED phase
                 /\ estats' = [estats EXCEPT !.fallbacks = @ + 1]
    BY <1>8 DEF SkipExpert
  <2>2. estats' \in EngineStats /\ estats'.peak_vram = estats.peak_vram
    BY <1>2, <2>1 DEF EngineStats
  <2>3. CompactInv' /\ CountInv' /\ UNCHANGED arena
    BY <1>1, <2>1, WaitIssuesNothing, CacheAlone DEF Wait, cacheVars
  <2> QED
    BY <1>2, <1>3, <2>1, <2>2, <2>3
<1>9. CASE EndToken
  <2>1. /\ estats' = [estats EXCEPT !.peak_vram = Peak(UsedBytes(arena))]
        /\ phase' \in {"layer", "gather"} /\ UNCHANGED vars
    BY <1>9 DEF EndToken
  <2>2. Peak(UsedBytes(arena)) = arena.high
    BY <1>1, <1>2, UsedIsHigh DEF Peak, GatheredInv
  <2>3. estats' \in EngineStats /\ estats'.peak_vram = arena.high
    BY <1>2, <2>1, <2>2 DEF EngineStats
  <2>4. CompactInv' /\ CountInv' /\ UNCHANGED arena
    BY <1>1, <2>1, CacheAlone DEF vars, cacheVars, pfVars
  <2> QED
    BY <1>2, <2>1, <2>3, <2>4 DEF StatisticsInv, GatheredInv
<1>10. CASE Gather
  <2>1. /\ phase = "gather" /\ Reset
        /\ estats' = [estats EXCEPT !.cache_hits = stats.hits, !.cache_loads = stats.loads,
                                    !.evictions = stats.evictions, !.fallbacks = stats.fallbacks,
                                    !.prefetch_issued = pstats.issued,
                                    !.prefetch_fallbacks = pstats.fallbacks]
    BY <1>10 DEF Gather
  <2>2. UNCHANGED <<cacheVars, pstats>>
    BY <2>1 DEF Reset
  <2>3. CompactInv' /\ CountInv' /\ UNCHANGED <<arena, stats, pstats>>
    BY <1>1, <2>2, CacheAlone DEF cacheVars
  <2>4. stats \in Stats /\ pstats \in [issued : Nat, waited : Nat, fallbacks : Nat]
    BY <1>1 DEF CacheInv, CacheTypeOK, PrefetcherTypeOK
  <2>5. /\ stats.hits \in Nat /\ stats.loads \in Nat /\ stats.evictions \in Nat
        /\ stats.fallbacks \in Nat /\ pstats.issued \in Nat /\ pstats.fallbacks \in Nat
    BY <2>4 DEF Stats
  <2>6. /\ estats' \in EngineStats /\ estats'.peak_vram = estats.peak_vram
        /\ estats'.cache_hits = stats.hits /\ estats'.cache_loads = stats.loads
        /\ estats'.evictions = stats.evictions /\ estats'.prefetch_issued = pstats.issued
    BY <1>2, <2>1, <2>5 DEF EngineStats
  <2>7. estats'.peak_vram = arena'.high
    BY <1>1, <2>1, <2>3, <2>6 DEF GatheredInv
  <2> QED
    BY <1>2, <2>3, <2>6, <2>7 DEF StatisticsInv, GatheredInv
<1>11. CASE Generate \/ Predict \/ StageMissing \/ EndLayer
  <2>1. UNCHANGED <<vars, estats>> /\ phase' \notin {"gather", "idle"}
    BY <1>11 DEF Generate, Predict, StageMissing, EndLayer, NextStaged
  <2> QED
    BY <1>4, <2>1 DEF vars, pfVars
<1>12. CASE CopyStep \/ RunKernel \/ UNCHANGED allVars
  <2>1. UNCHANGED <<cacheVars, pstats, estats, phase, runs>>
    BY <1>12 DEF CopyStep, DeviceCopy, RunKernel, allVars, vars, pfVars, engineVars
  <2> QED
    BY <1>4, <2>1
<1> QED
  BY <1>5, <1>6, <1>7, <1>8, <1>9, <1>10, <1>11, <1>12 DEF EngineNext, HostStep

\* "cache_hits", "cache_loads", "evictions" and "prefetch_issued" of generate() add up, and
\* the peak sampled at the token ends is the arena's high-water mark (engine.cpp:232-253).
THEOREM EngineStatistics ==
    ASSUME CudaFails = FALSE PROVE EngineSpec => []StatisticsAddUp
<1>1. EngineInit => EngineInv /\ StatisticsInv
  BY InitEngineInv, StatisticsInit
<1>2. EngineInv /\ StatisticsInv /\ [EngineNext]_allVars => (EngineInv /\ StatisticsInv)'
  BY NextEngineInv, StatisticsNext
<1>3. EngineInv /\ StatisticsInv => StatisticsAddUp
  <2> SUFFICES ASSUME EngineInv, StatisticsInv, phase = "idle", runs > 0
               PROVE  /\ estats.cache_hits + estats.cache_loads = estats.prefetch_issued
                      /\ estats.cache_loads - estats.evictions = Cardinality(Resident)
                      /\ estats.peak_vram = arena.high
    BY DEF StatisticsAddUp
  <2>1. CacheInv
    BY DEF EngineInv, PrefetchInv
  <2>2. Cardinality(Resident) \in Nat /\ stats.evictions \in Nat
    <3>1. Resident \subseteq Keys /\ stats \in Stats
      BY <2>1 DEF CacheInv, CacheTypeOK
    <3>2. IsFiniteSet(Resident)
      BY <3>1, CacheAssumption, FS_Subset
    <3> QED
      BY <3>1, <3>2, FS_CardinalityType DEF Stats
  <2>3. /\ stats.hits + stats.loads = pstats.issued
        /\ stats.loads = stats.evictions + Cardinality(Resident)
        /\ estats.peak_vram = arena.high
        /\ estats.cache_hits = stats.hits /\ estats.cache_loads = stats.loads
        /\ estats.evictions = stats.evictions /\ estats.prefetch_issued = pstats.issued
    BY DEF StatisticsInv, CountInv, GatheredInv
  <2>4. stats.loads - stats.evictions = Cardinality(Resident)
    BY <2>2, <2>3
  <2> QED
    BY <2>3, <2>4
<1> QED
  BY <1>1, <1>2, <1>3, PTL DEF EngineSpec

\* No ensure() of the loop is ever refused: the engine's blobs have one size
\* (engine.cpp:71-75).
THEOREM EngineNeverRefused ==
    ASSUME CudaFails = FALSE PROVE EngineSpec => []UniformNeverRefused
<1>1. EngineInit => EngineInv /\ StatisticsInv
  BY InitEngineInv, StatisticsInit
<1>2. EngineInv /\ StatisticsInv /\ [EngineNext]_allVars => (EngineInv /\ StatisticsInv)'
  BY NextEngineInv, StatisticsNext
<1>3. StatisticsInv => UniformNeverRefused
  BY DEF StatisticsInv, CompactInv, UniformNeverRefused
<1> QED
  BY <1>1, <1>2, <1>3, PTL DEF EngineSpec
------------------------------------------------------------------------------
\* Whether the engine can stage an expert does not depend on the other experts.
LEMMA StageableAlone ==
    ASSUME NEW e, NEW d, e # d, DOMAIN staging' = DOMAIN staging \cup {d}
    PROVE  CanStage(e)' <=> CanStage(e)
  BY DEF CanStage, AvailLayer

LEMMA BatchInit == EngineInit => BatchInv
  BY DEF EngineInit, BatchInv

\* A step of the staging loop, given that the k-th expert is resident after it if it
\* can be staged, and that those before it stay.
LEMMA BatchStaged ==
    ASSUME EngineInv, BatchInv, phase = "stage", NextStaged, UNCHANGED <<layer, experts>>,
           NEW CONSTANT x, x = KeyAt(k), NEW CONSTANT d, d = experts[k],
           \A e : e # d => (CanStage(e)' <=> CanStage(e)),
           BatchFits => \A i \in 1 .. Count : i < k /\ KeyAt(i) \in Resident => KeyAt(i) \in Resident',
           CanStage(d)' => x \in Resident',
           BatchFits /\ k = 1 /\ x \in Resident' => Newest(x)'
    PROVE  BatchInv'
<1> SUFFICES ASSUME BatchFits PROVE BatchInv'
  BY DEF BatchInv, BatchFits
<1>1. LoopTypeOK /\ EngineTypeOK
  BY DEF EngineInv, LoopTypeOK
<1>2. k \in 1 .. Count /\ Count \in Nat /\ Count <= 2
  BY <1>1, CountFacts DEF LoopTypeOK, EngineTypeOK, BatchFits
<1>3. \/ k < Count /\ k' = k + 1 /\ phase' = "stage"
      \/ k = Count /\ k' = 1 /\ phase' = "compute"
  BY DEF NextStaged
<1>4. \A i, j \in 1 .. Count : experts[i] = experts[j] => i = j
  BY <1>1 DEF LoopTypeOK, Predictions
<1>5. \A i \in 1 .. Count : phase' = "compute" \/ i < k' => i < k \/ i = k
  BY <1>2, <1>3
<1>6. \A i \in 1 .. Count : KeyAt(i)' = KeyAt(i)
  BY DEF KeyAt
<1>7. ASSUME NEW i \in 1 .. Count, phase' = "compute" \/ (phase' = "stage" /\ i < k'),
             CanStage(experts[i])'
      PROVE  KeyAt(i)' \in Resident'
  <2>1. CASE i = k
    <3>1. CanStage(d)' /\ KeyAt(i) = x
      BY <1>7, <2>1 DEF CanStage
    <3> QED
      BY <1>6, <3>1
  <2>2. CASE i < k
    <3>1. i # k
      BY <1>2, <2>2
    <3>2. experts[i] # experts[k]
      BY <1>2, <1>4, <3>1
    <3>3. PICK e : e = experts[i]
      OBVIOUS
    <3>4. CanStage(e)'
      BY <1>7, <3>3 DEF CanStage
    <3>5. CanStage(e)
      BY <3>2, <3>3, <3>4
    <3>6. KeyAt(i) \in Resident
      BY <2>2, <3>3, <3>5 DEF BatchInv
    <3> QED
      BY <1>6, <2>2, <3>6
  <2> QED
    BY <1>5, <1>7, <2>1, <2>2
<1>8. ASSUME phase' = "stage", k' = 2, KeyAt(1)' \in Resident' PROVE Newest(KeyAt(1))'
  <2>1. k = 1
    BY <1>2, <1>3, <1>8
  <2>2. KeyAt(1)' = x
    BY <2>1 DEF KeyAt
  <2>3. Newest(x)'
    BY <1>8, <2>1, <2>2
  <2> QED
    BY <2>2, <2>3 DEF Newest
<1> QED
  BY <1>7, <1>8 DEF BatchInv

LEMMA BatchStageExpert ==
    ASSUME EngineInv, StatisticsInv, BatchInv, StageExpert PROVE BatchInv'
<1>1. /\ phase = "stage" /\ NextStaged
      /\ DOMAIN staging' = DOMAIN staging \cup {experts[k]}
      /\ Prefetch(<<layer, experts[k]>>, TopK - (k - 1))
      /\ UNCHANGED <<layer, experts>>
  BY DEF StageExpert
<1>2. LoopTypeOK /\ EngineTypeOK /\ PrefetchInv /\ CacheInv /\ CompactInv /\ CountInv
  BY DEF EngineInv, LoopTypeOK, PrefetchInv, StatisticsInv
<1>3. k \in 1 .. Count /\ Count \in Nat /\ KeyAt(k) \in Keys
  <2>1. k \in 1 .. Count /\ Count \in Nat
    BY <1>1, <1>2, CountFacts DEF LoopTypeOK, EngineTypeOK
  <2> QED
    BY <1>1, <1>2, <2>1, LoopFacts
<1>4. TopK - (k - 1) \in Priorities
  BY <1>3, CountFacts, EngineAssumption
<1>5. PICK x \in Keys, pr \in Priorities : x = KeyAt(k) /\ pr = TopK - (k - 1)
  BY <1>3, <1>4
<1>6. Prefetch(x, pr)
  <2>1. Prefetch(KeyAt(k), TopK - (k - 1))
    BY <1>1 DEF KeyAt
  <2> QED
    BY ONLY <1>5, <2>1
<1>7. /\ CompactInv' /\ x \in Resident'
      /\ tick' = tick + 1 /\ blocks'[x].last_used = tick' /\ blocks'[x].priority = pr
      /\ \A z \in Resident' : z # x => z \in Resident /\ blocks'[z] = blocks[z]
      /\ \A z \in Resident : z \notin Resident' =>
            /\ ~EnoughWithout({}, BlobSize[x])
            /\ \A w \in Resident : w # z => Score(blocks[z]) <= Score(blocks[w])
  BY <1>2, <1>6, PrefetchCounted
<1>8. ASSUME NEW e, e # experts[k] PROVE CanStage(e)' <=> CanStage(e)
  BY <1>1, <1>8, StageableAlone
<1>9. ASSUME BatchFits, NEW i \in 1 .. Count, i < k, KeyAt(i) \in Resident
      PROVE  KeyAt(i) \in Resident'
  <2> SUFFICES ASSUME KeyAt(i) \notin Resident' PROVE FALSE
    OBVIOUS
  <2>1. Count = 2 /\ k = 2 /\ i = 1
    BY <1>3, <1>9 DEF BatchFits
  <2>2. PICK z \in Resident : z = KeyAt(1) /\ z \notin Resident'
    BY <1>9, <2>1
  <2>3. Newest(z)
    BY <1>1, <1>9, <2>1, <2>2 DEF BatchInv
  <2>4. PICK n \in Sizes : n = BlobSize[x]
    BY PrefetcherAssumption
  <2>5. 2 * n <= Cap
    BY <1>9, <2>1, <2>4 DEF BatchFits
  <2>6. /\ ~EnoughWithout({}, n)
        /\ \A w \in Resident : w # z => Score(blocks[z]) <= Score(blocks[w])
    BY <1>7, <2>2, <2>4
  <2> QED
    BY <1>2, <2>3, <2>5, <2>6, NewestStays, EngineAssumption
<1>10. ASSUME k = 1 PROVE Newest(x)'
  <2>1. pr = TopK
    BY <1>5, <1>10, CountFacts
  <2>2. ASSUME NEW z \in Resident', z # x PROVE blocks'[z].last_used < tick'
    <3>1. z \in Resident /\ blocks'[z] = blocks[z]
      BY <1>7, <2>2
    <3>2. blocks[z].last_used <= tick /\ blocks[z] \in Block /\ tick \in Nat
      BY <1>2, <3>1 DEF CompactInv, CacheInv, CacheTypeOK
    <3>3. blocks[z].last_used \in Nat
      BY <3>2 DEF Block
    <3> QED
      BY <1>7, <3>1, <3>2, <3>3
  <2> QED
    BY <1>7, <2>1, <2>2 DEF Newest
<1>11. PICK d : d = experts[k]
  OBVIOUS
<1>12. \A e : e # d => (CanStage(e)' <=> CanStage(e))
  BY <1>8, <1>11
<1> QED
  BY <1>1, <1>5, <1>7, <1>9, <1>10, <1>11, <1>12, BatchStaged

LEMMA BatchNext ==
    ASSUME EngineInv, StatisticsInv, BatchInv, [EngineNext]_allVars PROVE BatchInv'
<1>1. LoopTypeOK /\ EngineTypeOK /\ PrefetchInv /\ CacheInv
  BY DEF EngineInv, LoopTypeOK, PrefetchInv
\* The compute loop evicts nothing.
<1>2. ASSUME phase = "compute", UNCHANGED <<phase, layer, experts, staging>>, Resident' = Resident
      PROVE  BatchInv'
  <2>1. /\ \A i : KeyAt(i)' = KeyAt(i) /\ (CanStage(experts[i])' <=> CanStage(experts[i]))
        /\ BatchFits' <=> BatchFits
    BY <1>2 DEF KeyAt, CanStage, BatchFits
  <2> QED
    BY <1>2, <2>1 DEF BatchInv
<1>3. CASE StageExpert
  BY <1>3, BatchStageExpert
<1>4. CASE StageMissing
  <2>1. /\ phase = "stage" /\ ~CanStage(experts[k]) /\ NextStaged
        /\ UNCHANGED <<blocks, layer, experts, staging>>
    BY <1>4 DEF StageMissing, vars, cacheVars
  <2>2. PICK x, d : x = KeyAt(k) /\ d = experts[k]
    OBVIOUS
  <2>3. Resident' = Resident /\ \A e : CanStage(e)' <=> CanStage(e)
    BY <2>1 DEF Resident, CanStage
  <2>4. x \notin Resident /\ ~CanStage(d)
    BY <2>1, <2>2 DEF EngineInv, StagedInv, CanStage, KeyAt
  <2> QED
    BY <2>1, <2>2, <2>3, <2>4, BatchStaged
<1>5. CASE ComputeMock
  <2>1. PICK x : /\ Touch(x) /\ phase = "compute"
                 /\ UNCHANGED <<phase, layer, experts, staging>>
    BY <1>5 DEF ComputeMock
  <2>2. Resident' = Resident
    BY <1>1, <2>1 DEF Touch, Resident, CacheInv, CacheTypeOK
  <2> QED
    BY <1>2, <2>1, <2>2
<1>6. CASE LaunchKernel \/ SkipExpert
  BY <1>2, <1>6 DEF LaunchKernel, SkipExpert, Wait, cacheVars, Resident
<1>7. CASE Generate \/ EndLayer \/ EndToken \/ Gather
  <2>1. phase' \notin {"stage", "compute"}
    BY <1>7 DEF Generate, EndLayer, EndToken, Gather
  <2> QED
    BY <2>1 DEF BatchInv
<1>8. CASE Predict
  <2>1. phase' = "stage" /\ k' = 1 /\ \A i \in 1 .. Count : ~(i < 1)
    BY <1>8, CountFacts DEF Predict
  <2> QED
    BY <2>1 DEF BatchInv
<1>9. CASE CopyStep \/ RunKernel \/ UNCHANGED allVars
  <2>1. UNCHANGED <<blocks, tick, phase, layer, experts, k, staging>>
    BY <1>9 DEF CopyStep, DeviceCopy, RunKernel, allVars, vars, cacheVars, engineVars
  <2>2. /\ Resident' = Resident
        /\ \A i : KeyAt(i)' = KeyAt(i) /\ (CanStage(experts[i])' <=> CanStage(experts[i]))
        /\ Newest(KeyAt(1))' <=> Newest(KeyAt(1))
        /\ BatchFits' <=> BatchFits
    BY <2>1 DEF Resident, KeyAt, CanStage, Newest, BatchFits
  <2> QED
    BY <2>1, <2>2 DEF BatchInv
<1> QED
  BY <1>3, <1>4, <1>5, <1>6, <1>7, <1>8, <1>9 DEF EngineNext, HostStep

\* "should not happen (wait guarantees resident)" (engine.cpp:92): with at most two
\* experts a layer, every expert of the layer that the shard holds is resident when
\* its turn comes, on every budget that has room for them.  The run engine_batch shows
\* that this fails with three.
THEOREM EngineBatch ==
    ASSUME CudaFails = FALSE, Count <= 2 PROVE EngineSpec => []BatchResident
<1>1. EngineInit => EngineInv /\ StatisticsInv /\ BatchInv
  BY InitEngineInv, StatisticsInit, BatchInit
<1>2. EngineInv /\ StatisticsInv /\ BatchInv /\ [EngineNext]_allVars
        => (EngineInv /\ StatisticsInv /\ BatchInv)'
  BY NextEngineInv, StatisticsNext, BatchNext
<1>3. EngineInv /\ BatchInv => BatchResident
  <2> SUFFICES ASSUME EngineInv, BatchInv, phase = "compute", \A n \in Sizes : Count * n <= Cap,
                      NEW i \in k .. Count, CanStage(experts[i])
               PROVE  <<layer, experts[i]>> \in Resident
    BY DEF BatchResident
  <2>1. BatchFits
    BY DEF BatchFits
  <2>2. i \in 1 .. Count
    BY CountFacts DEF EngineInv, LoopTypeOK, EngineTypeOK
  <2> QED
    BY <2>1, <2>2 DEF BatchInv, KeyAt
<1> QED
  BY <1>1, <1>2, <1>3, PTL DEF EngineSpec
------------------------------------------------------------------------------
(***************************************************************************)
(* What generate() skips                                                    *)
(*                                                                         *)
(* A wait finds no transfer exactly for the experts that were never staged, *)
(* and those are the ones a layer skips, if its batch fits.                 *)
(***************************************************************************)
SkipInv ==
    /\ stats.fallbacks = 0
    /\ \A x \in DOMAIN key_to_idx : x[2] \in DOMAIN staging
    /\ BatchFits => pstats.fallbacks = estats.prefetch_fallbacks + estats.fallbacks

\* A prefetch counts no fallback and enters one key.
LEMMA PrefetchSkips ==
    ASSUME CacheInv, PrefetcherTypeOK, NEW x, NEW pr, Prefetch(x, pr)
    PROVE  /\ stats'.fallbacks = stats.fallbacks /\ pstats'.fallbacks = pstats.fallbacks
           /\ DOMAIN key_to_idx' \subseteq DOMAIN key_to_idx \cup {x}
<1>1. stats \in Stats /\ pstats \in [issued : Nat, waited : Nat, fallbacks : Nat]
  BY DEF CacheInv, CacheTypeOK, PrefetcherTypeOK
<1>2. stats'.fallbacks = stats.fallbacks
  <2>1. \/ stats' = [stats EXCEPT !.ensures = @ + 1, !.hits = @ + 1]
        \/ \E a, b : stats' = [stats EXCEPT !.ensures = @ + 1, !.loads = a, !.evictions = b,
                                            !.fallbacks = @ + 0]
    BY DEF Prefetch, Ensure, EnsureHit, EnsureMiss
  <2>2. stats.fallbacks \in Nat
    BY <1>1 DEF Stats
  <2>3. ASSUME NEW a, NEW b,
               stats' = [stats EXCEPT !.ensures = @ + 1, !.loads = a, !.evictions = b,
                                      !.fallbacks = @ + 0]
        PROVE  stats'.fallbacks = stats.fallbacks
    <3>1. stats'.fallbacks = stats.fallbacks + 0
      BY ONLY <1>1, <2>3 DEF Stats
    <3> QED
      BY ONLY <2>2, <3>1
  <2>4. ASSUME stats' = [stats EXCEPT !.ensures = @ + 1, !.hits = @ + 1]
        PROVE  stats'.fallbacks = stats.fallbacks
    BY ONLY <1>1, <2>4 DEF Stats
  <2> QED
    BY ONLY <2>1, <2>3, <2>4
<1>3. \/ UNCHANGED <<key_to_idx, pstats>>
      \/ /\ pstats' = [pstats EXCEPT !.issued = @ + 1]
         /\ DOMAIN key_to_idx' = DOMAIN key_to_idx \cup {x}
  BY DEF Prefetch, Enqueue
<1> QED
  BY <1>1, <1>2, <1>3

\* A wait for a known expert counts no fallback, one for an unknown expert counts one.
LEMMA WaitSkips ==
    ASSUME PrefetcherTypeOK, NEW x, WaitStep(x)
    PROVE  /\ x \in DOMAIN key_to_idx => pstats'.fallbacks = pstats.fallbacks
           /\ x \notin DOMAIN key_to_idx => pstats'.fallbacks = pstats.fallbacks + 1
           /\ key_to_idx' = key_to_idx
<1>1. pstats \in [issued : Nat, waited : Nat, fallbacks : Nat]
  BY DEF PrefetcherTypeOK
<1>2. /\ x \in DOMAIN key_to_idx => pstats' = [pstats EXCEPT !.waited = @ + 1]
      /\ x \notin DOMAIN key_to_idx
           => pstats' = [pstats EXCEPT !.waited = @ + 1, !.fallbacks = @ + 1]
      /\ key_to_idx' = key_to_idx
  BY DEF WaitStep, WaitUnknown, WaitMock, WaitCuda
<1> QED
  BY <1>1, <1>2

LEMMA SkipInit == EngineInit => SkipInv
<1> SUFFICES ASSUME EngineInit PROVE SkipInv
  OBVIOUS
<1>1. /\ stats = [ensures |-> 0, hits |-> 0, loads |-> 0, evictions |-> 0, fallbacks |-> 0]
      /\ pstats = [issued |-> 0, waited |-> 0, fallbacks |-> 0] /\ DOMAIN key_to_idx = {}
  BY DEF EngineInit, Init, CacheInit, PrefetcherInit
<1>2. estats.fallbacks = 0 /\ estats.prefetch_fallbacks = 0
  BY DEF EngineInit
<1> QED
  BY <1>1, <1>2 DEF SkipInv

LEMMA SkipNext ==
    ASSUME EngineInv, StatisticsInv, BatchInv, SkipInv, [EngineNext]_allVars PROVE SkipInv'
<1>1. /\ CacheInv /\ PrefetcherTypeOK /\ LoopTypeOK /\ EngineTypeOK /\ StagedInv
      /\ estats \in EngineStats /\ pstats \in [issued : Nat, waited : Nat, fallbacks : Nat]
  BY DEF EngineInv, StatisticsInv, GatheredInv, PrefetchInv, LoopTypeOK, PrefetcherTypeOK
<1>2. /\ estats.fallbacks \in Nat /\ estats.prefetch_fallbacks \in Nat /\ pstats.fallbacks \in Nat
      /\ BatchFits' <=> BatchFits
  BY <1>1 DEF EngineStats, BatchFits
\* Steps that count nothing.
<1>3. ASSUME stats'.fallbacks = stats.fallbacks, pstats'.fallbacks = pstats.fallbacks,
             estats'.fallbacks = estats.fallbacks,
             estats'.prefetch_fallbacks = estats.prefetch_fallbacks,
             \A x \in DOMAIN key_to_idx' : x[2] \in DOMAIN staging'
      PROVE  SkipInv'
  BY <1>2, <1>3 DEF SkipInv
<1>4. ASSUME UNCHANGED <<stats, pstats, key_to_idx, staging>>,
             estats'.fallbacks = estats.fallbacks,
             estats'.prefetch_fallbacks = estats.prefetch_fallbacks
      PROVE  SkipInv'
  BY <1>3, <1>4 DEF SkipInv
<1>5. CASE StageExpert
  <2>1. /\ Prefetch(<<layer, experts[k]>>, TopK - (k - 1)) /\ UNCHANGED estats
        /\ DOMAIN staging' = DOMAIN staging \cup {experts[k]}
    BY <1>5 DEF StageExpert
  <2>2. PICK x, pr : x = <<layer, experts[k]>> /\ pr = TopK - (k - 1)
    OBVIOUS
  <2>3. Prefetch(x, pr)
    BY ONLY <2>1, <2>2
  <2>4. /\ stats'.fallbacks = stats.fallbacks /\ pstats'.fallbacks = pstats.fallbacks
        /\ DOMAIN key_to_idx' \subseteq DOMAIN key_to_idx \cup {x}
    BY <1>1, <2>3, PrefetchSkips
  <2>5. x[2] = experts[k]
    BY <2>2
  <2>6. \A z \in DOMAIN key_to_idx' : z[2] \in DOMAIN staging'
    BY <2>1, <2>4, <2>5 DEF SkipInv
  <2> QED
    BY <1>3, <2>1, <2>4, <2>6
\* The compute loop waits for the k-th expert.
<1>6. ASSUME phase = "compute", k <= Count
      PROVE  /\ KeyAt(k) \in Resident => KeyAt(k) \in DOMAIN key_to_idx
             /\ BatchFits /\ KeyAt(k) \notin Resident => KeyAt(k) \notin DOMAIN key_to_idx
  <2>1. k \in 1 .. Count
    BY <1>1, <1>6, CountFacts DEF EngineTypeOK
  <2>2. BatchFits /\ KeyAt(k) \notin Resident => experts[k] \notin DOMAIN staging
    BY <1>6, <2>1 DEF BatchInv, CanStage
  <2>3. KeyAt(k)[2] = experts[k]
    BY DEF KeyAt
  <2> QED
    BY <1>1, <1>6, <2>1, <2>2, <2>3 DEF StagedInv, SkipInv
<1>7. CASE ComputeMock \/ LaunchKernel
  <2>1. /\ phase = "compute" /\ k <= Count /\ KeyAt(k) \in Resident
        /\ WaitStep(KeyAt(k)) /\ UNCHANGED <<stats, staging, estats>>
    BY <1>7 DEF ComputeMock, LaunchKernel, Wait, Touch, cacheVars, KeyAt
  <2>2. PICK x : x = KeyAt(k)
    OBVIOUS
  <2>3. WaitStep(x) /\ x \in DOMAIN key_to_idx
    BY <1>6, <2>1, <2>2
  <2>4. pstats'.fallbacks = pstats.fallbacks /\ key_to_idx' = key_to_idx
    BY <1>1, <2>3, WaitSkips
  <2> QED
    BY <1>3, <2>1, <2>4 DEF SkipInv
<1>8. CASE SkipExpert
  <2>1. /\ phase = "compute" /\ k <= Count /\ KeyAt(k) \notin Resident
        /\ WaitStep(KeyAt(k)) /\ UNCHANGED <<stats, staging>>
        /\ estats' = [estats EXCEPT !.fallbacks = @ + 1]
    BY <1>8 DEF SkipExpert, Wait, cacheVars, KeyAt
  <2>2. PICK x : x = KeyAt(k)
    OBVIOUS
  <2>3. WaitStep(x) /\ (BatchFits => x \notin DOMAIN key_to_idx)
    BY <1>6, <2>1, <2>2
  <2>4. /\ BatchFits => pstats'.fallbacks = pstats.fallbacks + 1
        /\ key_to_idx' = key_to_idx
    BY <1>1, <2>3, WaitSkips
  <2>5. /\ estats'.fallbacks = estats.fallbacks + 1
        /\ estats'.prefetch_fallbacks = estats.prefetch_fallbacks
    BY <1>1, <2>1 DEF EngineStats
  <2> QED
    BY <1>2, <2>1, <2>4, <2>5 DEF SkipInv
<1>9. CASE EndToken
  <2>1. /\ estats' = [estats EXCEPT !.peak_vram = Peak(UsedBytes(arena))]
        /\ UNCHANGED <<stats, pstats, key_to_idx, staging>>
    BY <1>9 DEF EndToken, vars, cacheVars, pfVars
  <2>2. estats'.fallbacks = estats.fallbacks /\ estats'.prefetch_fallbacks = estats.prefetch_fallbacks
    BY <1>1, <2>1 DEF EngineStats
  <2> QED
    BY <1>4, <2>1, <2>2
\* The count starts again at the cache's, which is 0.
<1>10. CASE Gather
  <2>1. /\ estats' = [estats EXCEPT !.cache_hits = stats.hits, !.cache_loads = stats.loads,
                                    !.evictions = stats.evictions, !.fallbacks = stats.fallbacks,
                                    !.prefetch_issued = pstats.issued,
                                    !.prefetch_fallbacks = pstats.fallbacks]
        /\ UNCHANGED <<stats, pstats, staging>> /\ DOMAIN key_to_idx' = {}
    BY <1>10 DEF Gather, Reset, cacheVars
  <2>2. estats'.fallbacks = stats.fallbacks /\ estats'.prefetch_fallbacks = pstats.fallbacks
    BY <1>1, <2>1 DEF EngineStats
  <2> QED
    BY <1>2, <2>1, <2>2 DEF SkipInv
<1>11. CASE Generate \/ Predict \/ StageMissing \/ EndLayer
  <2>1. UNCHANGED <<stats, pstats, key_to_idx, staging, estats>>
    BY <1>11 DEF Generate, Predict, StageMissing, EndLayer, vars, cacheVars, pfVars
  <2> QED
    BY <1>4, <2>1
<1>12. CASE CopyStep \/ RunKernel \/ UNCHANGED allVars
  <2>1. UNCHANGED <<stats, pstats, key_to_idx, staging, estats>>
    BY <1>12 DEF CopyStep, DeviceCopy, RunKernel, allVars, vars, cacheVars, pfVars, engineVars
  <2> QED
    BY <1>4, <2>1
<1> QED
  BY <1>5, <1>7, <1>8, <1>9, <1>10, <1>11, <1>12 DEF EngineNext, HostStep

\* With at most two experts a layer and room for them, the skipped experts whose count
\* generate() overwrites (engine.cpp:251) are those the prefetcher reports.
THEOREM EngineSkipsReported ==
    ASSUME CudaFails = FALSE, Count <= 2 PROVE EngineSpec => []SkipsStillReported
<1>1. EngineInit => EngineInv /\ StatisticsInv /\ BatchInv /\ SkipInv
  BY InitEngineInv, StatisticsInit, BatchInit, SkipInit
<1>2. EngineInv /\ StatisticsInv /\ BatchInv /\ SkipInv /\ [EngineNext]_allVars
        => (EngineInv /\ StatisticsInv /\ BatchInv /\ SkipInv)'
  BY NextEngineInv, StatisticsNext, BatchNext, SkipNext
<1>3. SkipInv => SkipsStillReported
  BY DEF SkipInv, SkipsStillReported, BatchFits
<1> QED
  BY <1>1, <1>2, <1>3, PTL DEF EngineSpec
=============================================================================
