------------------------------- MODULE Triton -------------------------------
(***************************************************************************)
(* run_triton_prefetch (modal_step4_triton_kernel.py): a table of GPU slots *)
(* kept in step with an ExpertCache, filled over two CUDA streams.  The     *)
(* host queues a load as a copy into the one staging buffer and a kernel    *)
(* that moves it to the slot: on the prefetch stream for predicted experts, *)
(* on the main stream for those missing when they are requested.  The main  *)
(* stream then stacks all resident blocks for the matmul.  A block or       *)
(* buffer is abstracted to the expert whose weights it holds.               *)
(***************************************************************************)
EXTENDS ExpertCache, Sequences

CONSTANTS NumTokens,  \* n_tokens
          Blank       \* what a block or the staging buffer holds before the first copy

ASSUME TritonAssumption == NumTokens \in Nat /\ Blank \notin Experts

Slots == 0 .. Capacity - 1
NoSlot == -1

VARIABLES phase, t,
          todo,        \* experts the loop at hand has still to bring in
          slot_of,     \* slot_of_expert
          free_slots,  \* free_slots; which of several is taken is immaterial
          evictions_total, misses_total,
          main, pref,  \* work queued on main_stream and prefetch_stream
          stage,       \* the expert in the staging buffer
          pool,        \* the expert in each slot of vram_pool
          read         \* <<expert, contents>> of the blocks last stacked

hostVars == <<phase, t, todo, slot_of, free_slots, evictions_total, misses_total>>
deviceVars == <<main, pref, stage, pool, read>>
vars == <<poolVars, hostVars, deviceVars>>

Contents == Experts \cup {Blank}

\* list(range(capacity)).
InitialFree == 0 .. Capacity - 1

TritonInit ==
    /\ PoolInit
    /\ phase = "predict" /\ t = 0 /\ todo = {}
    /\ slot_of = [e \in Experts |-> NoSlot]
    /\ free_slots = InitialFree
    /\ evictions_total = 0 /\ misses_total = 0
    /\ main = <<>> /\ pref = <<>>
    /\ stage = Blank
    /\ pool = [s \in Slots |-> Blank]
    /\ read = {}
------------------------------------------------------------------------------
\* ensure_resident evicts V to free a slot.
Freed(V) ==
    \/ free_slots # {} /\ V = {}
    \/ free_slots = {} /\ \E d \in Victims(vram) : V = {d}

\* The two operations of a load of expert e into slot s.
Transfer(e, s) == <<[op |-> "h2d", expert |-> e], [op |-> "d2d", slot |-> s]>>

\* ensure_resident of an expert that is not resident takes slot s for it; the caller
\* queues the load.  cache.prefetch then looks at the capacity once more, and what
\* it evicts (W) keeps its slot.
Bring(e, token, s) ==
    /\ e \notin vram
    /\ \E V \in SUBSET vram : \E W \in SUBSET (vram \ V) :
          LET freed == free_slots \cup {slot_of[d] : d \in V} IN
          /\ Freed(V)
          /\ s \in freed
          /\ free_slots' = freed \ {s}
          /\ slot_of' = [d \in Experts |-> IF d = e THEN s
                                           ELSE IF d \in V THEN NoSlot
                                           ELSE slot_of[d]]
          /\ evictions_total' = evictions_total + Cardinality(V)
          /\ MakesRoom(vram \ V, W)
          /\ vram' = (vram \ (V \cup W)) \cup {e}
          /\ evictions' = evictions + Cardinality(V) + Cardinality(W)
    /\ loads' = loads + 1 /\ prefetches' = prefetches + 1
    /\ last_used' = [last_used EXCEPT ![e] = token]
    /\ UNCHANGED lookahead_rank

\* e is the next of todo in the order of pred_topk.
IsNext(e) == \A d \in todo : lookahead_rank[e] <= lookahead_rank[d]
------------------------------------------------------------------------------
\* Mutant of Predict: the prediction does not come from the device.
PredictNoSync ==
    /\ phase = "predict" /\ t + 2 < NumTokens
    /\ lookahead_rank' \in Rankings
    /\ todo' = DOMAIN lookahead_rank' \ vram
    /\ phase' = IF todo' = {} THEN "join" ELSE "prefetch"
    /\ UNCHANGED <<vram, last_used, loads, prefetches, evictions, t, slot_of, free_slots,
                   evictions_total, misses_total, deviceVars>>

\* The Oracle runs on the main stream, and tolist() waits for its result: all work
\* queued there before is done.
Predict ==
    /\ phase = "predict" /\ t + 2 < NumTokens
    /\ main = <<>>
    /\ lookahead_rank' \in Rankings
    /\ todo' = DOMAIN lookahead_rank' \ vram
    /\ phase' = IF todo' = {} THEN "join" ELSE "prefetch"
    /\ UNCHANGED <<vram, last_used, loads, prefetches, evictions, t, slot_of, free_slots,
                   evictions_total, misses_total, deviceVars>>

PrefetchStep ==
    /\ phase = "prefetch"
    /\ \E e \in todo, s \in Slots :
          /\ IsNext(e)
          /\ Bring(e, t, s)
          /\ pref' = pref \o Transfer(e, s)
          /\ todo' = todo \ {e}
    /\ UNCHANGED <<phase, t, misses_total, main, stage, pool, read>>

\* Mutant of DeviceSynchronize: the host waits for a matmul over the experts it has
\* just loaded, which it queues only after the wait.
DeviceSynchronizeForStack ==
    /\ phase = "prefetch" /\ todo = {}
    /\ main = <<>> /\ pref = <<>>
    /\ {r[1] : r \in read} = vram
    /\ phase' = "join"
    /\ UNCHANGED <<poolVars, t, todo, slot_of, free_slots, evictions_total, misses_total,
                   deviceVars>>

\* torch.cuda.synchronize(prefetch_stream): an argument that is no device stands for
\* the current device, all of whose streams are waited for.
DeviceSynchronize ==
    /\ phase = "prefetch" /\ todo = {}
    /\ main = <<>> /\ pref = <<>>
    /\ phase' = "join"
    /\ UNCHANGED <<poolVars, t, todo, slot_of, free_slots, evictions_total, misses_total,
                   deviceVars>>

\* main_stream.synchronize(); the requested experts are the predicted ones.
MainSynchronize ==
    /\ phase = "join"
    /\ main = <<>>
    /\ phase' = "serve"
    /\ todo' = Predicted
    /\ UNCHANGED <<poolVars, t, slot_of, free_slots, evictions_total, misses_total, deviceVars>>

ServeHit ==
    /\ phase = "serve"
    /\ \E e \in todo : IsNext(e) /\ e \in vram /\ todo' = todo \ {e}
    /\ UNCHANGED <<poolVars, phase, t, slot_of, free_slots, evictions_total, misses_total,
                   deviceVars>>

ServeMiss ==
    /\ phase = "serve"
    /\ \E e \in todo, s \in Slots :
          /\ IsNext(e)
          /\ Bring(e, t + 1, s)
          /\ main' = main \o Transfer(e, s)
          /\ todo' = todo \ {e}
    /\ misses_total' = misses_total + 1
    /\ UNCHANGED <<phase, t, pref, stage, pool, read>>

\* torch.stack over the resident experts' slots and the matmul.
Compute ==
    /\ phase = "serve" /\ todo = {}
    /\ main' = IF \E e \in Experts : slot_of[e] # NoSlot
               THEN Append(main, [op |-> "stack", table |-> slot_of])
               ELSE main
    /\ phase' = "predict" /\ t' = t + 1
    /\ UNCHANGED <<poolVars, todo, slot_of, free_slots, evictions_total, misses_total, pref,
                   stage, pool, read>>

\* A stream performs an operation.
Perform(w) ==
    \/ w.op = "h2d" /\ stage' = w.expert /\ UNCHANGED <<pool, read>>
    \/ w.op = "d2d" /\ pool' = [pool EXCEPT ![w.slot] = stage] /\ UNCHANGED <<stage, read>>
    \/ /\ w.op = "stack"
       /\ read' = {<<e, pool[w.table[e]]>> : e \in {e \in Experts : w.table[e] # NoSlot}}
       /\ UNCHANGED <<stage, pool>>

MainStep ==
    /\ main # <<>>
    /\ Perform(Head(main)) /\ main' = Tail(main)
    /\ UNCHANGED <<poolVars, hostVars, pref>>

PrefStep ==
    /\ pref # <<>>
    /\ Perform(Head(pref)) /\ pref' = Tail(pref)
    /\ UNCHANGED <<poolVars, hostVars, main>>

HostStep ==
    \/ Predict \/ PrefetchStep \/ DeviceSynchronize \/ MainSynchronize
    \/ ServeHit \/ ServeMiss \/ Compute

TritonNext == HostStep \/ MainStep \/ PrefStep

\* The host thread runs on, and the streams make progress on what is queued.
TritonSpec ==
    /\ TritonInit /\ [][TritonNext]_vars
    /\ WF_vars(HostStep) /\ WF_vars(MainStep) /\ WF_vars(PrefStep)
------------------------------------------------------------------------------
\* "Keeps `slot_of_expert` in lockstep with `cache.vram`": the experts with a slot
\* are those in the pool, no two share a slot, the free slots are exactly the
\* others, and the cache never evicts one behind ensure_resident's back.
SlotsInLockstep ==
    /\ vram = {e \in Experts : slot_of[e] # NoSlot}
    /\ \A d, e \in vram : slot_of[d] = slot_of[e] => d = e
    /\ free_slots = Slots \ {slot_of[e] : e \in vram}
    /\ evictions = evictions_total

\* "the main stream only touches experts that have finished arriving": each block
\* the matmul reads holds the weights of the expert the slot table names, although
\* both streams fill slots through one staging buffer and the host goes on to evict
\* and reload while the stack is queued.
StackReadsOwnWeights == \A r \in read : r[1] = r[2]

\* Both streams are drained in the end and the loop completes: none of its three
\* waits, on the prediction, the device and the main stream, is for work the host
\* has yet to queue.
PipelineCompletes == <>(phase = "predict" /\ t + 2 >= NumTokens /\ main = <<>> /\ pref = <<>>)
=============================================================================
