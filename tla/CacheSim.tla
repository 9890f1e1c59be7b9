------------------------------ MODULE CacheSim ------------------------------
(***************************************************************************)
(* run_simulation and run_sweep (modal_step3_cache_manager.py): the replay  *)
(* of one layer's routing data through an ExpertCache.  At token t the      *)
(* Oracle's ranking is set and what is missing of it prefetched; then the   *)
(* true experts of t + 1 and of t + 2 are requested.  The Oracle and the    *)
(* data are arbitrary.                                                      *)
(***************************************************************************)
EXTENDS ExpertCache

CONSTANTS NumTokens,  \* T, the length of the replay
          RoutedK     \* experts a token is routed to

ASSUME SimAssumption == NumTokens \in Nat /\ RoutedK \in Nat

VARIABLES phase,   \* "predict", "delta" or "serve"
          t,
          offset,  \* 1 or 2 while serving
          todo,    \* experts the loop at hand has still to prefetch or request
          hits, miss,
          miss_before  \* miss when the last prediction was made (history)

simVars == <<phase, t, offset, todo, hits, miss, miss_before>>
vars == <<poolVars, simVars>>

Routings == {S \in SUBSET Experts : Cardinality(S) = RoutedK}

SimTypeOK ==
    /\ PoolTypeOK
    /\ phase \in {"predict", "delta", "serve"}
    /\ t \in Nat
    /\ offset \in {1, 2}
    /\ todo \in SUBSET Experts
    /\ hits \in Nat /\ miss \in Nat /\ miss_before \in Nat

SimInit ==
    /\ PoolInit
    /\ phase = "predict" /\ t = 0 /\ offset = 1 /\ todo = {}
    /\ hits = 0 /\ miss = 0 /\ miss_before = 0
------------------------------------------------------------------------------
\* set_lookahead_ranked, and prefetch_delta collects what is missing.
Predict ==
    /\ phase = "predict" /\ t + 2 < NumTokens
    /\ lookahead_rank' \in Rankings
    /\ todo' = DOMAIN lookahead_rank' \ vram
    /\ phase' = "delta"
    /\ miss_before' = miss
    /\ UNCHANGED <<vram, last_used, loads, prefetches, evictions, t, offset, hits, miss>>

\* prefetch_delta's loop: the missing experts in the order of their ranks.
DeltaStep ==
    /\ phase = "delta"
    /\ \E e \in todo :
          /\ \A d \in todo : lookahead_rank[e] <= lookahead_rank[d]
          /\ PrefetchMissing(e, t)
          /\ todo' = todo \ {e}
    /\ UNCHANGED <<phase, t, offset, hits, miss, miss_before>>

\* The loop over a token's true experts starts.
StartServing ==
    /\ phase = "delta" /\ todo = {}
    /\ phase' = "serve" /\ offset' = 1
    /\ todo' \in Routings
    /\ UNCHANGED <<poolVars, t, hits, miss, miss_before>>

\* request_expert of one true expert, in the order the data lists them.
ServeHit ==
    /\ phase = "serve"
    /\ \E e \in todo : RequestHit(e, t + offset) /\ todo' = todo \ {e}
    /\ hits' = hits + 1
    /\ UNCHANGED <<phase, t, offset, miss, miss_before>>

ServeMiss ==
    /\ phase = "serve"
    /\ \E e \in todo : RequestMiss(e, t + offset) /\ todo' = todo \ {e}
    /\ miss' = miss + 1
    /\ UNCHANGED <<phase, t, offset, hits, miss_before>>

\* After t + 1 the experts of t + 2 are requested.
NextServed ==
    /\ phase = "serve" /\ todo = {} /\ offset = 1
    /\ offset' = 2
    /\ todo' \in Routings
    /\ UNCHANGED <<poolVars, phase, t, hits, miss, miss_before>>

NextToken ==
    /\ phase = "serve" /\ todo = {} /\ offset = 2
    /\ phase' = "predict" /\ t' = t + 1
    /\ UNCHANGED <<poolVars, offset, todo, hits, miss, miss_before>>

SimNext ==
    \/ Predict \/ DeltaStep \/ StartServing
    \/ ServeHit \/ ServeMiss \/ NextServed \/ NextToken

SimSpec == SimInit /\ [][SimNext]_vars
------------------------------------------------------------------------------
\* run_sweep: "can't predict more than we can hold".
FitsPool == TopKPred <= Capacity

\* What the look-ahead is for: from the end of prefetch_delta until the first miss
\* of the two tokens served, every predicted expert is in the pool.  So a request
\* for a predicted expert can only miss after a request the Oracle did not
\* foresee, whatever the pool held before and whatever prefetching evicted.
NoMissBeforeASurprise ==
    /\ FitsPool
    /\ phase = "serve" \/ (phase = "delta" /\ todo = {})
    /\ miss = miss_before
    => Predicted \subseteq vram

\* "evicting at most 5": no step of prefetch_delta evicts a predicted expert,
\* neither one it found in the pool nor one it has just loaded.
DeltaSparesPredicted ==
    [][FitsPool /\ phase = "delta" => Predicted \cap vram \subseteq vram']_vars

\* The numbers of stats() and of the summary agree: every expert in the pool was
\* loaded, every other load evicted, every load is a prefetch or a miss, and the
\* pool keeps its bound.
LoadsAccountedFor ==
    /\ Cardinality(vram) <= Capacity
    /\ loads = Cardinality(vram) + evictions
    /\ loads = prefetches + miss

\* The inductive invariant behind NoMissBeforeASurprise: while prefetch_delta runs,
\* its list holds only predicted experts the pool lacks, and all of them if the
\* prediction fits the pool.
SimInv ==
    /\ SimTypeOK
    /\ LoadsAccountedFor
    /\ miss_before <= miss
    /\ phase = "delta" =>
          /\ miss = miss_before
          /\ todo \subseteq Predicted \ vram
          /\ lookahead_rank \in Rankings
    /\ phase = "delta" /\ FitsPool => Predicted \ vram \subseteq todo
    /\ phase = "serve" /\ FitsPool /\ miss = miss_before => Predicted \subseteq vram
=============================================================================
