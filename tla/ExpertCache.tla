----------------------------- MODULE ExpertCache -----------------------------
(***************************************************************************)
(* ExpertCache (modal_step3_cache_manager.py, and the copy of it in          *)
(* modal_step4_triton_kernel.py): the simulated VRAM pool with              *)
(* look-ahead eviction.  The pool is a set of expert ids; the Oracle's      *)
(* prediction is the dict _lookahead_rank, here a function from the         *)
(* predicted experts to their ranks.  Of the per-expert counters and the    *)
(* log only the totals that stats() reports are kept.                       *)
(***************************************************************************)
EXTENDS Integers, FiniteSets

CONSTANTS Experts,   \* expert ids
          Capacity,  \* capacity
          TopKPred   \* _top_k_pred

ASSUME ExpertCacheAssumption ==
    /\ IsFiniteSet(Experts)
    /\ Capacity \in Nat \ {0}
    /\ TopKPred \in 1 .. Cardinality(Experts)

VARIABLES vram,            \* vram
          last_used,       \* last_used, 0 for an expert it does not hold
          lookahead_rank,  \* _lookahead_rank
          loads,           \* the sum of load_count
          prefetches,      \* the sum of prefetch_count
          evictions        \* the ("evict", ...) entries of async_ops

poolVars == <<vram, last_used, lookahead_rank, loads, prefetches, evictions>>

Predicted == DOMAIN lookahead_rank

\* torch.topk(scores, top_k_pred): TopKPred experts in the order of their scores.
Rankings ==
    UNION {{r \in [S -> 0 .. TopKPred - 1] : \A d, e \in S : r[d] = r[e] => d = e} :
             S \in {S \in SUBSET Experts : Cardinality(S) = TopKPred}}

PoolTypeOK ==
    /\ vram \subseteq Experts
    /\ last_used \in [Experts -> Nat]
    /\ lookahead_rank \in Rankings \cup {[e \in {} |-> 0]}
    /\ loads \in Nat /\ prefetches \in Nat /\ evictions \in Nat

PoolInit ==
    /\ vram = {}
    /\ last_used = [e \in Experts |-> 0]
    /\ lookahead_rank = [e \in {} |-> 0]
    /\ loads = 0 /\ prefetches = 0 /\ evictions = 0
------------------------------------------------------------------------------
\* Mutant of KeepBase: the rank is used where its complement is meant.
KeepBaseReversed(e) == IF e \in Predicted THEN lookahead_rank[e] - TopKPred ELSE -1

\* keep_score's first component.
KeepBase(e) == IF e \in Predicted THEN TopKPred - lookahead_rank[e] ELSE -1

\* Mutant of KeepsNoLonger: blind LRU.
KeepsNoLongerLRU(d, e) == last_used[d] <= last_used[e]

\* keep_score(d) <= keep_score(e), compared as tuples.
KeepsNoLonger(d, e) ==
    \/ KeepBase(d) < KeepBase(e)
    \/ KeepBase(d) = KeepBase(e) /\ last_used[d] <= last_used[e]

\* What evict() may remove from the pool P; min() takes any of equal scores.
Victims(P) == {d \in P : \A e \in P : KeepsNoLonger(d, e)}

\* Mutant of MakesRoom: a full pool is taken for one with room.
MakesRoomLate(P, V) ==
    \/ Cardinality(P) <= Capacity /\ V = {}
    \/ Cardinality(P) > Capacity /\ \E d \in Victims(P) : V = {d}

\* Mutant of MakesRoom: the last place is never used.
MakesRoomEarly(P, V) ==
    \/ Cardinality(P) + 1 < Capacity /\ V = {}
    \/ Cardinality(P) + 1 >= Capacity /\ \E d \in Victims(P) : V = {d}

\* V is evicted from the pool P to make room for one expert.
MakesRoom(P, V) ==
    \/ Cardinality(P) < Capacity /\ V = {}
    \/ Cardinality(P) >= Capacity /\ \E d \in Victims(P) : V = {d}

\* Bring an expert in: prefetch_delta's loop body and request_expert's miss.
Load(e, token) ==
    /\ \E V \in SUBSET vram :
          /\ MakesRoom(vram, V)
          /\ vram' = (vram \ V) \cup {e}
          /\ evictions' = evictions + Cardinality(V)
    /\ loads' = loads + 1
    /\ last_used' = [last_used EXCEPT ![e] = token]

PrefetchMissing(e, token) ==
    /\ Load(e, token)
    /\ prefetches' = prefetches + 1
    /\ UNCHANGED lookahead_rank

RequestHit(e, token) ==
    /\ e \in vram
    /\ last_used' = [last_used EXCEPT ![e] = token]
    /\ UNCHANGED <<vram, lookahead_rank, loads, prefetches, evictions>>

RequestMiss(e, token) ==
    /\ e \notin vram
    /\ Load(e, token)
    /\ UNCHANGED <<lookahead_rank, prefetches>>
=============================================================================
