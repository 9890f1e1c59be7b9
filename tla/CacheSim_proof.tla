--------------------------- MODULE CacheSim_proof ---------------------------
(***************************************************************************)
(* Proofs about the replay of CacheSim, for every set of experts, capacity, *)
(* prediction width and replay length.  The heart is a pigeonhole argument: *)
(* while a predicted expert is missing from a full pool that could hold the *)
(* whole prediction, the pool holds an expert that is not predicted, and    *)
(* the keep score makes evict() take such a one.                            *)
(***************************************************************************)
EXTENDS CacheSim, FiniteSetTheorems, TLAPS

\* evict() takes an unpredicted expert of a pool that holds one: a predicted one
\* scores at least 1, an unpredicted one -1.
LEMMA VictimUnpredicted ==
    ASSUME PoolTypeOK, lookahead_rank \in Rankings,
           NEW v \in Victims(vram), NEW u \in vram, u \notin Predicted
    PROVE  v \notin Predicted
<1>1. KeepBase(u) = -1
  BY DEF KeepBase
<1>2. ASSUME v \in Predicted PROVE FALSE
  <2>1. PICK S \in SUBSET Experts : lookahead_rank \in [S -> 0 .. TopKPred - 1]
    BY DEF Rankings
  <2>2. lookahead_rank[v] \in 0 .. TopKPred - 1 /\ TopKPred \in Int
    BY <1>2, <2>1, ExpertCacheAssumption, FS_CardinalityType DEF Predicted
  <2>3. KeepBase(v) >= 1
    BY <1>2, <2>2 DEF KeepBase
  <2>4. KeepBase(v) <= KeepBase(u)
    BY <1>1, <2>2, <1>2 DEF Victims, KeepsNoLonger, KeepBase
  <2> QED
    BY <1>1, <2>2, <2>3, <2>4, <1>2 DEF KeepBase
<1> QED
  BY <1>2

\* The pigeonhole: a full pool that lacks a predicted expert holds an unpredicted
\* one.
LEMMA FullPoolHoldsUnpredicted ==
    ASSUME PoolTypeOK, lookahead_rank \in Rankings, FitsPool,
           Cardinality(vram) >= Capacity,
           NEW e \in Predicted, e \notin vram
    PROVE  \E u \in vram : u \notin Predicted
<1>1. PICK S \in SUBSET Experts : /\ Cardinality(S) = TopKPred
                                  /\ lookahead_rank \in [S -> 0 .. TopKPred - 1]
  BY DEF Rankings
<1>2. Predicted = S /\ IsFiniteSet(S) /\ IsFiniteSet(vram)
  BY <1>1, ExpertCacheAssumption, FS_Subset DEF Predicted, PoolTypeOK
<1>3. Cardinality(S \ {e}) = Cardinality(S) - 1
  BY <1>2, FS_RemoveElement
<1>4. ASSUME vram \subseteq S \ {e} PROVE FALSE
  <2>1. IsFiniteSet(S \ {e})
    BY <1>2, FS_RemoveElement
  <2>2. Cardinality(vram) <= Cardinality(S \ {e})
    BY <1>4, <2>1, FS_Subset
  <2> QED
    BY <1>1, <1>2, <1>3, <2>1, <2>2, FS_CardinalityType, ExpertCacheAssumption DEF FitsPool
<1> QED
  BY <1>2, <1>4

\* What bringing in an expert does to the pool.
LEMMA LoadLemma ==
    ASSUME PoolTypeOK, Cardinality(vram) <= Capacity,
           loads = Cardinality(vram) + evictions,
           NEW e \in Experts, e \notin vram, NEW token \in Nat, Load(e, token)
    PROVE  /\ vram' \subseteq Experts
           /\ last_used' \in [Experts -> Nat]
           /\ loads' = loads + 1 /\ loads' \in Nat /\ evictions' \in Nat
           /\ Cardinality(vram') <= Capacity
           /\ loads' = Cardinality(vram') + evictions'
           /\ e \in vram' /\ vram' \subseteq vram \cup {e}
           /\ \/ vram \subseteq vram'
              \/ /\ Cardinality(vram) >= Capacity
                 /\ \E d \in Victims(vram) : vram' = (vram \ {d}) \cup {e}
<1>1. PICK V \in SUBSET vram : /\ MakesRoom(vram, V)
                               /\ vram' = (vram \ V) \cup {e}
                               /\ evictions' = evictions + Cardinality(V)
  BY DEF Load
<1>2. IsFiniteSet(vram) /\ Cardinality(vram) \in Nat /\ Capacity \in Nat \ {0}
  BY ExpertCacheAssumption, FS_Subset, FS_CardinalityType DEF PoolTypeOK
<1>3. /\ vram' \subseteq Experts /\ e \in vram' /\ vram' \subseteq vram \cup {e}
      /\ last_used' \in [Experts -> Nat]
      /\ loads' = loads + 1 /\ loads \in Nat /\ evictions \in Nat
  BY <1>1 DEF Load, PoolTypeOK
<1>4. CASE Cardinality(vram) < Capacity /\ V = {}
  <2>1. vram' = vram \cup {e}
    BY <1>1, <1>4
  <2>2. Cardinality(vram') = Cardinality(vram) + 1
    BY <2>1, <1>2, FS_AddElement
  <2>3. Cardinality(V) = 0
    BY <1>4, FS_EmptySet
  <2> QED
    BY <1>1, <1>2, <1>3, <1>4, <2>1, <2>2, <2>3
<1>5. ASSUME NEW d \in Victims(vram), Cardinality(vram) >= Capacity, V = {d}
      PROVE  /\ evictions' = evictions + 1
             /\ vram' = (vram \ {d}) \cup {e}
             /\ Cardinality(vram') = Cardinality(vram)
  <2>1. d \in vram /\ Cardinality(V) = 1
    BY <1>5, FS_Singleton DEF Victims
  <2>2. IsFiniteSet(vram \ {d}) /\ Cardinality(vram \ {d}) = Cardinality(vram) - 1
    BY <2>1, <1>2, FS_RemoveElement
  <2>3. Cardinality((vram \ {d}) \cup {e}) = Cardinality(vram \ {d}) + 1
    BY <2>2, FS_AddElement
  <2> QED
    BY <1>1, <1>2, <1>5, <2>1, <2>2, <2>3
<1>6. CASE Cardinality(vram) >= Capacity /\ \E d \in Victims(vram) : V = {d}
  BY <1>1, <1>2, <1>3, <1>5, <1>6
<1> QED
  BY <1>1, <1>4, <1>6 DEF MakesRoom

\* A step of prefetch_delta keeps every predicted expert that is in the pool.
LEMMA DeltaLemma ==
    ASSUME SimInv, FitsPool, DeltaStep
    PROVE  /\ Predicted \cap vram \subseteq vram'
           /\ Predicted \ vram' \subseteq todo'
<1>1. PICK e \in todo : PrefetchMissing(e, t) /\ todo' = todo \ {e}
  BY DEF DeltaStep
<1>2. /\ todo \subseteq Predicted \ vram /\ Predicted \ vram \subseteq todo
      /\ lookahead_rank \in Rankings
      /\ e \in Predicted /\ e \notin vram /\ e \in Experts
  BY <1>1 DEF SimInv, SimTypeOK, DeltaStep
<1>3. /\ e \in vram' /\ vram' \subseteq vram \cup {e}
      /\ \/ vram \subseteq vram'
         \/ /\ Cardinality(vram) >= Capacity
            /\ \E d \in Victims(vram) : vram' = (vram \ {d}) \cup {e}
  BY <1>1, <1>2, LoadLemma DEF SimInv, SimTypeOK, LoadsAccountedFor, PrefetchMissing
<1>4. ASSUME NEW d \in Victims(vram), Cardinality(vram) >= Capacity
      PROVE  d \notin Predicted
  BY <1>2, <1>4, FullPoolHoldsUnpredicted, VictimUnpredicted DEF SimInv, SimTypeOK
<1>5. Predicted \cap vram \subseteq vram'
  BY <1>3, <1>4
<1> QED
  BY <1>1, <1>2, <1>3, <1>5

LEMMA SimInvInit == SimInit => SimInv
<1> SUFFICES ASSUME SimInit PROVE SimInv
  OBVIOUS
<1>1. Cardinality({}) = 0
  BY FS_EmptySet
<1> QED
  BY <1>1, ExpertCacheAssumption
  DEF SimInit, PoolInit, SimInv, SimTypeOK, PoolTypeOK, LoadsAccountedFor

LEMMA SimInvNext == SimInv /\ [SimNext]_vars => SimInv'
<1> SUFFICES ASSUME SimInv, [SimNext]_vars PROVE SimInv'
  OBVIOUS
<1>1. CASE Predict
  <2>1. /\ UNCHANGED <<vram, last_used, loads, prefetches, evictions, t, offset, hits, miss>>
        /\ phase' = "delta" /\ miss_before' = miss
        /\ lookahead_rank' \in Rankings /\ todo' = Predicted' \ vram
    BY <1>1 DEF Predict, Predicted
  <2>2. Predicted' \subseteq Experts
    BY <2>1 DEF Rankings, Predicted
  <2>3. SimTypeOK' /\ LoadsAccountedFor'
    BY <2>1, <2>2 DEF SimInv, SimTypeOK, PoolTypeOK, LoadsAccountedFor
  <2> QED
    BY <2>1, <2>3 DEF SimInv, SimTypeOK
<1>2. CASE DeltaStep
  <2>1. PICK e \in todo : PrefetchMissing(e, t) /\ todo' = todo \ {e}
    BY <1>2 DEF DeltaStep
  <2>2. UNCHANGED <<phase, t, offset, hits, miss, miss_before, lookahead_rank>>
    BY <1>2, <2>1 DEF DeltaStep, PrefetchMissing
  <2>3. e \in Experts /\ t \in Nat /\ prefetches' = prefetches + 1
    BY <2>1 DEF SimInv, SimTypeOK, PrefetchMissing
  <2>4. e \notin vram /\ todo \subseteq Predicted \ vram
    BY <1>2, <2>1 DEF SimInv, DeltaStep
  <2>5. /\ SimTypeOK' /\ LoadsAccountedFor'
        /\ vram' \subseteq vram \cup {e}
    BY <2>1, <2>2, <2>3, <2>4, LoadLemma
    DEF SimInv, SimTypeOK, PoolTypeOK, LoadsAccountedFor, PrefetchMissing
  <2>6. todo' \subseteq Predicted' \ vram'
    BY <2>1, <2>2, <2>4, <2>5 DEF Predicted
  <2>7. FitsPool => Predicted' \ vram' \subseteq todo'
    BY <1>2, <2>2, DeltaLemma DEF Predicted
  <2> QED
    BY <1>2, <2>2, <2>5, <2>6, <2>7 DEF DeltaStep, SimInv, FitsPool
<1>3. CASE StartServing
  BY <1>3
  DEF StartServing, poolVars, SimInv, SimTypeOK, PoolTypeOK, LoadsAccountedFor, Predicted,
      FitsPool, Routings
<1>4. CASE ServeHit
  BY <1>4
  DEF ServeHit, RequestHit, SimInv, SimTypeOK, PoolTypeOK, LoadsAccountedFor, Predicted,
      FitsPool
<1>5. CASE ServeMiss
  <2>1. PICK e \in todo : RequestMiss(e, t + offset) /\ todo' = todo \ {e}
    BY <1>5 DEF ServeMiss
  <2>2. /\ UNCHANGED <<phase, t, offset, hits, miss_before, lookahead_rank, prefetches>>
        /\ miss' = miss + 1 /\ phase = "serve"
    BY <1>5, <2>1 DEF ServeMiss, RequestMiss
  <2>3. e \in Experts /\ e \notin vram /\ t + offset \in Nat
    BY <2>1 DEF SimInv, SimTypeOK, RequestMiss
  <2>4. SimTypeOK' /\ LoadsAccountedFor'
    BY <2>1, <2>2, <2>3, LoadLemma
    DEF SimInv, SimTypeOK, PoolTypeOK, LoadsAccountedFor, RequestMiss
  <2> QED
    BY <2>2, <2>4 DEF SimInv, SimTypeOK
<1>6. CASE NextServed
  BY <1>6
  DEF NextServed, poolVars, SimInv, SimTypeOK, PoolTypeOK, LoadsAccountedFor, Predicted,
      FitsPool, Routings
<1>7. CASE NextToken
  BY <1>7
  DEF NextToken, poolVars, SimInv, SimTypeOK, PoolTypeOK, LoadsAccountedFor, Predicted,
      FitsPool
<1>8. CASE UNCHANGED vars
  BY <1>8
  DEF vars, poolVars, simVars, SimInv, SimTypeOK, PoolTypeOK, LoadsAccountedFor, Predicted,
      FitsPool
<1> QED
  BY <1>1, <1>2, <1>3, <1>4, <1>5, <1>6, <1>7, <1>8 DEF SimNext

\* The replay keeps its inductive invariant: run_simulation with any Oracle and any
\* routing data.
THEOREM SimInvariant == SimSpec => []SimInv
BY SimInvInit, SimInvNext, PTL DEF SimSpec

\* A predicted expert is requested in vain only after an unforeseen miss: what
\* set_lookahead_ranked and prefetch_delta promise the two tokens served next.
THEOREM SimNoMissBeforeASurprise == SimSpec => []NoMissBeforeASurprise
<1>1. SimInv => NoMissBeforeASurprise
  BY DEF SimInv, NoMissBeforeASurprise
<1> QED
  BY <1>1, SimInvariant, PTL

\* prefetch_delta never evicts a predicted expert.
THEOREM SimDeltaSparesPredicted == SimSpec => DeltaSparesPredicted
<1>1. SimInv /\ [SimNext]_vars
        => [FitsPool /\ phase = "delta" => Predicted \cap vram \subseteq vram']_vars
  <2> SUFFICES ASSUME SimInv, SimNext, FitsPool, phase = "delta"
               PROVE  Predicted \cap vram \subseteq vram'
    OBVIOUS
  <2>1. CASE DeltaStep
    BY <2>1, DeltaLemma
  <2>2. CASE StartServing
    BY <2>2 DEF StartServing, poolVars
  <2> QED
    BY <2>1, <2>2 DEF SimNext, Predict, ServeHit, ServeMiss, NextServed, NextToken
<1> QED
  BY <1>1, SimInvariant, PTL DEF SimSpec, DeltaSparesPredicted

\* The pool keeps its capacity and every load is accounted for.
THEOREM SimLoadsAccountedFor == SimSpec => []LoadsAccountedFor
<1>1. SimInv => LoadsAccountedFor
  BY DEF SimInv
<1> QED
  BY <1>1, SimInvariant, PTL
=============================================================================
