---- MODULE Generator_proof ----
(***************************************************************************)
(* Proofs about the second runtime's generation loop, for every set of     *)
(* experts, number of slots, configuration, Oracle and router, and on both *)
(* devices.                                                                *)
(*                                                                         *)
(* ReadySlotsSettled and EventCoversCopies are not inductive.  What a slot *)
(* will hold depends on the order of the copies still queued into it, so   *)
(* the invariant follows the queue itself: the copies are in the order of  *)
(* their sequence numbers, every copy queued into the slot of an expert in *)
(* flight is below that expert's event, and the last one into each half is *)
(* its own.                                                                *)
(***************************************************************************)
EXTENDS Generator, SequenceTheorems, FiniteSetTheorems, WellFoundedInduction, TLAPS

(***************************************************************************)
(* The slot cache by itself, for every set of experts, number of slots and *)
(* range of priorities.  SlotInv is inductive: the partition is what makes *)
(* a victim exist when the free list is empty, and the well-foundedness of *)
(* the pairs (priority, stamp) is what makes one of them minimal.          *)
(***************************************************************************)
SlotInv == SlotTypeOK /\ SlotsPartition /\ StampsDistinct

\* evict_victim() finds a victim among the resident experts whenever there is
\* one: the comment "cached_ is guaranteed non-empty here"
\* (vram_cache_manager.cpp:42) is all it needs.
LEMMA VictimExists ==
    ASSUME SlotTypeOK, DOMAIN cached # {}
    PROVE  EvictVictim \in DOMAIN cached
<1> DEFINE R == OpToRel(<, Nat)
           Lex == LexPairOrdering(R, R, Nat, Nat)
           pair(k) == <<cached[k].priority, cached[k].last_used>>
           T == {pair(k) : k \in DOMAIN cached}
<1>1. IsWellFoundedOn(Lex, Nat \X Nat)
  BY NatLessThanWellFounded, WFLexPairOrdering
<1>2. \A k \in DOMAIN cached : cached[k].priority \in Nat /\ cached[k].last_used \in Nat
  BY SlotCacheAssumption DEF SlotTypeOK, CachedExpert
<1>3. T \subseteq Nat \X Nat /\ T # {}
  <2>1. \A k \in DOMAIN cached : pair(k) \in Nat \X Nat
    BY <1>2
  <2>2. PICK k \in DOMAIN cached : TRUE
    OBVIOUS
  <2>3. pair(k) \in T
    BY <2>2
  <2> HIDE DEF pair
  <2> QED
    BY <2>1, <2>3
<1>4. PICK x \in T : \A y \in T : ~(<<y, x>> \in Lex)
  <2> HIDE DEF Lex, T
  <2> QED BY <1>1, <1>3, WFMin
<1>5. PICK v \in DOMAIN cached : x = pair(v)
  BY <1>4
<1>6. ASSUME NEW k \in DOMAIN cached PROVE ~EvictsBefore(cached[k], cached[v])
  <2>1. ~(<<pair(k), pair(v)>> \in Lex)
    BY <1>4, <1>5
  <2>2. <<pair(k), pair(v)>> \in (Nat \X Nat) \X (Nat \X Nat)
    BY <1>2
  <2>3. /\ ~(<<cached[k].priority, cached[v].priority>> \in R)
        /\ cached[k].priority = cached[v].priority
             => ~(<<cached[k].last_used, cached[v].last_used>> \in R)
    BY <2>1, <2>2 DEF LexPairOrdering
  <2>4. \A a, b \in Nat : a < b => <<a, b>> \in R
    BY DEF OpToRel
  <2> QED
    BY <1>2, <2>3, <2>4 DEF EvictsBefore
<1> QED
  BY <1>5, <1>6 DEF EvictVictim

LEMMA SlotInitInv == SlotInit => SlotInv
<1> SUFFICES ASSUME SlotInit PROVE SlotInv
  OBVIOUS
<1>0. NumSlots \in Nat /\ NumSlots > 0 /\ DOMAIN cached = {}
  BY SlotCacheAssumption DEF SlotInit
<1>1. Len(free_list) = NumSlots /\ free_list \in Seq(Slots)
  BY <1>0 DEF SlotInit, Slots
<1>2. SlotTypeOK
  BY <1>0, <1>1 DEF SlotInit, SlotTypeOK
<1>3. SlotsPartition
  <2>1. \A i, j \in 1 .. Len(free_list) : free_list[i] = free_list[j] => i = j
    BY <1>0, <1>1 DEF SlotInit
  <2>2. \A s \in Slots : \E i \in 1 .. Len(free_list) : free_list[i] = s
    <3> TAKE s \in Slots
    <3>1. NumSlots - s \in 1 .. Len(free_list) /\ free_list[NumSlots - s] = s
      BY <1>0, <1>1 DEF SlotInit, Slots
    <3> QED BY <3>1
  <2> QED
    BY <1>0, <2>1, <2>2 DEF SlotsPartition
<1>4. StampsDistinct
  BY <1>0 DEF StampsDistinct
<1> QED
  BY <1>2, <1>3, <1>4 DEF SlotInv

LEMMA TouchInv ==
    ASSUME SlotInv, NEW k \in Keys, Touch(k)
    PROVE  SlotInv'
<1>1. CASE ~Contains(k)
  BY <1>1 DEF Touch, cacheVars, SlotInv, SlotTypeOK, SlotsPartition, StampsDistinct
<1>2. CASE Contains(k)
  <2>1. /\ cached' = [cached EXCEPT ![k].last_used = clock + 1]
        /\ clock' = clock + 1 /\ free_list' = free_list /\ k \in DOMAIN cached
    BY <1>2 DEF Touch, Contains
  <2>2. /\ clock \in Nat /\ DOMAIN cached' = DOMAIN cached
        /\ \A j \in DOMAIN cached : cached[j] \in CachedExpert
    BY <2>1 DEF SlotInv, SlotTypeOK
  <2>3. \A j \in DOMAIN cached :
          /\ cached'[j] \in CachedExpert
          /\ cached'[j].slot = cached[j].slot
          /\ cached'[j].last_used = IF j = k THEN clock + 1 ELSE cached[j].last_used
    BY <2>1, <2>2 DEF CachedExpert
  <2>4. SlotTypeOK'
    BY <2>1, <2>2, <2>3 DEF SlotInv, SlotTypeOK
  <2>5. SlotsPartition'
    BY <2>1, <2>2, <2>3 DEF SlotInv, SlotsPartition
  <2>6. StampsDistinct'
    <3>1. \A j \in DOMAIN cached : cached[j].last_used \in Nat
      BY <2>2 DEF CachedExpert
    <3> QED
      BY <2>1, <2>2, <2>3, <3>1 DEF SlotInv, StampsDistinct
  <2> QED
    BY <2>4, <2>5, <2>6 DEF SlotInv
<1> QED
  BY <1>1, <1>2

LEMMA AcquireInv ==
    ASSUME SlotInv, NEW k \in Keys, NEW p \in Priorities, Acquire(k, p)
    PROVE  SlotInv'
<1>1. CASE Contains(k)
  BY <1>1, TouchInv DEF Acquire
<1>2. CASE ~Contains(k)
  <2> DEFINE s == SlotFor(k)
             stay == DOMAIN cached \ Evicted(k)
  <2>1. /\ cached' = [j \in stay \union {k} |->
                        IF j = k THEN [slot |-> s, last_used |-> clock + 1, priority |-> p]
                        ELSE cached[j]]
        /\ free_list' = IF free_list = <<>> THEN <<>>
                        ELSE SubSeq(free_list, 1, Len(free_list) - 1)
        /\ clock' = clock + 1 /\ k \notin DOMAIN cached
    BY <1>2 DEF Acquire, Contains
  <2>2. /\ clock \in Nat /\ free_list \in Seq(Slots)
        /\ \A j \in DOMAIN cached :
             cached[j] \in CachedExpert /\ cached[j].slot \in Slots /\ cached[j].last_used \in Nat
    BY DEF SlotInv, SlotTypeOK, CachedExpert
  <2>3. /\ free_list' \in Seq(Slots)
        /\ s \in Slots
        /\ \A i \in 1 .. Len(free_list') : free_list'[i] # s
        /\ \A i, j \in 1 .. Len(free_list') : free_list'[i] = free_list'[j] => i = j
        /\ \A j \in stay : cached[j].slot # s
        /\ \A t \in Slots \ {s} :
             /\ (\E i \in 1 .. Len(free_list) : free_list[i] = t)
                  <=> \E i \in 1 .. Len(free_list') : free_list'[i] = t
             /\ (\E j \in DOMAIN cached : cached[j].slot = t) <=> \E j \in stay : cached[j].slot = t
    <3>1. CASE free_list # <<>>
      <4>1. /\ stay = DOMAIN cached /\ s = free_list[Len(free_list)]
            /\ Len(free_list) \in Nat /\ Len(free_list) > 0
        BY <1>2, <2>2, <3>1 DEF Evicted, SlotFor
      <4>2. /\ Len(free_list') = Len(free_list) - 1
            /\ free_list' \in Seq(Slots)
            /\ \A i \in 1 .. Len(free_list) - 1 : free_list'[i] = free_list[i]
        <5>1. free_list' = SubSeq(free_list, 1, Len(free_list) - 1)
          BY <2>1, <3>1
        <5>2. \A i \in 1 .. Len(free_list) - 1 : free_list[i] \in Slots
          BY <2>2, <4>1
        <5>3. /\ Len(free_list') = IF 1 <= Len(free_list) - 1 THEN Len(free_list) - 1 - 1 + 1 ELSE 0
              /\ free_list' \in Seq(Slots)
              /\ \A i \in 1 .. Len(free_list) - 1 - 1 + 1 : free_list'[i] = free_list[1 + i - 1]
          <6>1. 1 \in Int /\ Len(free_list) - 1 \in Int
            BY <4>1
          <6> QED
            BY ONLY <5>1, <5>2, <6>1, SubSeqProperties
        <5>4. ASSUME NEW i \in 1 .. Len(free_list) - 1 PROVE free_list'[i] = free_list[i]
          <6>1. i \in 1 .. Len(free_list) - 1 - 1 + 1 /\ 1 + i - 1 = i
            BY <4>1
          <6> QED
            BY <5>3, <6>1, Zenon
        <5>5. Len(free_list') = Len(free_list) - 1
          <6>1. Len(free_list) \in Nat /\ Len(free_list) > 0
            BY <4>1
          <6>2. CASE Len(free_list) = 1
            <7>1. ~(1 <= Len(free_list) - 1) /\ Len(free_list) - 1 = 0
              BY ONLY <6>2
            <7>2. Len(free_list') = 0
              BY <5>3, <7>1, Zenon
            <7> QED
              BY ONLY <7>1, <7>2
          <6>3. CASE Len(free_list) > 1
            <7>1. 1 <= Len(free_list) - 1 /\ Len(free_list) - 1 - 1 + 1 = Len(free_list) - 1
              BY ONLY <6>1, <6>3
            <7>2. Len(free_list') = Len(free_list) - 1 - 1 + 1
              BY <5>3, <7>1, Zenon
            <7> QED
              BY ONLY <7>1, <7>2
          <6>4. Len(free_list) = 1 \/ Len(free_list) > 1
            <7>1. \A n \in Nat : n > 0 => n = 1 \/ n > 1
              OBVIOUS
            <7> QED
              BY ONLY <6>1, <7>1, Zenon
          <6> QED
            BY ONLY <6>2, <6>3, <6>4, Zenon
        <5> QED
          BY <5>3, <5>4, <5>5
      <4>3. s \in Slots
        BY <2>2, <4>1
      <4>4. \A i, j \in 1 .. Len(free_list) : free_list[i] = free_list[j] => i = j
        BY DEF SlotInv, SlotsPartition
      <4>5. \A j \in DOMAIN cached : cached[j].slot # s
        BY <4>1, <4>3 DEF SlotInv, SlotsPartition
      <4> QED
        BY <4>1, <4>2, <4>3, <4>4, <4>5
    <3>2. CASE free_list = <<>>
      <4>1. 0 \in Slots
        BY SlotCacheAssumption DEF Slots
      <4>2. DOMAIN cached # {}
        BY <3>2, <4>1 DEF SlotInv, SlotsPartition
      <4>3. EvictVictim \in DOMAIN cached
        BY <4>2, VictimExists DEF SlotInv
      <4>4. stay = DOMAIN cached \ {EvictVictim} /\ s = cached[EvictVictim].slot
        BY <1>2, <3>2 DEF Evicted, SlotFor
      <4>5. \A i, j \in DOMAIN cached : cached[i].slot = cached[j].slot => i = j
        BY DEF SlotInv, SlotsPartition
      <4>6. free_list' = <<>> /\ free_list' \in Seq(Slots) /\ Len(free_list') = 0
        BY <2>1, <2>2, <3>2
      <4> HIDE DEF stay, s
      <4> QED
        BY <2>2, <3>2, <4>3, <4>4, <4>5, <4>6
    <3> QED
      BY <3>1, <3>2
  <2>4. /\ DOMAIN cached' = stay \union {k}
        /\ cached'[k].slot = s /\ cached'[k].last_used = clock + 1 /\ cached'[k] \in CachedExpert
        /\ \A j \in stay : cached'[j] = cached[j] /\ j # k
    BY <2>1, <2>2, <2>3 DEF CachedExpert
  <2> HIDE DEF stay, s
  <2>5. stay \subseteq DOMAIN cached
    BY DEF stay
  <2>6. SlotTypeOK'
    <3>1. cached' \in [DOMAIN cached' -> CachedExpert]
      BY <2>1, <2>2, <2>4, <2>5 DEF stay, s
    <3> QED
      BY <2>1, <2>2, <2>3, <2>4, <2>5, <3>1 DEF SlotInv, SlotTypeOK
  <2>7. SlotsPartition'
    <3>1. \A i, j \in DOMAIN cached' : cached'[i].slot = cached'[j].slot => i = j
      BY <2>3, <2>4, <2>5 DEF SlotInv, SlotsPartition
    <3>2. ASSUME NEW t \in Slots
          PROVE  (\E i \in 1 .. Len(free_list') : free_list'[i] = t)
                   <=> ~\E j \in DOMAIN cached' : cached'[j].slot = t
      <4>1. CASE t = s
        BY <2>3, <2>4, <4>1
      <4>2. CASE t # s
        <5>1. (\E j \in DOMAIN cached' : cached'[j].slot = t)
                <=> \E j \in stay : cached[j].slot = t
          BY <2>4, <4>2
        <5>2. (\E i \in 1 .. Len(free_list) : free_list[i] = t)
                <=> ~\E j \in DOMAIN cached : cached[j].slot = t
          BY DEF SlotInv, SlotsPartition
        <5> QED
          BY <2>3, <4>2, <5>1, <5>2
      <4> QED
        BY <4>1, <4>2
    <3> QED
      BY <2>3, <3>1, <3>2 DEF SlotsPartition
  <2>8. StampsDistinct'
    BY <2>1, <2>2, <2>4, <2>5 DEF SlotInv, StampsDistinct
  <2> QED
    BY <2>6, <2>7, <2>8 DEF SlotInv
<1> QED
  BY <1>1, <1>2

\* The inductive invariant of the slot cache.
THEOREM SlotInvariant == SlotSpec => []SlotInv
<1>1. SlotInv /\ [SlotNext]_cacheVars => SlotInv'
  <2> SUFFICES ASSUME SlotInv, [SlotNext]_cacheVars PROVE SlotInv'
    OBVIOUS
  <2>1. CASE SlotNext
    BY <2>1, TouchInv, AcquireInv DEF SlotNext
  <2>2. CASE UNCHANGED cacheVars
    BY <2>2 DEF cacheVars, SlotInv, SlotTypeOK, SlotsPartition, StampsDistinct
  <2> QED
    BY <2>1, <2>2
<1> QED
  BY <1>1, SlotInitInv, PTL DEF SlotSpec

\* Every slot is unused or holds exactly one expert, over any history of
\* acquire() and touch() (vram_cache_manager.cpp:49-96).
THEOREM SlotCachePartition == SlotSpec => []SlotsPartition
<1>1. SlotInv => SlotsPartition
  BY DEF SlotInv
<1> QED
  BY <1>1, SlotInvariant, PTL

\* No two resident experts carry the same stamp, over any history of acquire()
\* and touch(): the victim does not depend on the order of the hash map
\* (vram_cache_manager.cpp:34-41, 56, 72, 95).
THEOREM SlotStampsDistinct == SlotSpec => []StampsDistinct
<1>1. SlotInv => StampsDistinct
  BY DEF SlotInv
<1> QED
  BY <1>1, SlotInvariant, PTL

-----------------------------------------------------------------------------

(***************************************************************************)
(* The inductive invariant of the loop                                     *)
(***************************************************************************)

\* The queue q is in the order of the sequence numbers, all below n.
InOrder(q, n) ==
    /\ \A i \in 1 .. Len(q) : q[i].seq < n
    /\ \A i, j \in 1 .. Len(q) : i < j => q[i].seq < q[j].seq

Into(q, i, s, p) == q[i].slot = s /\ q[i].part = p

\* Slot s holds expert k in memory m and no copy in q changes it.
Settled(s, k, q, m) ==
    /\ \A p \in Parts : m[s][p] = k
    /\ \A i \in 1 .. Len(q) : q[i].slot # s

\* Half p of slot s holds expert k once the copies of q have run.
HalfCovered(s, p, k, q, m) ==
    \/ m[s][p] = k /\ \A i \in 1 .. Len(q) : ~Into(q, i, s, p)
    \/ \E i \in 1 .. Len(q) :
         /\ Into(q, i, s, p) /\ q[i].key = k
         /\ \A j \in 1 .. Len(q) : Into(q, j, s, p) => j <= i

\* Slot s holds expert k once the copies of q below the watermark w have run,
\* and no later copy changes it.
Covered(s, k, w, q, m) ==
    /\ \A i \in 1 .. Len(q) : q[i].slot = s => q[i].seq < w
    /\ \A p \in Parts : HalfCovered(s, p, k, q, m)

\* Every resident expert is ready, with its weights in its slot, or in flight,
\* with an event that covers its copies.
WeightsInv ==
    /\ InOrder(pending, next_seq)
    /\ DOMAIN cached = ready \union DOMAIN event
    /\ \A k \in ready : Settled(cached[k].slot, k, pending, mem)
    /\ \A k \in DOMAIN event : Covered(cached[k].slot, k, event[k], pending, mem)

\* Where the loop over the routed experts stands.
LoopInv ==
    /\ pc \in {"wait", "evaluate"} => route # <<>>
    /\ pc = "wait" => Current \in DOMAIN event
    /\ pc = "evaluate" => Current \in ready
    /\ EvaluatesOwnWeights

Routed == pc \in {"experts", "wait", "evaluate"}

\* The counters in the middle of a token.
CountInv ==
    /\ prediction_calls = fed * cfg.num_layers + layer + (IF Routed THEN 1 ELSE 0)
    /\ hits + misses + (IF Routed THEN Len(route) ELSE 0)
         = prediction_calls * cfg.topk + (IF pc = "evaluate" THEN 1 ELSE 0)
    /\ reactive <= misses + (IF pc = "wait" THEN 1 ELSE 0)
    /\ pc \in {"sample", "done"} => layer = 0
    /\ Routed \/ pc \in {"predict", "schedule"} =>
         IF out = 0 THEN fed < cfg.prompt ELSE fed + 1 = cfg.prompt + out
    /\ pc = "sample" => fed = cfg.prompt + out
    /\ pc = "done" => fed <= cfg.prompt + out

\* As long as a slot is unused nothing was evicted: what the Oracle named is
\* resident, or still to be scheduled.
PredictionInv ==
    free_list # <<>> =>
      /\ Routed => \A e \in predicted : Contains(<<layer, e>>)
      /\ pc = "schedule" =>
           \A e \in predicted :
              Contains(<<layer, e>>) \/ \E i \in 1 .. Len(pred) : pred[i] = e

DeviceTypeOK ==
    /\ pending \in Seq(Copies) /\ next_seq \in Nat
    /\ mem \in [Slots -> [Parts -> Keys \union {NoExpert}]]
    /\ DOMAIN event \subseteq Keys /\ event \in [DOMAIN event -> Nat] /\ ready \subseteq Keys

LoopTypeOK ==
    /\ cfg \in Configs /\ backend \in {"mock", "cuda"}
    /\ pc \in {"predict", "schedule", "experts", "wait", "evaluate", "sample", "done"}
    /\ layer \in 0 .. cfg.num_layers - 1
    /\ pred \in Seq(Experts) /\ predicted \subseteq Experts /\ route \in Seq(Experts)
    /\ fed \in Nat /\ out \in 0 .. cfg.max_new
    /\ hits \in Nat /\ misses \in Nat /\ reactive \in Nat /\ prediction_calls \in Nat
    /\ computed # <<>> => computed \in [expert : Keys, gate_up : Keys \union {NoExpert},
                                        down : Keys \union {NoExpert}]

DeviceInv == SlotInv /\ DeviceTypeOK /\ WeightsInv

GenInv == DeviceInv /\ LoopTypeOK /\ LoopInv /\ CountInv /\ PredictionInv

(***************************************************************************)
(* The device: what a queue does to memory                                 *)
(***************************************************************************)

LEMMA LeastNat ==
    ASSUME NEW S \in SUBSET Nat, S # {}
    PROVE  \E n \in S : \A m \in S : n <= m
<1>1. PICK n \in S : \A m \in S : ~(<<m, n>> \in OpToRel(<, Nat))
  BY NatLessThanWellFounded, WFMin
<1>2. \A a, b \in Nat : a < b => <<a, b>> \in OpToRel(<, Nat)
  BY DEF OpToRel
<1>3. \A m \in S : ~(m < n)
  BY <1>1, <1>2
<1> QED
  BY <1>3

LEMMA GreatestIndex ==
    ASSUME NEW n \in Nat, NEW S \in SUBSET (1 .. n), S # {}
    PROVE  \E i \in S : \A j \in S : j <= i
<1> DEFINE T == {n - j : j \in S}
<1>1. T \in SUBSET Nat /\ T # {}
  <2>1. \A j \in S : n - j \in Nat
    OBVIOUS
  <2> QED BY <2>1
<1>2. PICK t \in T : \A u \in T : t <= u
  <2> HIDE DEF T
  <2> QED BY <1>1, LeastNat
<1>3. PICK i \in S : t = n - i
  BY <1>2
<1>4. \A j \in S : n - i <= n - j
  BY <1>2, <1>3
<1> QED
  BY <1>4

\* The loop of event_synchronize() stops at the first copy at or above the
\* watermark (cuda_backend_mock.cpp:75).
LEMMA CountBeforeStops ==
    ASSUME NEW q \in Seq(Copies), NEW w \in Nat
    PROVE  /\ CountBefore(q, w) \in 0 .. Len(q)
           /\ \A i \in 1 .. CountBefore(q, w) : q[i].seq < w
           /\ CountBefore(q, w) < Len(q) => q[CountBefore(q, w) + 1].seq >= w
<1> DEFINE Stop(n) == n = Len(q) \/ q[n + 1].seq >= w
           S == {n \in 0 .. Len(q) : Stop(n)}
<1>1. Len(q) \in Nat /\ \A i \in 1 .. Len(q) : q[i].seq \in Nat
  <2>1. Len(q) \in Nat /\ \A i \in 1 .. Len(q) : q[i] \in Copies
    OBVIOUS
  <2> QED BY <2>1 DEF Copies
<1>2. S \in SUBSET Nat /\ Len(q) \in S
  BY <1>1
<1>3. PICK n \in S : \A m \in S : n <= m
  <2> HIDE DEF S
  <2> QED BY <1>2, LeastNat
<1>4. \A i \in 1 .. n : q[i].seq < w
  <2> SUFFICES ASSUME NEW i \in 1 .. n PROVE q[i].seq < w
    OBVIOUS
  <2>1. i \in Nat /\ n \in 0 .. Len(q) /\ i - 1 \in 0 .. Len(q) /\ i - 1 < n /\ i \in 1 .. Len(q)
    BY <1>1
  <2>2. i - 1 \notin S
    BY <1>3, <2>1
  <2>3. ~(q[i - 1 + 1].seq >= w) /\ i - 1 + 1 = i
    BY <2>1, <2>2
  <2> QED
    BY <1>1, <2>1, <2>3
<1>5. n < Len(q) => q[n + 1].seq >= w
  BY <1>1, <1>3
<1> HIDE DEF S
<1>6. n \in 0 .. Len(q)
  BY DEF S
<1> QED
  BY <1>4, <1>5, <1>6 DEF CountBefore

\* Memory after the copies of f: the last one into each half of a slot wins.
LEMMA LastCopyWins ==
    ASSUME NEW f \in Seq(Copies), NEW m, NEW s \in Slots, NEW p \in Parts
    PROVE  \/ /\ AfterCopies(m, f)[s][p] = m[s][p]
              /\ \A i \in 1 .. Len(f) : ~Into(f, i, s, p)
           \/ \E i \in 1 .. Len(f) :
                /\ Into(f, i, s, p) /\ AfterCopies(m, f)[s][p] = f[i].key
                /\ \A j \in 1 .. Len(f) : Into(f, j, s, p) => j <= i
<1> DEFINE into == {i \in 1 .. Len(f) : f[i].slot = s /\ f[i].part = p}
           last == CHOOSE i \in into : \A j \in into : j <= i
<1>1. AfterCopies(m, f)[s][p] = IF into = {} THEN m[s][p] ELSE f[last].key
  BY DEF AfterCopies
<1>2. CASE into = {}
  BY <1>1, <1>2 DEF Into
<1>3. CASE into # {}
  <2>1. last \in into /\ \A j \in into : j <= last
    <3>1. \E i \in into : \A j \in into : j <= i
      <4>1. Len(f) \in Nat /\ into \in SUBSET (1 .. Len(f))
        OBVIOUS
      <4> HIDE DEF into
      <4> QED BY <1>3, <4>1, GreatestIndex
    <3> HIDE DEF into
    <3> QED BY <3>1
  <2> HIDE DEF last
  <2> QED
    BY <1>1, <1>3, <2>1 DEF Into
<1> QED
  BY <1>2, <1>3

\* Performing the first n copies of the queue q, which leaves r, changes no slot
\* that was settled, and takes no slot from its expert in flight.
LEMMA RunCopies ==
    ASSUME NEW q \in Seq(Copies), NEW n \in 0 .. Len(q),
           NEW f \in Seq(Copies), Len(f) = n, \A i \in 1 .. n : f[i] = q[i],
           NEW r \in Seq(Copies), Len(r) = Len(q) - n,
           \A i \in 1 .. Len(q) - n : r[i] = q[i + n],
           NEW m, NEW s \in Slots, NEW k
    PROVE  /\ Settled(s, k, q, m) => Settled(s, k, r, AfterCopies(m, f))
           /\ \A w : Covered(s, k, w, q, m) => Covered(s, k, w, r, AfterCopies(m, f))
           /\ (\A p \in Parts : HalfCovered(s, p, k, q, m))
                /\ (\A i \in 1 .. Len(q) : q[i].slot = s => i <= n)
                => Settled(s, k, r, AfterCopies(m, f))
<1>0. Len(q) \in Nat /\ n \in Nat /\ n <= Len(q) /\ Len(q) - n \in Nat
  OBVIOUS
<1> DEFINE M == AfterCopies(m, f)
<1>1. ASSUME NEW p \in Parts
      PROVE  \/ M[s][p] = m[s][p] /\ \A i \in 1 .. n : ~Into(q, i, s, p)
             \/ \E i \in 1 .. n :
                  /\ Into(q, i, s, p) /\ M[s][p] = q[i].key
                  /\ \A j \in 1 .. n : Into(q, j, s, p) => j <= i
  <2>1. \A i \in 1 .. n : Into(f, i, s, p) <=> Into(q, i, s, p)
    BY DEF Into
  <2> QED
    BY LastCopyWins, <2>1
<1> HIDE DEF M
<1>2. \A i \in 1 .. Len(r) : i + n \in 1 .. Len(q) /\ i + n > n /\ r[i] = q[i + n]
  BY <1>0
<1>3. \A i \in 1 .. Len(q) : i > n => i - n \in 1 .. Len(r) /\ r[i - n] = q[i]
  <2> SUFFICES ASSUME NEW i \in 1 .. Len(q), i > n
               PROVE  i - n \in 1 .. Len(r) /\ r[i - n] = q[i]
    OBVIOUS
  <2>1. i - n \in 1 .. Len(q) - n /\ i - n + n = i
    BY <1>0
  <2> QED
    BY <2>1, <1>0
<1>4. Settled(s, k, q, m) => Settled(s, k, r, M)
  <2> SUFFICES ASSUME Settled(s, k, q, m) PROVE Settled(s, k, r, M)
    OBVIOUS
  <2>1. \A i \in 1 .. n : i \in 1 .. Len(q)
    BY <1>0
  <2>2. \A p \in Parts : M[s][p] = k
    BY <1>1, <2>1 DEF Settled, Into
  <2> QED
    BY <1>2, <2>2 DEF Settled
<1>5. ASSUME NEW p \in Parts, HalfCovered(s, p, k, q, m)
      PROVE  HalfCovered(s, p, k, r, M)
  <2>1. CASE m[s][p] = k /\ \A i \in 1 .. Len(q) : ~Into(q, i, s, p)
    <3>1. M[s][p] = k
      BY <1>0, <1>1, <2>1
    <3>2. \A i \in 1 .. Len(r) : ~Into(r, i, s, p)
      BY <1>2, <2>1 DEF Into
    <3> QED
      BY <3>1, <3>2 DEF HalfCovered
  <2>2. ASSUME NEW i \in 1 .. Len(q), Into(q, i, s, p), q[i].key = k,
               \A j \in 1 .. Len(q) : Into(q, j, s, p) => j <= i
        PROVE  HalfCovered(s, p, k, r, M)
    <3>1. CASE i <= n
      <4>1. i \in 1 .. n
        BY <3>1, <1>0
      <4>2. PICK l \in 1 .. n : /\ Into(q, l, s, p) /\ M[s][p] = q[l].key
                                /\ \A j \in 1 .. n : Into(q, j, s, p) => j <= l
        BY <1>1, <2>2, <4>1
      <4>3. l = i
        <5>1. l \in 1 .. Len(q) /\ l \in Nat /\ i \in Nat
          BY <1>0, <4>2
        <5>2. l <= i /\ i <= l
          BY <2>2, <4>1, <4>2, <5>1
        <5> QED BY <5>1, <5>2
      <4>4. M[s][p] = k
        BY <2>2, <4>2, <4>3
      <4>5. \A j \in 1 .. Len(r) : ~Into(r, j, s, p)
        <5> SUFFICES ASSUME NEW j \in 1 .. Len(r), Into(r, j, s, p) PROVE FALSE
          OBVIOUS
        <5>1. Into(q, j + n, s, p) /\ j + n \in 1 .. Len(q) /\ j + n > n
          BY <1>2 DEF Into
        <5>2. j + n <= i
          BY <2>2, <5>1
        <5> QED
          BY <1>0, <3>1, <5>1, <5>2
      <4> QED
        BY <4>4, <4>5 DEF HalfCovered
    <3>2. CASE i > n
      <4>1. i - n \in 1 .. Len(r) /\ r[i - n] = q[i]
        BY <1>3, <3>2
      <4>2. Into(r, i - n, s, p) /\ r[i - n].key = k
        BY <2>2, <4>1 DEF Into
      <4>3. \A j \in 1 .. Len(r) : Into(r, j, s, p) => j <= i - n
        <5> SUFFICES ASSUME NEW j \in 1 .. Len(r), Into(r, j, s, p) PROVE j <= i - n
          OBVIOUS
        <5>1. Into(q, j + n, s, p) /\ j + n \in 1 .. Len(q)
          BY <1>2 DEF Into
        <5>2. j + n <= i
          BY <2>2, <5>1
        <5> QED
          BY <1>0, <5>2
      <4> QED
        BY <4>1, <4>2, <4>3 DEF HalfCovered
    <3> QED
      BY <1>0, <3>1, <3>2
  <2> QED
    BY <1>5, <2>1, <2>2 DEF HalfCovered
<1>6. ASSUME NEW w, Covered(s, k, w, q, m) PROVE Covered(s, k, w, r, M)
  BY <1>2, <1>5, <1>6 DEF Covered
<1>7. ASSUME \A p \in Parts : HalfCovered(s, p, k, q, m),
             \A i \in 1 .. Len(q) : q[i].slot = s => i <= n
      PROVE  Settled(s, k, r, M)
  <2>1. \A i \in 1 .. Len(r) : r[i].slot # s
    <3> SUFFICES ASSUME NEW i \in 1 .. Len(r), r[i].slot = s PROVE FALSE
      OBVIOUS
    <3>1. i + n \in 1 .. Len(q) /\ i + n > n /\ q[i + n].slot = s
      BY <1>2
    <3>2. i + n <= n
      BY <1>7, <3>1
    <3> QED
      BY <1>0, <3>1, <3>2
  <2>2. \A p \in Parts : M[s][p] = k
    <3> TAKE p \in Parts
    <3>1. HalfCovered(s, p, k, r, M)
      BY <1>5, <1>7
    <3> QED
      BY <2>1, <3>1 DEF HalfCovered, Into
  <2> QED
    BY <2>1, <2>2 DEF Settled
<1> QED
  BY <1>4, <1>6, <1>7 DEF M

LEMMA AfterCopiesType ==
    ASSUME NEW f \in Seq(Copies), NEW m \in [Slots -> [Parts -> Keys \union {NoExpert}]]
    PROVE  AfterCopies(m, f) \in [Slots -> [Parts -> Keys \union {NoExpert}]]
<1> DEFINE M == AfterCopies(m, f)
<1>1. ASSUME NEW s \in Slots, NEW p \in Parts PROVE M[s][p] \in Keys \union {NoExpert}
  <2>1. \A i \in 1 .. Len(f) : f[i].key \in Keys
    <3>1. \A i \in 1 .. Len(f) : f[i] \in Copies
      OBVIOUS
    <3> QED BY <3>1 DEF Copies
  <2>2. m[s][p] \in Keys \union {NoExpert}
    OBVIOUS
  <2> HIDE DEF M
  <2> QED
    BY <2>1, <2>2, LastCopyWins DEF M
<1>2. M = [s \in Slots |-> [p \in Parts |-> M[s][p]]]
  BY DEF AfterCopies
<1> HIDE DEF M
<1>3. [s \in Slots |-> [p \in Parts |-> M[s][p]]]
        \in [Slots -> [Parts -> Keys \union {NoExpert}]]
  BY <1>1
<1> QED
  BY <1>2, <1>3 DEF M

\* Queueing two copies into another slot leaves a slot as it is and will be.
LEMMA QueueElsewhere ==
    ASSUME NEW q \in Seq(Copies), NEW r \in Seq(Copies), Len(r) = Len(q) + 2,
           \A i \in 1 .. Len(q) : r[i] = q[i],
           NEW s, r[Len(q) + 1].slot # s, r[Len(q) + 2].slot # s,
           NEW k, NEW m
    PROVE  /\ Settled(s, k, q, m) => Settled(s, k, r, m)
           /\ \A w : Covered(s, k, w, q, m) => Covered(s, k, w, r, m)
<1>0. Len(q) \in Nat
  OBVIOUS
<1>1. \A i \in 1 .. Len(r) : i \in 1 .. Len(q) \/ r[i].slot # s
  <2> SUFFICES ASSUME NEW i \in 1 .. Len(r), i \notin 1 .. Len(q) PROVE r[i].slot # s
    OBVIOUS
  <2>1. i = Len(q) + 1 \/ i = Len(q) + 2
    BY <1>0
  <2> QED BY <2>1
<1>2. \A i \in 1 .. Len(q) : i \in 1 .. Len(r)
  BY <1>0
<1>3. Settled(s, k, q, m) => Settled(s, k, r, m)
  BY <1>1 DEF Settled
<1>4. ASSUME NEW p \in Parts, HalfCovered(s, p, k, q, m) PROVE HalfCovered(s, p, k, r, m)
  BY <1>1, <1>2, <1>4 DEF HalfCovered, Into
<1>5. ASSUME NEW w, Covered(s, k, w, q, m) PROVE Covered(s, k, w, r, m)
  BY <1>1, <1>4, <1>5 DEF Covered
<1> QED
  BY <1>3, <1>5

\* Queueing both halves of k and recording the event covers the slot.
LEMMA QueueOwn ==
    ASSUME NEW q \in Seq(Copies), NEW r \in Seq(Copies), Len(r) = Len(q) + 2,
           \A i \in 1 .. Len(q) : r[i] = q[i],
           NEW n \in Nat, InOrder(q, n), NEW s, NEW k, NEW m,
           r[Len(q) + 1] = [slot |-> s, part |-> "gate_up", key |-> k, seq |-> n],
           r[Len(q) + 2] = [slot |-> s, part |-> "down", key |-> k, seq |-> n + 1]
    PROVE  InOrder(r, n + 2) /\ Covered(s, k, n + 2, r, m)
<1> DEFINE L == Len(q)
<1>0. L \in Nat /\ Len(r) = L + 2
  OBVIOUS
<1>1. \A i \in 1 .. L : r[i].seq \in Nat /\ r[i].seq < n
  <2>1. \A i \in 1 .. L : q[i] \in Copies
    OBVIOUS
  <2> QED BY <2>1 DEF InOrder, Copies
<1>2. /\ r[L + 1].seq = n /\ r[L + 1].part = "gate_up" /\ r[L + 1].key = k /\ r[L + 1].slot = s
      /\ r[L + 2].seq = n + 1 /\ r[L + 2].part = "down" /\ r[L + 2].key = k /\ r[L + 2].slot = s
  OBVIOUS
<1>3. \A i, j \in 1 .. L : i < j => r[i].seq < r[j].seq
  BY DEF InOrder
<1> HIDE DEF L
<1>4. \A i \in 1 .. L + 2 : i \in 1 .. L \/ i = L + 1 \/ i = L + 2
  BY <1>0
<1>5. \A i \in 1 .. L + 2 : r[i].seq \in Nat /\ r[i].seq < n + 2
  BY <1>1, <1>2, <1>4
<1>6. ASSUME NEW i \in 1 .. L + 2, NEW j \in 1 .. L + 2, i < j PROVE r[i].seq < r[j].seq
  <2>1. CASE j \in 1 .. L
    <3>1. i \in 1 .. L
      BY <1>0, <1>6, <2>1
    <3> QED BY <1>3, <1>6, <2>1, <3>1
  <2>2. CASE j = L + 1
    <3>1. i \in 1 .. L
      BY <1>0, <1>6, <2>2
    <3> QED BY <1>1, <1>2, <2>2, <3>1
  <2>3. CASE j = L + 2
    <3>1. i \in 1 .. L \/ i = L + 1
      BY <1>0, <1>6, <2>3
    <3>2. CASE i \in 1 .. L
      BY <1>1, <1>2, <2>3, <3>2
    <3>3. CASE i = L + 1
      BY <1>2, <2>3, <3>3
    <3> QED BY <3>1, <3>2, <3>3
  <2> QED BY <1>4, <2>1, <2>2, <2>3
<1>7. HalfCovered(s, "gate_up", k, r, m)
  <2>1. \A j \in 1 .. L + 2 : Into(r, j, s, "gate_up") => j <= L + 1
    BY <1>0, <1>2, <1>4 DEF Into
  <2>2. L + 1 \in 1 .. L + 2 /\ Into(r, L + 1, s, "gate_up")
    BY <1>0, <1>2 DEF Into
  <2> QED BY <1>0, <1>2, <2>1, <2>2 DEF HalfCovered
<1>8. HalfCovered(s, "down", k, r, m)
  <2>1. L + 2 \in 1 .. L + 2 /\ Into(r, L + 2, s, "down") /\ \A j \in 1 .. L + 2 : j <= L + 2
    BY <1>0, <1>2 DEF Into
  <2> QED BY <1>0, <1>2, <2>1 DEF HalfCovered
<1> QED
  BY <1>0, <1>5, <1>6, <1>7, <1>8 DEF InOrder, Covered, Parts

(***************************************************************************)
(* The prefetcher                                                          *)
(***************************************************************************)

\* prefetch_expert() of an expert that is not resident.
LEMMA PrefetchInv ==
    ASSUME DeviceInv, NEW k \in Keys, ~Contains(k), PrefetchExpert(k)
    PROVE  /\ DeviceInv'
           /\ k \in DOMAIN event' /\ k \in DOMAIN cached'
           /\ free_list' # <<>> => free_list # <<>>
           /\ free_list # <<>> => DOMAIN cached \subseteq DOMAIN cached'
<1> DEFINE gone == Evicted(k)
           s == SlotFor(k)
           c1 == [slot |-> s, part |-> "gate_up", key |-> k, seq |-> next_seq]
           c2 == [slot |-> s, part |-> "down", key |-> k, seq |-> next_seq + 1]
<1>1. PICK p \in Priorities : Acquire(k, p)
  BY DEF PrefetchExpert
<1>2. /\ pending' = pending \o <<c1, c2>>
      /\ next_seq' = next_seq + 2
      /\ event' = [j \in (DOMAIN event \ gone) \union {k} |->
                     IF j = k THEN next_seq + 2 ELSE event[j]]
      /\ ready' = ready \ (gone \union {k})
      /\ mem' = mem
  BY DEF PrefetchExpert, EventRecord
<1>3. SlotInv'
  BY <1>1, AcquireInv DEF DeviceInv
<1>4. /\ DOMAIN cached' = (DOMAIN cached \ gone) \union {k}
      /\ cached'[k].slot = s
      /\ \A j \in DOMAIN cached \ gone : cached'[j] = cached[j] /\ j # k
  BY <1>1 DEF Acquire, Contains
<1>5. /\ s \in Slots
      /\ \A j \in DOMAIN cached \ gone : cached[j].slot # s
  BY <1>3, <1>4 DEF SlotInv, SlotTypeOK, SlotsPartition, CachedExpert
<1> HIDE DEF s, gone
<1>6. next_seq \in Nat /\ pending \in Seq(Copies) /\ Len(pending) \in Nat
  BY DEF DeviceInv, DeviceTypeOK
<1>7. c1 \in Copies /\ c2 \in Copies
  BY <1>5, <1>6 DEF Copies, Parts
<1> HIDE DEF c1, c2
<1>8. /\ pending' \in Seq(Copies) /\ Len(pending') = Len(pending) + 2
      /\ \A i \in 1 .. Len(pending) : pending'[i] = pending[i]
      /\ pending'[Len(pending) + 1] = c1 /\ pending'[Len(pending) + 2] = c2
  BY <1>2, <1>6, <1>7
<1>9. c1.slot = s /\ c2.slot = s
  BY DEF c1, c2
<1>10. InOrder(pending', next_seq') /\ Covered(s, k, next_seq + 2, pending', mem')
  BY <1>2, <1>6, <1>8, QueueOwn DEF DeviceInv, WeightsInv, c1, c2
<1>11. DOMAIN event' = (DOMAIN event \ gone) \union {k} /\ event'[k] = next_seq + 2
       /\ \A j \in DOMAIN event' : j # k => j \in DOMAIN event \ gone /\ event'[j] = event[j]
  BY <1>2
<1>12. DOMAIN cached = ready \union DOMAIN event
  BY DEF DeviceInv, WeightsInv
<1>13. DOMAIN cached' = ready' \union DOMAIN event'
  BY <1>2, <1>4, <1>11, <1>12
<1>14. ASSUME NEW j \in ready' PROVE Settled(cached'[j].slot, j, pending', mem')
  <2>1. j \in ready /\ j \in DOMAIN cached \ gone /\ cached'[j] = cached[j]
    BY <1>2, <1>4, <1>12
  <2>2. Settled(cached[j].slot, j, pending, mem)
    BY <2>1 DEF DeviceInv, WeightsInv
  <2>3. cached[j].slot # s
    BY <1>5, <2>1
  <2> QED
    BY <1>2, <1>6, <1>8, <1>9, <2>1, <2>2, <2>3, QueueElsewhere
<1>15. ASSUME NEW j \in DOMAIN event' PROVE Covered(cached'[j].slot, j, event'[j], pending', mem')
  <2>1. CASE j = k
    BY <1>4, <1>10, <1>11, <2>1
  <2>2. CASE j # k
    <3>1. /\ j \in DOMAIN event /\ event'[j] = event[j]
          /\ j \in DOMAIN cached \ gone /\ cached'[j] = cached[j]
      BY <1>4, <1>11, <1>12, <2>2
    <3>2. Covered(cached[j].slot, j, event[j], pending, mem)
      BY <3>1 DEF DeviceInv, WeightsInv
    <3>3. cached[j].slot # s
      BY <1>5, <3>1
    <3>4. \A w : Covered(cached[j].slot, j, w, pending, mem)
                  => Covered(cached[j].slot, j, w, pending', mem)
      BY <1>6, <1>8, <1>9, <3>3, QueueElsewhere
    <3>5. Covered(cached[j].slot, j, event[j], pending', mem)
      BY <3>2, <3>4
    <3> QED
      BY <1>2, <3>1, <3>5
  <2> QED BY <2>1, <2>2
<1>16. WeightsInv'
  BY <1>10, <1>13, <1>14, <1>15 DEF WeightsInv
<1>17. DeviceTypeOK'
  <2>1. event' \in [DOMAIN event' -> Nat] /\ DOMAIN event' \subseteq Keys
    BY <1>2, <1>6 DEF DeviceInv, DeviceTypeOK
  <2> QED
    BY <1>2, <1>6, <1>8, <2>1 DEF DeviceInv, DeviceTypeOK
<1>18. free_list' # <<>> => free_list # <<>>
  BY <1>1 DEF Acquire, Contains
<1>19. free_list # <<>> => DOMAIN cached \subseteq DOMAIN cached'
  BY <1>4 DEF gone, Evicted
<1> QED
  BY <1>3, <1>4, <1>11, <1>16, <1>17, <1>18, <1>19 DEF DeviceInv

\* The device performs the first n copies of its queue: nothing else changes for
\* the prefetcher, and a slot with none of its copies left is settled.
LEMMA DeviceRuns ==
    ASSUME DeviceInv, NEW n \in 0 .. Len(pending),
           NEW f \in Seq(Copies), Len(f) = n, \A i \in 1 .. n : f[i] = pending[i],
           mem' = AfterCopies(mem, f),
           pending' \in Seq(Copies), Len(pending') = Len(pending) - n,
           \A i \in 1 .. Len(pending) - n : pending'[i] = pending[i + n]
    PROVE  /\ mem' \in [Slots -> [Parts -> Keys \union {NoExpert}]]
           /\ InOrder(pending', next_seq)
           /\ \A k \in ready : Settled(cached[k].slot, k, pending', mem')
           /\ \A k \in DOMAIN event : Covered(cached[k].slot, k, event[k], pending', mem')
           /\ \A k \in DOMAIN event :
                (\A i \in 1 .. Len(pending) : pending[i].seq < event[k] => i <= n)
                  => Settled(cached[k].slot, k, pending', mem')
<1>0. pending \in Seq(Copies) /\ Len(pending) \in Nat /\ n \in Nat /\ Len(pending) - n \in Nat
  BY DEF DeviceInv, DeviceTypeOK
<1>1. \A k \in DOMAIN cached : cached[k].slot \in Slots
  BY DEF DeviceInv, SlotInv, SlotTypeOK, CachedExpert
<1>2. DOMAIN cached = ready \union DOMAIN event
  BY DEF DeviceInv, WeightsInv
<1>3. mem' \in [Slots -> [Parts -> Keys \union {NoExpert}]]
  BY AfterCopiesType DEF DeviceInv, DeviceTypeOK
<1>4. InOrder(pending', next_seq)
  <2>1. \A i \in 1 .. Len(pending') : i + n \in 1 .. Len(pending) /\ pending'[i] = pending[i + n]
    BY <1>0
  <2>2. \A i, j \in 1 .. Len(pending') : i < j => i + n < j + n
    BY <1>0
  <2> QED
    BY <2>1, <2>2 DEF DeviceInv, WeightsInv, InOrder
<1>5. \A k \in ready : Settled(cached[k].slot, k, pending', mem')
  <2> TAKE k \in ready
  <2>1. cached[k].slot \in Slots /\ Settled(cached[k].slot, k, pending, mem)
    BY <1>1, <1>2 DEF DeviceInv, WeightsInv
  <2> QED
    BY <1>0, <2>1, RunCopies
<1>6. ASSUME NEW k \in DOMAIN event
      PROVE  /\ Covered(cached[k].slot, k, event[k], pending', mem')
             /\ (\A i \in 1 .. Len(pending) : pending[i].seq < event[k] => i <= n)
                  => Settled(cached[k].slot, k, pending', mem')
  <2>1. cached[k].slot \in Slots /\ Covered(cached[k].slot, k, event[k], pending, mem)
    BY <1>1, <1>2 DEF DeviceInv, WeightsInv
  <2>2. \A w : Covered(cached[k].slot, k, w, pending, mem)
               => Covered(cached[k].slot, k, w, pending', mem')
    BY <1>0, <2>1, RunCopies
  <2>3. /\ (\A p \in Parts : HalfCovered(cached[k].slot, p, k, pending, mem))
             /\ (\A i \in 1 .. Len(pending) : pending[i].slot = cached[k].slot => i <= n)
             => Settled(cached[k].slot, k, pending', mem')
    BY <1>0, <2>1, RunCopies
  <2> QED
    BY <2>1, <2>2, <2>3 DEF Covered
<1> QED
  BY <1>3, <1>4, <1>5, <1>6

\* synchronize_expert(): the expert's own event is enough, whatever else is in
\* the queue.
LEMMA SynchronizeInv ==
    ASSUME DeviceInv, NEW k \in DOMAIN event, SynchronizeExpert(k), UNCHANGED cacheVars
    PROVE  DeviceInv' /\ k \in ready'
<1> DEFINE w == event[k]
           n == CountBefore(pending, w)
<1>0. /\ pending \in Seq(Copies) /\ Len(pending) \in Nat /\ w \in Nat
      /\ \A i \in 1 .. Len(pending) : pending[i] \in Copies
  BY DEF DeviceInv, DeviceTypeOK
<1>1. /\ mem' = AfterCopies(mem, SubSeq(pending, 1, n))
      /\ pending' = SubSeq(pending, n + 1, Len(pending))
      /\ event' = [j \in DOMAIN event \ {k} |-> event[j]]
      /\ ready' = ready \union {k}
      /\ next_seq' = next_seq /\ cached' = cached
  BY DEF SynchronizeExpert, EventSynchronize, Before, NotBefore, cacheVars
<1> HIDE DEF w
<1>2. /\ n \in 0 .. Len(pending)
      /\ \A i \in 1 .. n : pending[i].seq < w
      /\ n < Len(pending) => pending[n + 1].seq >= w
  BY <1>0, CountBeforeStops
<1> HIDE DEF n
<1>3. n \in Nat /\ n <= Len(pending) /\ Len(pending) - n \in Nat
  BY <1>0, <1>2
<1>4. /\ SubSeq(pending, 1, n) \in Seq(Copies)
      /\ Len(SubSeq(pending, 1, n)) = n
      /\ \A i \in 1 .. n : SubSeq(pending, 1, n)[i] = pending[i]
  BY <1>0, <1>3
<1>5. /\ pending' \in Seq(Copies)
      /\ Len(pending') = Len(pending) - n
      /\ \A i \in 1 .. Len(pending) - n : pending'[i] = pending[i + n]
  BY <1>0, <1>1, <1>3
<1>6. /\ mem' \in [Slots -> [Parts -> Keys \union {NoExpert}]]
      /\ InOrder(pending', next_seq)
      /\ \A j \in ready : Settled(cached[j].slot, j, pending', mem')
      /\ \A j \in DOMAIN event : Covered(cached[j].slot, j, event[j], pending', mem')
      /\ (\A i \in 1 .. Len(pending) : pending[i].seq < w => i <= n)
            => Settled(cached[k].slot, k, pending', mem')
  <2>1. mem' = AfterCopies(mem, SubSeq(pending, 1, n))
    BY <1>1
  <2> QED
    BY <1>2, <1>4, <1>5, <2>1, DeviceRuns DEF w
<1>7. \A i \in 1 .. Len(pending) : pending[i].seq < w => i <= n
  <2> SUFFICES ASSUME NEW i \in 1 .. Len(pending), i > n PROVE pending[i].seq >= w
    BY <1>0, <1>3 DEF Copies
  <2>1. n + 1 \in 1 .. Len(pending) /\ n < Len(pending) /\ n + 1 <= i
    BY <1>0, <1>3
  <2>2. pending[n + 1].seq >= w /\ pending[n + 1].seq \in Nat /\ pending[i].seq \in Nat
    BY <1>0, <1>2, <2>1 DEF Copies
  <2>3. pending[n + 1].seq <= pending[i].seq
    <3>1. CASE n + 1 = i
      BY <2>2, <3>1
    <3>2. CASE n + 1 < i
      BY <2>1, <2>2, <3>2 DEF DeviceInv, WeightsInv, InOrder
    <3> QED BY <1>3, <2>1, <3>1, <3>2
  <2> QED
    BY <1>0, <2>2, <2>3
<1>8. Settled(cached[k].slot, k, pending', mem')
  BY <1>6, <1>7
<1>9. /\ DOMAIN event' = DOMAIN event \ {k}
      /\ \A j \in DOMAIN event' : j \in DOMAIN event /\ event'[j] = event[j]
  BY <1>1
<1>10. WeightsInv'
  BY <1>1, <1>6, <1>8, <1>9 DEF DeviceInv, WeightsInv
<1>11. DeviceTypeOK'
  <2>1. event' \in [DOMAIN event' -> Nat] /\ DOMAIN event' \subseteq Keys
    BY <1>1, <1>9 DEF DeviceInv, DeviceTypeOK
  <2> QED
    BY <1>1, <1>5, <1>6, <2>1 DEF DeviceInv, DeviceTypeOK
<1>12. SlotInv'
  BY DEF DeviceInv, cacheVars, SlotInv, SlotTypeOK, SlotsPartition, StampsDistinct
<1> QED
  BY <1>1, <1>10, <1>11, <1>12 DEF DeviceInv

\* The CUDA stream performs its oldest copy.
LEMMA DeviceCopyInv ==
    ASSUME DeviceInv, DeviceCopy
    PROVE  DeviceInv'
<1>0. pending \in Seq(Copies) /\ Len(pending) \in Nat /\ pending # <<>>
  BY DEF DeviceInv, DeviceTypeOK, DeviceCopy
<1>1. Len(pending) >= 1 /\ Head(pending) = pending[1] /\ pending[1] \in Copies
  BY <1>0
<1>2. /\ mem' = AfterCopies(mem, <<Head(pending)>>) /\ pending' = Tail(pending)
      /\ next_seq' = next_seq /\ event' = event /\ ready' = ready
      /\ cached' = cached /\ free_list' = free_list /\ clock' = clock
  BY DEF DeviceCopy, cacheVars
<1>3. /\ pending' \in Seq(Copies) /\ Len(pending') = Len(pending) - 1
      /\ \A i \in 1 .. Len(pending) - 1 : pending'[i] = pending[i + 1]
  BY <1>0, <1>1, <1>2
<1>4. /\ <<Head(pending)>> \in Seq(Copies) /\ Len(<<Head(pending)>>) = 1
      /\ \A i \in 1 .. 1 : <<Head(pending)>>[i] = pending[i]
  BY <1>1
<1>5. 1 \in 0 .. Len(pending)
  BY <1>0, <1>1
<1>6. /\ mem' \in [Slots -> [Parts -> Keys \union {NoExpert}]]
      /\ InOrder(pending', next_seq)
      /\ \A j \in ready : Settled(cached[j].slot, j, pending', mem')
      /\ \A j \in DOMAIN event : Covered(cached[j].slot, j, event[j], pending', mem')
  BY <1>2, <1>3, <1>4, <1>5, DeviceRuns
<1>7. WeightsInv'
  BY <1>2, <1>6 DEF DeviceInv, WeightsInv
<1>8. DeviceTypeOK'
  BY <1>2, <1>3, <1>6 DEF DeviceInv, DeviceTypeOK
<1>9. SlotInv'
  BY <1>2 DEF DeviceInv, SlotInv, SlotTypeOK, SlotsPartition, StampsDistinct
<1> QED
  BY <1>7, <1>8, <1>9 DEF DeviceInv

\* touch() changes only stamps.
LEMMA EvaluateDeviceInv ==
    ASSUME DeviceInv, NEW k \in Keys, Touch(k), UNCHANGED deviceVars
    PROVE  DeviceInv' /\ DOMAIN cached' = DOMAIN cached /\ free_list' = free_list
<1>1. /\ SlotInv'
      /\ DOMAIN cached' = DOMAIN cached /\ free_list' = free_list
      /\ \A j \in DOMAIN cached : cached'[j].slot = cached[j].slot
  <2>1. SlotInv'
    BY TouchInv DEF DeviceInv
  <2>2. CASE Contains(k)
    <3>1. cached \in [DOMAIN cached -> CachedExpert]
      BY DEF DeviceInv, SlotInv, SlotTypeOK
    <3>2. cached' = [cached EXCEPT ![k].last_used = clock + 1] /\ free_list' = free_list
      BY <2>2 DEF Touch
    <3>3. \A j \in DOMAIN cached : cached'[j].slot = cached[j].slot
      BY <3>1, <3>2 DEF CachedExpert
    <3> QED BY <2>1, <3>2, <3>3
  <2>3. CASE ~Contains(k)
    BY <2>1, <2>3 DEF Touch, cacheVars
  <2> QED BY <2>2, <2>3
<1>2. WeightsInv' /\ DeviceTypeOK'
  BY <1>1 DEF DeviceInv, WeightsInv, DeviceTypeOK, deviceVars
<1> QED
  BY <1>1, <1>2 DEF DeviceInv

(***************************************************************************)
(* run_layers() and generate()                                             *)
(***************************************************************************)

LEMMA ConfigFacts ==
    ASSUME cfg \in Configs
    PROVE  /\ cfg.num_layers \in Nat \ {0} /\ cfg.topk \in Nat \ {0}
           /\ cfg.prompt \in Nat \ {0} /\ cfg.max_new \in Nat \ {0}
           /\ \A l \in 0 .. cfg.num_layers - 1, e \in Experts : <<l, e>> \in Keys
<1>1. Cardinality(Experts) \in Nat
  BY GeneratorAssumption, FS_CardinalityType
<1>2. /\ cfg \in [num_layers : Nat \ {0}, topk : 1 .. Cardinality(Experts),
                  prompt : Nat \ {0}, max_new : Nat \ {0}]
      /\ (0 .. cfg.num_layers - 1) \X Experts \subseteq Keys
  BY GeneratorAssumption
<1>3. 1 .. Cardinality(Experts) \subseteq Nat \ {0}
  BY <1>1
<1> QED
  BY <1>2, <1>3

LEMMA ChoiceIsSequence ==
    ASSUME cfg \in Configs, NEW c \in Choices
    PROVE  /\ c \in Seq(Experts) /\ Len(c) = cfg.topk
           /\ \A i \in DOMAIN c : i \in 1 .. Len(c)
<1>1. cfg.topk \in Nat
  BY ConfigFacts
<1>2. c \in [1 .. cfg.topk -> Experts]
  BY DEF Choices
<1> QED
  BY <1>1, <1>2

LEMMA DeviceIdle ==
    ASSUME DeviceInv, UNCHANGED <<cacheVars, deviceVars>>
    PROVE  DeviceInv'
BY DEF DeviceInv, SlotInv, SlotTypeOK, SlotsPartition, StampsDistinct,
       DeviceTypeOK, WeightsInv, cacheVars, deviceVars

LEMMA GenInitInv == GenInit => GenInv
<1> SUFFICES ASSUME GenInit PROVE GenInv
  OBVIOUS
<1>1. /\ pending = <<>> /\ pending \in Seq(Copies) /\ Len(pending) = 0
      /\ event = <<>> /\ DOMAIN event = {} /\ DOMAIN cached = {} /\ ready = {}
      /\ event \in [DOMAIN event -> Nat]
  BY DEF GenInit, SlotInit
<1>2. SlotInv
  BY SlotInitInv DEF GenInit
<1>3. DeviceTypeOK
  BY <1>1 DEF GenInit, DeviceTypeOK
<1>4. WeightsInv
  BY <1>1 DEF WeightsInv, InOrder
<1>5. LoopTypeOK
  <2>1. /\ cfg.num_layers \in Nat \ {0} /\ cfg.max_new \in Nat
    BY ConfigFacts DEF GenInit
  <2>2. 0 \in 0 .. cfg.num_layers - 1 /\ 0 \in 0 .. cfg.max_new
    BY <2>1
  <2> QED BY <2>2 DEF GenInit, LoopTypeOK
<1>6. LoopInv
  BY DEF GenInit, LoopInv, EvaluatesOwnWeights
<1>7. CountInv
  <2>1. cfg.num_layers \in Nat \ {0} /\ cfg.topk \in Nat /\ cfg.prompt \in Nat \ {0}
    BY ConfigFacts DEF GenInit
  <2>2. 0 * cfg.num_layers = 0 /\ 0 * cfg.topk = 0 /\ 0 < cfg.prompt
    BY <2>1
  <2> QED BY <2>2 DEF GenInit, CountInv, Routed
<1>8. PredictionInv
  BY DEF GenInit, PredictionInv, Routed
<1> QED
  BY <1>2, <1>3, <1>4, <1>5, <1>6, <1>7, <1>8 DEF GenInv, DeviceInv

LEMMA PredictInv == ASSUME GenInv, Predict PROVE GenInv'
<1> USE DEF GenInv
<1>1. PICK c \in Choices : pred' = c /\ predicted' = {c[i] : i \in DOMAIN c}
  BY DEF Predict
<1>2. /\ pc = "predict" /\ pc' = "schedule" /\ UNCHANGED <<cacheVars, deviceVars>>
      /\ UNCHANGED <<layer, route, fed, out, hits, misses, reactive, prediction_calls,
                     cfg, backend, computed>>
  BY DEF Predict, telemetry, config
<1>3. DeviceInv'
  BY <1>2, DeviceIdle
<1>4. c \in Seq(Experts) /\ \A i \in DOMAIN c : i \in 1 .. Len(c)
  BY ChoiceIsSequence DEF LoopTypeOK
<1>5. \A i \in DOMAIN c : c[i] \in Experts
  BY <1>4
<1>6. LoopTypeOK'
  BY <1>1, <1>2, <1>4, <1>5 DEF LoopTypeOK
<1>7. LoopInv'
  BY <1>2 DEF LoopInv, EvaluatesOwnWeights
<1>8. CountInv'
  BY <1>2 DEF CountInv, Routed
<1>9. PredictionInv'
  <2>1. \A e \in predicted' : \E i \in 1 .. Len(pred') : pred'[i] = e
    BY <1>1, <1>4
  <2> QED BY <1>2, <2>1 DEF PredictionInv, Routed
<1> QED BY <1>3, <1>6, <1>7, <1>8, <1>9

LEMMA ScheduleInv == ASSUME GenInv, Schedule PROVE GenInv'
<1> USE DEF GenInv
<1>1. /\ pc = "schedule" /\ pc' = "schedule" /\ pred # <<>> /\ pred' = Tail(pred)
      /\ UNCHANGED <<layer, predicted, route, fed, out, hits, misses, reactive,
                     prediction_calls, cfg, backend, computed>>
  BY DEF Schedule, telemetry, config
<1>2. PICK k : k = <<layer, Head(pred)>>
  OBVIOUS
<1>3. /\ pred \in Seq(Experts) /\ Tail(pred) \in Seq(Experts) /\ Head(pred) \in Experts
      /\ Len(pred) \in Nat /\ Head(pred) = pred[1]
      /\ Len(Tail(pred)) = Len(pred) - 1
      /\ \A i \in 1 .. Len(pred) : i # 1 =>
           i - 1 \in 1 .. Len(Tail(pred)) /\ Tail(pred)[i - 1] = pred[i]
  BY <1>1 DEF LoopTypeOK
<1>4. k \in Keys
  BY <1>2, <1>3, ConfigFacts DEF LoopTypeOK
<1>5. /\ DeviceInv' /\ Contains(k)'
      /\ free_list' # <<>> => free_list # <<>> /\ DOMAIN cached \subseteq DOMAIN cached'
  <2>1. CASE NeedsPrefetch(k)
    <3>1. PrefetchExpert(k)
      <4>1. IF NeedsPrefetch(<<layer, Head(pred)>>) THEN PrefetchExpert(<<layer, Head(pred)>>)
            ELSE UNCHANGED <<cacheVars, deviceVars>>
        BY DEF Schedule
      <4> QED
        BY ONLY <1>2, <2>1, <4>1
    <3>2. ~Contains(k)
      BY <2>1 DEF NeedsPrefetch
    <3>3. /\ DeviceInv' /\ k \in DOMAIN cached'
          /\ free_list' # <<>> => free_list # <<>>
          /\ free_list # <<>> => DOMAIN cached \subseteq DOMAIN cached'
      BY <1>4, <3>1, <3>2, PrefetchInv
    <3> QED BY <3>3 DEF Contains
  <2>2. CASE ~NeedsPrefetch(k)
    <3>1. UNCHANGED <<cacheVars, deviceVars>>
      BY <1>2, <2>2 DEF Schedule, NeedsPrefetch, Contains, IsInflight
    <3>2. Contains(k)
      BY <2>2 DEF NeedsPrefetch, Contains, IsInflight, DeviceInv, WeightsInv
    <3>3. DeviceInv'
      BY <3>1, DeviceIdle
    <3> QED BY <3>1, <3>2, <3>3 DEF cacheVars, Contains
  <2> QED BY <2>1, <2>2
<1>6. LoopTypeOK'
  BY <1>1, <1>3 DEF LoopTypeOK
<1>7. LoopInv'
  BY <1>1 DEF LoopInv, EvaluatesOwnWeights
<1>8. CountInv'
  BY <1>1 DEF CountInv, Routed
<1>9. PredictionInv'
  <2> SUFFICES ASSUME free_list' # <<>>, NEW e \in predicted,
                      ~(<<layer, e>> \in DOMAIN cached')
               PROVE  \E i \in 1 .. Len(Tail(pred)) : Tail(pred)[i] = e
    BY <1>1 DEF PredictionInv, Routed, Contains
  <2>1. free_list # <<>> /\ ~(<<layer, e>> \in DOMAIN cached)
    BY <1>5
  <2>2. PICK i \in 1 .. Len(pred) : pred[i] = e
    BY <1>1, <2>1 DEF PredictionInv, Contains
  <2>3. i # 1
    BY <1>2, <1>3, <1>5, <2>2 DEF Contains
  <2> QED BY <1>3, <2>2, <2>3
<1> QED BY <1>5, <1>6, <1>7, <1>8, <1>9

LEMMA RouteInv == ASSUME GenInv, Route PROVE GenInv'
<1> USE DEF GenInv
<1>1. /\ pc = "schedule" /\ pc' = "experts" /\ pred = <<>> /\ route' \in Choices
      /\ prediction_calls' = prediction_calls + 1
      /\ UNCHANGED <<cacheVars, deviceVars>>
      /\ UNCHANGED <<layer, pred, predicted, fed, out, hits, misses, reactive,
                     cfg, backend, computed>>
  BY DEF Route, config
<1>2. DeviceInv'
  BY <1>1, DeviceIdle
<1>3. route' \in Seq(Experts) /\ Len(route') = cfg.topk
  <2>1. PICK c \in Choices : c = route'
    BY <1>1
  <2> QED BY <2>1, ChoiceIsSequence DEF LoopTypeOK
<1>4. LoopTypeOK'
  BY <1>1, <1>3 DEF LoopTypeOK
<1>5. LoopInv'
  BY <1>1 DEF LoopInv, EvaluatesOwnWeights
<1>6. CountInv'
  <2>1. /\ cfg.topk \in Nat /\ cfg.num_layers \in Nat /\ prediction_calls \in Nat
        /\ hits \in Nat /\ misses \in Nat /\ layer \in Nat /\ fed \in Nat
    BY ConfigFacts DEF LoopTypeOK
  <2>2. \A a, b \in Nat : (a + 1) * b = a * b + b
    OBVIOUS
  <2>3. /\ prediction_calls * cfg.topk \in Nat
        /\ (prediction_calls + 1) * cfg.topk = prediction_calls * cfg.topk + cfg.topk
    BY <2>1, <2>2
  <2>4. /\ prediction_calls = fed * cfg.num_layers + layer
        /\ hits + misses = prediction_calls * cfg.topk
        /\ reactive <= misses
        /\ IF out = 0 THEN fed < cfg.prompt ELSE fed + 1 = cfg.prompt + out
    <3>1. fed * cfg.num_layers \in Nat
      BY <2>1
    <3> QED BY <1>1, <2>1, <2>3, <3>1 DEF CountInv, Routed, LoopTypeOK
  <2>5. hits + misses + cfg.topk = (prediction_calls + 1) * cfg.topk
    BY <2>1, <2>3, <2>4
  <2>6. /\ prediction_calls' = fed * cfg.num_layers + layer + 1
        /\ hits' + misses' + Len(route') = prediction_calls' * cfg'.topk + 0
        /\ reactive' <= misses' + 0
    <3>1. (prediction_calls + 1) * cfg.topk \in Nat
      BY <2>1, <2>3
    <3>2. hits + misses + cfg.topk = (prediction_calls + 1) * cfg.topk + 0
      BY ONLY <2>5, <3>1
    <3>3. reactive <= misses + 0
      BY ONLY <2>1, <2>4
    <3> QED BY <1>1, <1>3, <2>4, <3>2, <3>3
  <2> QED
    BY <1>1, <2>4, <2>6 DEF CountInv, Routed
<1>7. PredictionInv'
  <2> SUFFICES ASSUME free_list' # <<>>, NEW e \in predicted
               PROVE  <<layer, e>> \in DOMAIN cached'
    BY <1>1 DEF PredictionInv, Routed, Contains
  <2>1. free_list # <<>> /\ cached' = cached /\ Len(pred) = 0
    BY <1>1 DEF cacheVars
  <2> QED BY <1>1, <2>1 DEF PredictionInv, Contains
<1> QED BY <1>2, <1>4, <1>5, <1>6, <1>7

LEMMA ReadyHitInv == ASSUME GenInv, ReadyHit PROVE GenInv'
<1> USE DEF GenInv
<1>1. /\ pc = "experts" /\ pc' = "evaluate" /\ route # <<>> /\ Current \in ready
      /\ hits' = hits + 1
      /\ UNCHANGED <<cacheVars, deviceVars>>
      /\ UNCHANGED <<layer, pred, predicted, route, fed, out, misses, reactive,
                     prediction_calls, cfg, backend, computed>>
  BY DEF ReadyHit, config
<1>2. DeviceInv'
  BY <1>1, DeviceIdle
<1>3. LoopTypeOK'
  BY <1>1 DEF LoopTypeOK
<1>4. LoopInv'
  BY <1>1 DEF LoopInv, EvaluatesOwnWeights, Current, deviceVars
<1>5. CountInv'
  <2>1. hits \in Nat /\ misses \in Nat /\ Len(route) \in Nat /\ prediction_calls * cfg.topk \in Nat
    BY ConfigFacts DEF LoopTypeOK
  <2>2. hits + misses + Len(route) = prediction_calls * cfg.topk + 0
    BY <1>1 DEF CountInv, Routed
  <2>3. hits + 1 + misses + Len(route) = prediction_calls * cfg.topk + 1
    BY <2>1, <2>2
  <2> QED BY <1>1, <2>3 DEF CountInv, Routed
<1>6. PredictionInv'
  BY <1>1 DEF PredictionInv, Routed, Contains, cacheVars
<1> QED BY <1>2, <1>3, <1>4, <1>5, <1>6

\* What the loop fetches itself is not resident: it is neither ready nor in
\* flight.
LEMMA NotReadyMisses ==
    ASSUME GenInv, NotReady, ~IsInflight(Current)
    PROVE  ~Contains(Current)
BY DEF GenInv, NotReady, IsInflight, Contains, DeviceInv, WeightsInv

LEMMA CurrentKey ==
    ASSUME GenInv, route # <<>>
    PROVE  Current \in Keys
<1>1. Head(route) \in Experts
  BY DEF GenInv, LoopTypeOK
<1> QED
  BY <1>1, ConfigFacts DEF GenInv, LoopTypeOK, Current

LEMMA NotReadyInv == ASSUME GenInv, NotReady PROVE GenInv'
<1> USE DEF GenInv
<1>1. /\ pc = "experts" /\ pc' = "wait" /\ route # <<>>
      /\ UNCHANGED <<layer, pred, predicted, route, fed, out, hits, misses,
                     prediction_calls, cfg, backend, computed>>
  BY DEF NotReady, config
<1>2. PICK k \in Keys : k = Current
  BY <1>1, CurrentKey
<1>3. /\ DeviceInv' /\ k \in DOMAIN event'
      /\ free_list' # <<>> => free_list # <<>> /\ DOMAIN cached \subseteq DOMAIN cached'
      /\ reactive' = reactive \/ reactive' = reactive + 1
  <2>1. CASE IsInflight(k)
    <3>1. IF IsInflight(Current) THEN UNCHANGED <<cacheVars, deviceVars, reactive>>
          ELSE PrefetchExpert(Current) /\ reactive' = reactive + 1
      BY DEF NotReady
    <3>2. UNCHANGED <<cacheVars, deviceVars, reactive>>
      BY <1>2, <2>1, <3>1 DEF IsInflight
    <3>3. DeviceInv'
      BY <3>2, DeviceIdle
    <3> QED BY <2>1, <3>2, <3>3 DEF IsInflight, cacheVars, deviceVars
  <2>2. CASE ~IsInflight(k)
    <3>1. IF IsInflight(Current) THEN UNCHANGED <<cacheVars, deviceVars, reactive>>
          ELSE PrefetchExpert(Current) /\ reactive' = reactive + 1
      BY DEF NotReady
    <3>2. PrefetchExpert(k) /\ reactive' = reactive + 1
      BY ONLY <1>2, <2>2, <3>1
    <3>3. ~Contains(k)
      BY <1>2, <2>2, NotReadyMisses DEF IsInflight, Contains
    <3>4. /\ DeviceInv' /\ k \in DOMAIN event'
          /\ free_list' # <<>> => free_list # <<>>
          /\ free_list # <<>> => DOMAIN cached \subseteq DOMAIN cached'
      BY <3>2, <3>3, PrefetchInv
    <3> QED BY <3>2, <3>4
  <2> QED BY <2>1, <2>2
<1>4. LoopTypeOK'
  BY <1>1, <1>3 DEF LoopTypeOK
<1>5. LoopInv'
  <2>1. Current' = k
    BY <1>1, <1>2 DEF Current
  <2> QED BY <1>1, <1>3, <2>1 DEF LoopInv, EvaluatesOwnWeights
<1>6. CountInv'
  <2>1. reactive \in Nat /\ misses \in Nat /\ reactive <= misses
    BY <1>1 DEF LoopTypeOK, CountInv
  <2>2. reactive' <= misses + 1
    BY <1>3, <2>1
  <2> QED BY <1>1, <2>2 DEF CountInv, Routed
<1>7. PredictionInv'
  BY <1>1, <1>3 DEF PredictionInv, Routed, Contains
<1> QED BY <1>3, <1>4, <1>5, <1>6, <1>7

LEMMA WaitInv == ASSUME GenInv, Wait PROVE GenInv'
<1> USE DEF GenInv
<1>1. /\ pc = "wait" /\ pc' = "evaluate" /\ misses' = misses + 1 /\ UNCHANGED cacheVars
      /\ UNCHANGED <<layer, pred, predicted, route, fed, out, hits, reactive,
                     prediction_calls, cfg, backend, computed>>
  BY DEF Wait, config
<1>2. route # <<>> /\ Current \in DOMAIN event
  BY <1>1 DEF LoopInv
<1>3. PICK k \in DOMAIN event : k = Current
  BY <1>2
<1>4. SynchronizeExpert(k)
  <2>1. SynchronizeExpert(Current)
    BY DEF Wait
  <2> QED BY ONLY <1>3, <2>1
<1>5. DeviceInv' /\ k \in ready'
  BY <1>1, <1>4, SynchronizeInv
<1>6. LoopTypeOK'
  BY <1>1 DEF LoopTypeOK
<1>7. LoopInv'
  <2>1. Current' = k
    BY <1>1, <1>3 DEF Current
  <2> QED BY <1>1, <1>2, <1>5, <2>1 DEF LoopInv, EvaluatesOwnWeights
<1>8. CountInv'
  <2>1. /\ hits \in Nat /\ misses \in Nat /\ reactive \in Nat /\ Len(route) \in Nat
        /\ prediction_calls * cfg.topk \in Nat
    BY ConfigFacts DEF LoopTypeOK
  <2>2. hits + misses + Len(route) = prediction_calls * cfg.topk + 0 /\ reactive <= misses + 1
    BY <1>1 DEF CountInv, Routed
  <2>3. /\ hits + (misses + 1) + Len(route) = prediction_calls * cfg.topk + 1
        /\ reactive <= misses + 1 + 0
    BY <2>1, <2>2
  <2> QED BY <1>1, <2>3 DEF CountInv, Routed
<1>9. PredictionInv'
  BY <1>1 DEF PredictionInv, Routed, Contains, cacheVars
<1> QED BY <1>5, <1>6, <1>7, <1>8, <1>9

\* expert_mlp() reads a settled slot.
LEMMA EvaluateInv == ASSUME GenInv, Evaluate PROVE GenInv'
<1> USE DEF GenInv
<1>1. /\ pc = "evaluate" /\ pc' = "experts" /\ route' = Tail(route)
      /\ computed' =
           [expert |-> Current,
            gate_up |-> IF Contains(Current) THEN mem[cached[Current].slot]["gate_up"] ELSE NoExpert,
            down |-> IF Contains(Current) THEN mem[cached[Current].slot]["down"] ELSE NoExpert]
      /\ UNCHANGED deviceVars
      /\ UNCHANGED <<layer, pred, predicted, fed, out, hits, misses, reactive,
                     prediction_calls, cfg, backend>>
  BY DEF Evaluate, telemetry, config
<1>2. route # <<>> /\ Current \in ready
  BY <1>1 DEF LoopInv
<1>3. PICK k \in Keys : k = Current
  BY <1>2, CurrentKey
<1>4. Touch(k)
  <2>1. Touch(Current)
    BY DEF Evaluate
  <2> QED BY ONLY <1>3, <2>1
<1>5. DeviceInv' /\ DOMAIN cached' = DOMAIN cached /\ free_list' = free_list
  BY <1>1, <1>4, EvaluateDeviceInv
<1>6. Contains(k) /\ mem[cached[k].slot]["gate_up"] = k /\ mem[cached[k].slot]["down"] = k
  BY <1>2, <1>3 DEF Contains, DeviceInv, WeightsInv, Settled, Parts
<1>7. computed' = [expert |-> k, gate_up |-> k, down |-> k]
  BY <1>1, <1>3, <1>6
<1>8. /\ Tail(route) \in Seq(Experts) /\ Len(Tail(route)) = Len(route) - 1
      /\ Len(route) \in Nat
  BY <1>2 DEF LoopTypeOK
<1>9. LoopTypeOK'
  BY <1>1, <1>7, <1>8 DEF LoopTypeOK
<1>10. LoopInv'
  BY <1>1, <1>7 DEF LoopInv, EvaluatesOwnWeights
<1>11. CountInv'
  <2>1. hits \in Nat /\ misses \in Nat /\ prediction_calls * cfg.topk \in Nat
    BY ConfigFacts DEF LoopTypeOK
  <2>2. hits + misses + Len(route) = prediction_calls * cfg.topk + 1
    BY <1>1 DEF CountInv, Routed
  <2>3. hits + misses + Len(Tail(route)) = prediction_calls * cfg.topk + 0
    BY <1>8, <2>1, <2>2
  <2> QED BY <1>1, <2>3 DEF CountInv, Routed
<1>12. PredictionInv'
  BY <1>1, <1>5 DEF PredictionInv, Routed, Contains
<1> QED BY <1>5, <1>9, <1>10, <1>11, <1>12

LEMMA EndLayerInv == ASSUME GenInv, EndLayer PROVE GenInv'
<1> USE DEF GenInv
<1>1. /\ pc = "experts" /\ route = <<>> /\ Len(route) = 0 /\ predicted' = {}
      /\ UNCHANGED <<cacheVars, deviceVars>>
      /\ UNCHANGED <<pred, route, out, hits, misses, reactive, prediction_calls,
                     cfg, backend, computed>>
  BY DEF EndLayer, telemetry, config
<1>2. DeviceInv'
  BY <1>1, DeviceIdle
<1>3. /\ cfg.num_layers \in Nat \ {0} /\ cfg.topk \in Nat /\ cfg.prompt \in Nat \ {0}
      /\ layer \in 0 .. cfg.num_layers - 1 /\ layer \in Nat /\ fed \in Nat /\ out \in Nat
      /\ hits \in Nat /\ misses \in Nat /\ reactive \in Nat /\ prediction_calls \in Nat
      /\ prediction_calls * cfg.topk \in Nat /\ fed * cfg.num_layers \in Nat
  <2>1. cfg.max_new \in Nat
    BY ConfigFacts DEF LoopTypeOK
  <2> QED BY <2>1, ConfigFacts DEF LoopTypeOK
<1>4. /\ prediction_calls = fed * cfg.num_layers + layer + 1
      /\ hits + misses = prediction_calls * cfg.topk
      /\ reactive <= misses
      /\ IF out = 0 THEN fed < cfg.prompt ELSE fed + 1 = cfg.prompt + out
  BY <1>1, <1>3 DEF CountInv, Routed
<1>5. \/ /\ layer + 1 < cfg.num_layers
         /\ layer' = layer + 1 /\ pc' = "predict" /\ fed' = fed
      \/ /\ ~(layer + 1 < cfg.num_layers)
         /\ layer' = 0 /\ fed' = fed + 1
         /\ pc' = IF fed + 1 < cfg.prompt THEN "predict" ELSE "sample"
  BY DEF EndLayer, MoreLayers
<1>6. pc' \in {"predict", "sample"}
  BY <1>5
<1>7. LoopTypeOK'
  <2>1. layer' \in 0 .. cfg.num_layers - 1 /\ fed' \in Nat
    BY <1>3, <1>5
  <2> QED BY <1>1, <1>6, <2>1 DEF LoopTypeOK
<1>8. LoopInv'
  BY <1>1, <1>6 DEF LoopInv, EvaluatesOwnWeights
<1>9. CountInv'
  <2>1. CASE layer + 1 < cfg.num_layers
    <3>1. layer' = layer + 1 /\ pc' = "predict" /\ fed' = fed
      BY <1>5, <2>1
    <3>2. /\ prediction_calls = fed * cfg.num_layers + (layer + 1) + 0
          /\ hits + misses + 0 = prediction_calls * cfg.topk + 0
          /\ reactive <= misses + 0
      BY <1>3, <1>4
    <3> QED BY <1>1, <1>4, <3>1, <3>2 DEF CountInv, Routed
  <2>2. CASE ~(layer + 1 < cfg.num_layers)
    <3>1. /\ layer' = 0 /\ fed' = fed + 1
          /\ pc' = IF fed + 1 < cfg.prompt THEN "predict" ELSE "sample"
      BY <1>5, <2>2
    <3>2. \A a, b \in Nat : (a + 1) * b = a * b + b
      OBVIOUS
    <3>3. (fed + 1) * cfg.num_layers = fed * cfg.num_layers + cfg.num_layers
      BY <1>3, <3>2
    <3>4. layer + 1 = cfg.num_layers
      <4>1. \A l, n \in Nat : l <= n - 1 /\ ~(l + 1 < n) => l + 1 = n
        OBVIOUS
      <4>2. layer <= cfg.num_layers - 1
        BY <1>3
      <4> QED BY ONLY <1>3, <2>2, <4>1, <4>2
    <3>5. /\ prediction_calls = (fed + 1) * cfg.num_layers + 0 + 0
          /\ hits + misses + 0 = prediction_calls * cfg.topk + 0
          /\ reactive <= misses + 0
      BY <1>3, <1>4, <3>3, <3>4
    <3>6. IF fed + 1 < cfg.prompt THEN out = 0 ELSE fed + 1 = cfg.prompt + out
      <4>1. \A f, o, n \in Nat :
              (IF o = 0 THEN f < n ELSE f + 1 = n + o)
                => IF f + 1 < n THEN o = 0 ELSE f + 1 = n + o
        OBVIOUS
      <4>2. cfg.prompt \in Nat
        BY <1>3
      <4> QED BY ONLY <1>3, <1>4, <4>1, <4>2
    <3> QED BY <1>1, <1>4, <3>1, <3>5, <3>6 DEF CountInv, Routed
  <2> QED BY <2>1, <2>2
<1>10. PredictionInv'
  BY <1>1, <1>6 DEF PredictionInv, Routed
<1> QED BY <1>2, <1>7, <1>8, <1>9, <1>10

LEMMA SampleInv == ASSUME GenInv, Sample \/ Return PROVE GenInv'
<1> USE DEF GenInv
<1>1. /\ pc = "sample" /\ pc' \in {"predict", "done"}
      /\ \/ out' = out /\ pc' = "done"
         \/ out' = out + 1 /\ out < cfg.max_new
      /\ UNCHANGED <<cacheVars, deviceVars>>
      /\ UNCHANGED <<layer, pred, predicted, route, fed, hits, misses, reactive,
                     prediction_calls, cfg, backend, computed>>
  BY DEF Sample, Return, telemetry, config
<1>2. DeviceInv'
  BY <1>1, DeviceIdle
<1>3. /\ out \in Nat /\ cfg.max_new \in Nat /\ out <= cfg.max_new
      /\ cfg.prompt \in Nat \ {0} /\ fed \in Nat
  BY ConfigFacts DEF LoopTypeOK
<1>4. out' \in 0 .. cfg.max_new
  BY <1>1, <1>3
<1>5. LoopTypeOK'
  BY <1>1, <1>4 DEF LoopTypeOK
<1>6. LoopInv'
  BY <1>1 DEF LoopInv, EvaluatesOwnWeights
<1>7. CountInv'
  <2>1. fed = cfg.prompt + out
    BY <1>1 DEF CountInv
  <2>2. /\ pc' = "predict" => IF out' = 0 THEN fed < cfg.prompt ELSE fed + 1 = cfg.prompt + out'
        /\ pc' = "done" => fed <= cfg.prompt + out'
    BY <1>1, <1>3, <2>1
  <2> QED BY <1>1, <2>2 DEF CountInv, Routed
<1>8. PredictionInv'
  BY <1>1 DEF PredictionInv, Routed
<1> QED BY <1>2, <1>5, <1>6, <1>7, <1>8

\* The device's own step, which leaves the host's state alone.
LEMMA DeviceStepInv == ASSUME GenInv, DeviceCopy PROVE GenInv'
<1>1. /\ UNCHANGED <<cacheVars, ready, event, layer, pc, pred, predicted, route, fed, out,
                     hits, misses, reactive, prediction_calls, cfg, backend, computed>>
  BY DEF DeviceCopy, loopVars, telemetry, config
<1>2. DeviceInv'
  BY DeviceCopyInv DEF GenInv
<1>3. LoopTypeOK'
  BY <1>1 DEF GenInv, LoopTypeOK
<1>4. LoopInv'
  BY <1>1 DEF GenInv, LoopInv, EvaluatesOwnWeights, Current
<1>5. CountInv'
  BY <1>1 DEF GenInv, CountInv, Routed
<1>6. PredictionInv'
  BY <1>1 DEF GenInv, PredictionInv, Routed, Contains, cacheVars
<1> QED BY <1>2, <1>3, <1>4, <1>5, <1>6 DEF GenInv

LEMMA StutterInv == ASSUME GenInv, UNCHANGED vars PROVE GenInv'
<1>1. /\ UNCHANGED <<cacheVars, deviceVars>>
      /\ UNCHANGED <<layer, pc, pred, predicted, route, fed, out, hits, misses, reactive,
                     prediction_calls, cfg, backend, computed>>
  BY DEF vars, loopVars, telemetry, config
<1>2. DeviceInv'
  BY <1>1, DeviceIdle DEF GenInv
<1>3. LoopTypeOK'
  BY <1>1 DEF GenInv, LoopTypeOK
<1>4. LoopInv'
  BY <1>1 DEF GenInv, LoopInv, EvaluatesOwnWeights, Current, deviceVars
<1>5. CountInv'
  BY <1>1 DEF GenInv, CountInv, Routed
<1>6. PredictionInv'
  BY <1>1 DEF GenInv, PredictionInv, Routed, Contains, cacheVars
<1> QED BY <1>2, <1>3, <1>4, <1>5, <1>6 DEF GenInv

(***************************************************************************)
(* The theorems                                                            *)
(***************************************************************************)

\* The inductive invariant of generate(), its prefetcher and its device.
THEOREM GenInvariant == GenSpec => []GenInv
<1>1. GenInv /\ [GenNext]_vars => GenInv'
  BY PredictInv, ScheduleInv, RouteInv, ReadyHitInv, NotReadyInv, WaitInv, EvaluateInv,
     EndLayerInv, SampleInv, DeviceStepInv, StutterInv DEF GenNext, Host
<1> QED
  BY <1>1, GenInitInv, PTL DEF GenSpec

\* Every variable of the generation loop keeps its type; in particular no layer
\* beyond num_layers is run and no more than prompt + max_new_tokens tokens are
\* fed (generation.cpp:86-114).
THEOREM GenTypeCorrect == GenSpec => []GenTypeOK
<1>1. GenInv => GenTypeOK
  <2> SUFFICES ASSUME GenInv PROVE GenTypeOK
    OBVIOUS
  <2>1. /\ out \in Nat /\ fed \in Nat /\ out <= cfg.max_new
        /\ cfg.prompt \in Nat \ {0} /\ cfg.max_new \in Nat
    BY ConfigFacts DEF GenInv, LoopTypeOK
  <2>2. fed <= cfg.prompt + out
    <3>1. CASE pc \in {"sample", "done"}
      BY <2>1, <3>1 DEF GenInv, CountInv
    <3>2. CASE pc \notin {"sample", "done"}
      <4>1. IF out = 0 THEN fed < cfg.prompt ELSE fed + 1 = cfg.prompt + out
        BY <3>2 DEF GenInv, CountInv, LoopTypeOK, Routed
      <4> QED BY <2>1, <4>1
    <3> QED BY <3>1, <3>2
  <2>3. fed \in 0 .. cfg.prompt + cfg.max_new
    BY <2>1, <2>2
  <2> QED
    BY <2>3 DEF GenInv, DeviceInv, SlotInv, DeviceTypeOK, LoopTypeOK, GenTypeOK
<1> QED
  BY <1>1, GenInvariant, PTL

\* The slot cache keeps its promises under the loop's own calls, in which an
\* acquire() and the copies it leads to are interleaved with waits and evictions
\* (vram_cache_manager.cpp:49-96).
THEOREM GenSlots == GenSpec => [](SlotsPartition /\ StampsDistinct)
<1>1. GenInv => SlotsPartition /\ StampsDistinct
  BY DEF GenInv, DeviceInv, SlotInv
<1> QED
  BY <1>1, GenInvariant, PTL

\* An expert reported ready may be read without a wait: it is resident, its slot
\* holds both its projections and no queued copy will overwrite them
\* (generation.cpp:57-58).
THEOREM GenReadySettled == GenSpec => []ReadySlotsSettled
<1>1. GenInv => ReadySlotsSettled
  BY DEF GenInv, DeviceInv, WeightsInv, Settled, ReadySlotsSettled, Contains
<1> QED
  BY <1>1, GenInvariant, PTL

\* Waiting for an expert's own event is enough: once the copies below it have
\* run, the expert's slot holds its weights, although the slot may have been
\* reassigned under copies of its previous owner (cuda_backend_mock.cpp:65-84).
THEOREM GenEventCovers == GenSpec => []EventCoversCopies
<1>1. GenInv => EventCoversCopies
  <2> SUFFICES ASSUME GenInv, NEW k \in DOMAIN event
               PROVE  /\ Contains(k)
                      /\ \A p \in Parts :
                           AfterCopies(mem, Before(pending, event[k]))[cached[k].slot][p] = k
    BY DEF EventCoversCopies
  <2> DEFINE s == cached[k].slot
             n == CountBefore(pending, event[k])
             f == SubSeq(pending, 1, n)
             M == AfterCopies(mem, f)
  <2>1. /\ Contains(k) /\ s \in Slots /\ Covered(s, k, event[k], pending, mem)
        /\ pending \in Seq(Copies) /\ Len(pending) \in Nat /\ event[k] \in Nat
        /\ \A i \in 1 .. Len(pending) : pending[i] \in Copies
    BY DEF GenInv, DeviceInv, WeightsInv, DeviceTypeOK, SlotInv, SlotTypeOK, CachedExpert,
           Contains
  <2> HIDE DEF s
  <2>2. /\ n \in 0 .. Len(pending)
        /\ n < Len(pending) => pending[n + 1].seq >= event[k]
    BY <2>1, CountBeforeStops
  <2> HIDE DEF n
  <2>3. n \in Nat /\ n <= Len(pending)
    BY <2>1, <2>2
  <2>4. f \in Seq(Copies) /\ Len(f) = n /\ \A i \in 1 .. n : f[i] = pending[i]
    BY <2>1, <2>3
  <2>5. \A i \in 1 .. Len(pending) : pending[i].slot = s => i \in 1 .. n
    <3> SUFFICES ASSUME NEW i \in 1 .. Len(pending), pending[i].slot = s, i > n PROVE FALSE
      BY <2>3
    <3>1. n + 1 \in 1 .. Len(pending) /\ n < Len(pending) /\ n + 1 <= i
      BY <2>1, <2>3
    <3>2. pending[n + 1].seq >= event[k] /\ pending[n + 1].seq \in Nat /\ pending[i].seq \in Nat
      BY <2>1, <2>2, <3>1 DEF Copies
    <3>3. pending[n + 1].seq <= pending[i].seq
      <4>1. CASE n + 1 = i
        BY <3>2, <4>1
      <4>2. CASE n + 1 < i
        BY <3>1, <3>2, <4>2 DEF GenInv, DeviceInv, WeightsInv, InOrder
      <4> QED BY <2>3, <3>1, <4>1, <4>2
    <3>4. pending[i].seq < event[k]
      BY <2>1 DEF Covered
    <3> QED BY <2>1, <3>2, <3>3, <3>4
  <2>6. \A i \in 1 .. n : i \in 1 .. Len(pending)
    BY <2>1, <2>3
  <2> HIDE DEF f
  <2>7. ASSUME NEW p \in Parts PROVE M[s][p] = k
    <3>1. \/ M[s][p] = mem[s][p] /\ \A i \in 1 .. n : ~Into(pending, i, s, p)
          \/ \E i \in 1 .. n :
               /\ Into(pending, i, s, p) /\ M[s][p] = pending[i].key
               /\ \A j \in 1 .. n : Into(pending, j, s, p) => j <= i
      <4>1. \A i \in 1 .. n : Into(f, i, s, p) <=> Into(pending, i, s, p)
        BY <2>4 DEF Into
      <4> QED BY <2>1, <2>4, <4>1, LastCopyWins
    <3>2. HalfCovered(s, p, k, pending, mem)
      BY <2>1 DEF Covered
    <3>3. \A i \in 1 .. Len(pending) : Into(pending, i, s, p) => i \in 1 .. n
      BY <2>5 DEF Into
    <3> HIDE DEF M
    <3>4. \A i, j \in 1 .. n : i <= j /\ j <= i => i = j
      BY <2>3
    <3> QED BY <2>6, <3>1, <3>2, <3>3, <3>4 DEF HalfCovered
  <2> QED
    BY <2>1, <2>7 DEF s, f, n, Before
<1> QED
  BY <1>1, GenInvariant, PTL

\* expert_mlp() computes with both projections of the expert the router named
\* (generation.cpp:57-79).
THEOREM GenOwnWeights == GenSpec => []EvaluatesOwnWeights
<1>1. GenInv => EvaluatesOwnWeights
  BY DEF GenInv, LoopInv
<1> QED
  BY <1>1, GenInvariant, PTL

\* Between two tokens the counters agree with the work done
\* (generation.cpp:57-66, generation.h:75-82).
THEOREM GenTelemetry == GenSpec => []TelemetryAddsUp
<1>1. GenInv => TelemetryAddsUp
  <2> SUFFICES ASSUME GenInv, pc \in {"sample", "done"}
               PROVE  /\ prediction_calls = fed * cfg.num_layers
                      /\ hits + misses = fed * cfg.num_layers * cfg.topk
                      /\ reactive <= misses
    BY DEF TelemetryAddsUp
  <2>1. /\ fed * cfg.num_layers \in Nat /\ prediction_calls * cfg.topk \in Nat
        /\ hits \in Nat /\ misses \in Nat /\ reactive \in Nat
    BY ConfigFacts DEF GenInv, LoopTypeOK
  <2>2. /\ prediction_calls = fed * cfg.num_layers + 0 + 0
        /\ hits + misses + 0 = prediction_calls * cfg.topk + 0
        /\ reactive <= misses + 0
    BY DEF GenInv, CountInv, Routed
  <2>3. /\ prediction_calls = fed * cfg.num_layers
        /\ hits + misses = prediction_calls * cfg.topk
        /\ reactive <= misses
    BY ONLY <2>1, <2>2
  <2> QED BY <2>3
<1> QED
  BY <1>1, GenInvariant, PTL

\* As long as a slot is unused, a prefetch the loop issues itself is for an
\* expert the Oracle did not predict (generation.h:78-79).
THEOREM GenReactive == GenSpec => ReactiveMeansMispredicted
<1>1. GenInv /\ [GenNext]_vars
        => [reactive' > reactive /\ free_list # <<>> => Head(route) \notin predicted]_vars
  <2> SUFFICES ASSUME GenInv, GenNext, reactive' > reactive, free_list # <<>>
               PROVE  Head(route) \notin predicted
    OBVIOUS
  <2>1. reactive \in Nat /\ ~(reactive > reactive)
    BY DEF GenInv, LoopTypeOK
  <2>2. NotReady
    BY <2>1 DEF GenNext, Host, Predict, Schedule, Route, ReadyHit, Wait, Evaluate, EndLayer,
                Sample, Return, DeviceCopy, telemetry
  <2>3. ~IsInflight(Current)
    BY <2>1, <2>2 DEF NotReady
  <2>4. ~Contains(Current)
    BY <2>2, <2>3, NotReadyMisses
  <2> QED
    BY <2>2, <2>4 DEF GenInv, PredictionInv, Routed, NotReady, Current
<1> QED
  BY <1>1, GenInvariant, PTL DEF GenSpec, ReactiveMeansMispredicted

====
