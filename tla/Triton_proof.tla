---------------------------- MODULE Triton_proof ----------------------------
(***************************************************************************)
(* The Triton experiment, for every set of experts, capacity and prediction *)
(* width, also a width above the capacity.                                  *)
(*                                                                         *)
(* The slot table agrees with the cache.  ensure_resident decides by the    *)
(* free slots whether to evict, cache.prefetch by the size of the pool; the *)
(* two never differ, because the table is an injection of the pool into     *)
(* the slots that are not free.                                             *)
(*                                                                         *)
(* The matmul reads the weights of the experts the table names: the waits   *)
(* leave one stream with work at a time, and once it has done its work      *)
(* every resident expert is in its slot.                                    *)
(***************************************************************************)
EXTENDS Triton, FiniteSetTheorems, TLAPS

\* What the lockstep needs to be inductive: where the experts and slots come from.
SlotInv ==
    /\ vram \subseteq Experts
    /\ todo \subseteq Experts
    /\ Predicted \subseteq Experts
    /\ slot_of \in [Experts -> Slots \cup {NoSlot}]
    /\ evictions \in Nat
    /\ SlotsInLockstep

\* The pool takes no more room than there is, and less while a slot is free.
LEMMA RoomForPool ==
    ASSUME SlotInv
    PROVE  /\ IsFiniteSet(vram) /\ Cardinality(vram) \in Nat
           /\ Cardinality(vram) <= Capacity
           /\ free_slots # {} => Cardinality(vram) < Capacity
<1> DEFINE U == Slots \ free_slots
           f == [e \in vram |-> slot_of[e]]
<1>1. /\ Capacity \in Nat \ {0}
      /\ IsFiniteSet(Slots) /\ Cardinality(Slots) = Capacity
  <2>1. Capacity \in Nat \ {0}
    BY ExpertCacheAssumption
  <2>2. 0 \in Int /\ Capacity - 1 \in Int /\ ~(0 > Capacity - 1)
    BY <2>1
  <2>3. IsFiniteSet(0 .. Capacity - 1) /\ Cardinality(0 .. Capacity - 1) = Capacity - 1 - 0 + 1
    BY <2>2, FS_Interval
  <2> QED
    BY <2>1, <2>3 DEF Slots
<1>2. IsFiniteSet(vram) /\ Cardinality(vram) \in Nat
  BY ExpertCacheAssumption, FS_Subset, FS_CardinalityType DEF SlotInv
<1>3. f \in Injection(vram, U)
  <2>1. \A e \in vram : slot_of[e] \in U
    BY DEF SlotInv, SlotsInLockstep
  <2>2. f \in [vram -> U]
    BY <2>1
  <2>3. \A d, e \in vram : f[d] = f[e] => d = e
    BY DEF SlotInv, SlotsInLockstep
  <2> QED
    BY <2>2, <2>3 DEF Injection, IsInjective
<1>4. IsFiniteSet(U) /\ Cardinality(U) \in Nat /\ Cardinality(U) <= Capacity
  BY <1>1, FS_Subset, FS_CardinalityType
<1>5. Cardinality(vram) <= Cardinality(U)
  BY <1>3, <1>4, FS_Injection
<1>6. ASSUME NEW s \in free_slots PROVE Cardinality(U) < Capacity
  <2>1. s \in Slots /\ U \subseteq Slots \ {s}
    BY <1>6 DEF SlotInv, SlotsInLockstep
  <2>2. IsFiniteSet(Slots \ {s}) /\ Cardinality(Slots \ {s}) = Capacity - 1
    BY <1>1, <2>1, FS_RemoveElement
  <2>3. Cardinality(U) <= Cardinality(Slots \ {s})
    BY <2>1, <2>2, FS_Subset
  <2> QED
    BY <1>1, <1>4, <2>2, <2>3
<1> QED
  BY <1>1, <1>2, <1>4, <1>5, <1>6

\* ensure_resident keeps the lockstep; cache.prefetch evicts nothing more.
LEMMA BringLemma ==
    ASSUME SlotInv, NEW e \in Experts, NEW CONSTANT token, NEW s \in Slots, Bring(e, token, s)
    PROVE  /\ vram' \subseteq Experts
           /\ slot_of' \in [Experts -> Slots \cup {NoSlot}]
           /\ evictions' \in Nat
           /\ SlotsInLockstep'
<1> DEFINE Takes(V, W) ==
             /\ Freed(V)
             /\ s \in free_slots \cup {slot_of[d] : d \in V}
             /\ free_slots' = (free_slots \cup {slot_of[d] : d \in V}) \ {s}
             /\ slot_of' = [d \in Experts |-> IF d = e THEN s
                                              ELSE IF d \in V THEN NoSlot
                                              ELSE slot_of[d]]
             /\ evictions_total' = evictions_total + Cardinality(V)
             /\ MakesRoom(vram \ V, W)
             /\ vram' = (vram \ (V \cup W)) \cup {e}
             /\ evictions' = evictions + Cardinality(V) + Cardinality(W)
<1>0. PICK V \in SUBSET vram : \E W \in SUBSET (vram \ V) : Takes(V, W)
  BY DEF Bring
<1>1. PICK W \in SUBSET (vram \ V) : Takes(V, W)
  BY <1>0
<1> DEFINE freed == free_slots \cup {slot_of[d] : d \in V}
<1>2. e \notin vram
  BY DEF Bring
<1>3. Capacity \in Nat \ {0}
  BY ExpertCacheAssumption
<1>4. Cardinality(vram \ V) < Capacity /\ Cardinality(V) \in Nat
  <2>1. CASE free_slots # {} /\ V = {}
    <3>1. vram \ V = vram /\ Cardinality(V) = 0
      BY <2>1, FS_EmptySet
    <3> QED
      BY <2>1, <3>1, RoomForPool
  <2>2. ASSUME NEW d \in Victims(vram), V = {d}
        PROVE  Cardinality(vram \ V) < Capacity /\ Cardinality(V) \in Nat
    <3>1. d \in vram /\ Cardinality({d}) = 1
      BY FS_Singleton DEF Victims
    <3>2. Cardinality(vram \ {d}) = Cardinality(vram) - 1
      BY <3>1, RoomForPool, FS_RemoveElement
    <3> QED
      BY <1>3, <2>2, <3>1, <3>2, RoomForPool
  <2> QED
    BY <1>1, <2>1, <2>2 DEF Freed
<1>5. W = {} /\ Cardinality(W) = 0
  <2>1. Cardinality(vram \ V) \in Nat
    BY RoomForPool, FS_Subset, FS_CardinalityType
  <2>2. W = {}
    BY <1>1, <1>3, <1>4, <2>1 DEF MakesRoom
  <2> QED
    BY <2>2, FS_EmptySet
<1>6. vram' = (vram \ V) \cup {e} /\ vram' \subseteq Experts
  BY <1>1, <1>5 DEF SlotInv
<1>7. slot_of' \in [Experts -> Slots \cup {NoSlot}]
  BY <1>1 DEF SlotInv
<1>8. evictions' = evictions_total' /\ evictions' \in Nat
  BY <1>1, <1>4, <1>5 DEF SlotInv, SlotsInLockstep
<1>9. s # NoSlot
  BY <1>3 DEF Slots, NoSlot
<1>10. vram' = {d \in Experts : slot_of'[d] # NoSlot}
  BY <1>1, <1>6, <1>9 DEF SlotInv, SlotsInLockstep
<1>11. \A d \in vram \ V : slot_of'[d] = slot_of[d] /\ slot_of[d] \notin freed
  BY <1>1, <1>2 DEF SlotInv, SlotsInLockstep
<1>12. slot_of'[e] = s /\ s \in freed
  BY <1>1
<1>13. \A c, d \in vram' : slot_of'[c] = slot_of'[d] => c = d
  BY <1>6, <1>11, <1>12 DEF SlotInv, SlotsInLockstep
<1>14. free_slots' = Slots \ {slot_of'[d] : d \in vram'}
  <2>1. freed = Slots \ {slot_of[d] : d \in vram \ V}
    BY <1>11 DEF SlotInv, SlotsInLockstep
  <2>2. {slot_of'[d] : d \in vram'} = {slot_of[d] : d \in vram \ V} \cup {s}
    BY <1>6, <1>11, <1>12
  <2> QED
    BY <1>1, <2>1, <2>2
<1> QED
  BY <1>6, <1>7, <1>8, <1>10, <1>13, <1>14 DEF SlotsInLockstep

LEMMA SlotInvInit == TritonInit => SlotInv
<1> SUFFICES ASSUME TritonInit PROVE SlotInv
  OBVIOUS
<1> QED
  BY DEF TritonInit, PoolInit, SlotInv, SlotsInLockstep, Predicted, InitialFree, Slots

LEMMA SlotInvNext == SlotInv /\ [TritonNext]_vars => SlotInv'
<1> SUFFICES ASSUME SlotInv, [TritonNext]_vars PROVE SlotInv'
  OBVIOUS
<1>1. CASE Predict
  <2>1. Predicted' \subseteq Experts /\ todo' \subseteq Predicted'
    BY <1>1 DEF Predict, Rankings, Predicted
  <2> QED
    BY <1>1, <2>1 DEF Predict, SlotInv, SlotsInLockstep
<1>2. CASE PrefetchStep
  <2>1. PICK e \in todo, s \in Slots : Bring(e, t, s) /\ todo' = todo \ {e}
    BY <1>2 DEF PrefetchStep
  <2> QED
    BY <2>1, BringLemma DEF SlotInv, Bring, Predicted
<1>3. CASE DeviceSynchronize
  BY <1>3 DEF DeviceSynchronize, poolVars, SlotInv, SlotsInLockstep, Predicted
<1>4. CASE MainSynchronize
  BY <1>4 DEF MainSynchronize, poolVars, SlotInv, SlotsInLockstep, Predicted
<1>5. CASE ServeHit
  BY <1>5 DEF ServeHit, poolVars, SlotInv, SlotsInLockstep, Predicted
<1>6. CASE ServeMiss
  <2>1. PICK e \in todo, s \in Slots : Bring(e, t + 1, s) /\ todo' = todo \ {e}
    BY <1>6 DEF ServeMiss
  <2> QED
    BY <2>1, BringLemma DEF SlotInv, Bring, Predicted
<1>7. CASE Compute
  BY <1>7 DEF Compute, poolVars, SlotInv, SlotsInLockstep, Predicted
<1>8. CASE MainStep \/ PrefStep
  BY <1>8 DEF MainStep, PrefStep, poolVars, hostVars, SlotInv, SlotsInLockstep, Predicted
<1>9. CASE UNCHANGED vars
  BY <1>9 DEF vars, poolVars, hostVars, SlotInv, SlotsInLockstep, Predicted
<1> QED
  BY <1>1, <1>2, <1>3, <1>4, <1>5, <1>6, <1>7, <1>8, <1>9 DEF TritonNext, HostStep

\* "Keeps `slot_of_expert` in lockstep with `cache.vram`": ensure_resident and the
\* cache agree on who is resident, in distinct slots, whatever is predicted.
THEOREM TritonLockstep == TritonSpec => []SlotsInLockstep
<1>1. SlotInv => SlotsInLockstep
  BY DEF SlotInv
<1> QED
  BY <1>1, SlotInvInit, SlotInvNext, PTL DEF TritonSpec
------------------------------------------------------------------------------
(***************************************************************************)
(* What the matmul reads.  The waits leave at most one of the two streams   *)
(* with work, the prefetch stream while predictions are being queued and    *)
(* the main stream otherwise, so the staging buffer has one user at a time. *)
(***************************************************************************)
Ops == [op : {"h2d"}, expert : Experts] \cup [op : {"d2d"}, slot : Slots]
       \cup [op : {"stack"}, table : [Experts -> Slots \cup {NoSlot}]]

Queue == IF phase = "prefetch" THEN pref ELSE main

\* Whether the i-th operation of queue Q writes slot s.
Writes(Q, i, s) == Q[i].op = "d2d" /\ Q[i].slot = s

\* What the staging buffer holds when the i-th operation of queue Q is performed.
Staged(Q, st, i) == IF i = 1 THEN st ELSE Q[i - 1].expert

\* Once Q is performed slot s holds the weights of expert e: the last operation that
\* writes s finds e staged, or none is left and e is there already.
Arrives(Q, st, p, e, s) ==
    \/ p[s] = e /\ \A i \in 1 .. Len(Q) : ~Writes(Q, i, s)
    \/ \E i \in 1 .. Len(Q) :
          /\ Writes(Q, i, s) /\ Staged(Q, st, i) = e
          /\ \A j \in 1 .. Len(Q) : j > i => ~Writes(Q, j, s)

\* A kernel that moves a block is queued right behind the copy it moves.
Paired(Q) == \A i \in 1 .. Len(Q) : i > 1 /\ Q[i].op = "d2d" => Q[i - 1].op = "h2d"

\* A stack comes last, and nothing is brought in before it is done.
StackLast(Q) ==
    \A i \in 1 .. Len(Q) :
        Q[i].op = "stack" => i = Len(Q) /\ phase = "predict" /\ Q[i].table = slot_of

OneStream ==
    /\ phase \in {"predict", "prefetch", "join", "serve"}
    /\ phase = "prefetch" => main = <<>>
    /\ phase # "prefetch" => pref = <<>>

StreamInv ==
    /\ OneStream
    /\ Queue \in Seq(Ops)
    /\ pool \in [Slots -> Contents] /\ stage \in Contents
    /\ Paired(Queue) /\ StackLast(Queue)
    /\ \A e \in vram : Arrives(Queue, stage, pool, e, slot_of[e])
    /\ StackReadsOwnWeights

\* What the queue of a load added to Q looks like.
LEMMA LoadQueued ==
    ASSUME NEW CONSTANT Q \in Seq(Ops), NEW CONSTANT e \in Experts, NEW CONSTANT s \in Slots,
           NEW CONSTANT R, R = Q \o Transfer(e, s)
    PROVE  /\ R \in Seq(Ops) /\ Len(R) = Len(Q) + 2
           /\ \A i \in 1 .. Len(Q) : R[i] = Q[i]
           /\ R[Len(Q) + 1].op = "h2d" /\ R[Len(Q) + 1].expert = e
           /\ R[Len(Q) + 2].op = "d2d" /\ R[Len(Q) + 2].slot = s
<1> DEFINE h == [op |-> "h2d", expert |-> e]
           w == [op |-> "d2d", slot |-> s]
<1>1. h \in Ops /\ w \in Ops
  BY DEF Ops
<1> HIDE DEF h, w
<1>2. <<h, w>> \in Seq(Ops) /\ Len(<<h, w>>) = 2 /\ <<h, w>>[1] = h /\ <<h, w>>[2] = w
  BY <1>1
<1>3. R = Q \o <<h, w>>
  BY DEF Transfer, h, w
<1>4. R \in Seq(Ops) /\ Len(R) = Len(Q) + 2
  BY <1>2, <1>3
<1>5. \A i \in 1 .. Len(Q) : R[i] = Q[i]
  BY <1>2, <1>3
<1>6. R[Len(Q) + 1] = h /\ R[Len(Q) + 2] = w
  BY <1>2, <1>3
<1> QED
  BY <1>4, <1>5, <1>6 DEF h, w

\* A load keeps the pairs and is no stack.
LEMMA LoadPaired ==
    ASSUME NEW CONSTANT Q \in Seq(Ops), NEW CONSTANT e \in Experts, NEW CONSTANT s \in Slots,
           NEW CONSTANT R, R = Q \o Transfer(e, s), Paired(Q)
    PROVE  /\ Paired(R)
           /\ \A i \in 1 .. Len(R) : R[i].op = "stack" => i \in 1 .. Len(Q) /\ Q[i].op = "stack"
<1> PICK n \in Nat : n = Len(Q)
  OBVIOUS
<1>1. /\ Len(R) = n + 2
      /\ \A i \in 1 .. n : R[i] = Q[i]
      /\ R[n + 1].op = "h2d" /\ R[n + 1].expert = e
      /\ R[n + 2].op = "d2d" /\ R[n + 2].slot = s
  BY LoadQueued
<1>2. \A i \in 1 .. n + 2 : i \in 1 .. n \/ i = n + 1 \/ i = n + 2
  OBVIOUS
<1>3. Paired(R)
  <2> SUFFICES ASSUME NEW i \in 1 .. n + 2, i > 1, R[i].op = "d2d" PROVE R[i - 1].op = "h2d"
    BY <1>1 DEF Paired
  <2>1. CASE i \in 1 .. n
    <3>1. i - 1 \in 1 .. n
      BY <2>1
    <3> QED
      BY <1>1, <2>1, <3>1 DEF Paired
  <2>2. CASE i = n + 2
    <3>1. i - 1 = n + 1
      BY <2>2
    <3> QED
      BY <1>1, <3>1
  <2> QED
    BY <1>1, <1>2, <2>1, <2>2
<1>4. ASSUME NEW i \in 1 .. Len(R), R[i].op = "stack"
      PROVE  i \in 1 .. Len(Q) /\ Q[i].op = "stack"
  BY <1>1, <1>2, <1>4
<1> QED
  BY <1>3, <1>4

\* A load brings its expert to its slot and disturbs no other slot.
LEMMA LoadArrives ==
    ASSUME NEW CONSTANT Q \in Seq(Ops), NEW CONSTANT e \in Experts, NEW CONSTANT s \in Slots,
           NEW CONSTANT R, R = Q \o Transfer(e, s), NEW CONSTANT st, NEW CONSTANT p
    PROVE  /\ Arrives(R, st, p, e, s)
           /\ \A d \in Experts, x \in Slots :
                 x # s /\ Arrives(Q, st, p, d, x) => Arrives(R, st, p, d, x)
<1> PICK n \in Nat : n = Len(Q)
  OBVIOUS
<1>1. /\ Len(R) = n + 2
      /\ \A i \in 1 .. n : R[i] = Q[i]
      /\ R[n + 1].op = "h2d" /\ R[n + 1].expert = e
      /\ R[n + 2].op = "d2d" /\ R[n + 2].slot = s
  BY LoadQueued
<1>2. \A i \in 1 .. n + 2 : i \in 1 .. n \/ i = n + 1 \/ i = n + 2
  OBVIOUS
<1>3. Arrives(R, st, p, e, s)
  <2>1. n + 2 \in 1 .. Len(R) /\ n + 2 # 1 /\ (n + 2) - 1 = n + 1
    BY <1>1
  <2>2. Writes(R, n + 2, s) /\ Staged(R, st, n + 2) = e
    BY <1>1, <2>1 DEF Writes, Staged
  <2>3. \A j \in 1 .. Len(R) : ~(j > n + 2)
    BY <1>1
  <2> QED
    BY <2>1, <2>2, <2>3 DEF Arrives
<1>4. ASSUME NEW d \in Experts, NEW x \in Slots, x # s, Arrives(Q, st, p, d, x)
      PROVE  Arrives(R, st, p, d, x)
  <2>1. \A i \in 1 .. n : Writes(R, i, x) <=> Writes(Q, i, x)
    BY <1>1 DEF Writes
  <2>2. ~Writes(R, n + 1, x) /\ ~Writes(R, n + 2, x)
    BY <1>1, <1>4 DEF Writes
  <2>3. \A i \in 1 .. Len(R) : Writes(R, i, x) => i \in 1 .. n /\ Writes(Q, i, x)
    BY <1>1, <1>2, <2>1, <2>2
  <2>4. CASE p[x] = d /\ \A i \in 1 .. Len(Q) : ~Writes(Q, i, x)
    BY <2>3, <2>4 DEF Arrives
  <2>5. ASSUME NEW i \in 1 .. n, Writes(Q, i, x), Staged(Q, st, i) = d,
               \A j \in 1 .. n : j > i => ~Writes(Q, j, x)
        PROVE  Arrives(R, st, p, d, x)
    <3>1. i \in 1 .. Len(R) /\ Writes(R, i, x)
      BY <1>1, <2>1, <2>5
    <3>2. Staged(R, st, i) = d
      <4>1. CASE i = 1
        BY <2>5, <4>1 DEF Staged
      <4>2. CASE i # 1
        <5>1. i - 1 \in 1 .. n
          BY <4>2
        <5> QED
          BY <1>1, <2>5, <4>2, <5>1 DEF Staged
      <4> QED
        BY <4>1, <4>2
    <3>3. \A j \in 1 .. Len(R) : j > i => ~Writes(R, j, x)
      BY <2>3, <2>5
    <3> QED
      BY <3>1, <3>2, <3>3 DEF Arrives
  <2> QED
    BY <1>4, <2>4, <2>5 DEF Arrives
<1> QED
  BY <1>3, <1>4

\* The rest of a queue.
LEMMA RestOfQueue ==
    ASSUME NEW CONSTANT Q \in Seq(Ops), Q # <<>>, Paired(Q), NEW CONSTANT R, R = Tail(Q)
    PROVE  /\ Len(Q) \in Nat /\ Len(Q) > 0 /\ Q[1] = Head(Q) /\ Q[1] \in Ops
           /\ R \in Seq(Ops) /\ Len(R) = Len(Q) - 1
           /\ \A i \in 1 .. Len(R) : i + 1 \in 1 .. Len(Q) /\ R[i] = Q[i + 1]
           /\ Paired(R)
<1>1. /\ Len(Q) \in Nat /\ Len(Q) > 0 /\ Q[1] = Head(Q) /\ Q[1] \in Ops
      /\ R \in Seq(Ops) /\ Len(R) = Len(Q) - 1
  OBVIOUS
<1>2. \A i \in 1 .. Len(R) : i + 1 \in 1 .. Len(Q) /\ R[i] = Q[i + 1]
  BY <1>1
<1>3. Paired(R)
  <2> SUFFICES ASSUME NEW i \in 1 .. Len(R), i > 1, R[i].op = "d2d" PROVE R[i - 1].op = "h2d"
    BY DEF Paired
  <2>1. i - 1 \in 1 .. Len(R) /\ (i + 1) - 1 = i /\ (i - 1) + 1 = i /\ i + 1 > 1
    BY <1>1
  <2>2. R[i - 1] = Q[i] /\ Q[i + 1].op = "d2d" /\ i + 1 \in 1 .. Len(Q)
    BY <1>2, <2>1
  <2> QED
    BY <2>1, <2>2 DEF Paired
<1> QED
  BY <1>1, <1>2, <1>3

\* Performing the first operation takes nothing away from what arrives: st1 and p1
\* are the staging buffer and the pool after it.
LEMMA PerformedArrives ==
    ASSUME NEW CONSTANT Q \in Seq(Ops), Q # <<>>, Paired(Q), NEW CONSTANT R, R = Tail(Q),
           NEW CONSTANT st, NEW CONSTANT p \in [Slots -> Contents],
           NEW CONSTANT st1, NEW CONSTANT p1,
           \/ Q[1].op = "h2d" /\ st1 = Q[1].expert /\ p1 = p
           \/ Q[1].op = "d2d" /\ st1 = st /\ p1 = [p EXCEPT ![Q[1].slot] = st]
           \/ Q[1].op = "stack" /\ st1 = st /\ p1 = p,
           NEW CONSTANT e \in Experts, NEW CONSTANT s \in Slots, Arrives(Q, st, p, e, s)
    PROVE  Arrives(R, st1, p1, e, s)
<1>1. /\ Len(Q) \in Nat /\ Len(Q) > 0 /\ Len(R) = Len(Q) - 1
      /\ \A i \in 1 .. Len(R) : i + 1 \in 1 .. Len(Q) /\ R[i] = Q[i + 1]
  BY RestOfQueue
<1>2. \A i \in 1 .. Len(R) : Writes(R, i, s) <=> Writes(Q, i + 1, s)
  BY <1>1 DEF Writes
<1>3. 1 \in 1 .. Len(Q)
  BY <1>1
<1>4. CASE p[s] = e /\ \A i \in 1 .. Len(Q) : ~Writes(Q, i, s)
  <2>1. ~(Q[1].op = "d2d" /\ Q[1].slot = s)
    BY <1>3, <1>4 DEF Writes
  <2>2. p1[s] = e
    BY <1>4, <2>1
  <2>3. \A i \in 1 .. Len(R) : ~Writes(R, i, s)
    BY <1>1, <1>2, <1>4
  <2> QED
    BY <2>2, <2>3 DEF Arrives
<1>5. ASSUME NEW i \in 1 .. Len(Q), Writes(Q, i, s), Staged(Q, st, i) = e,
             \A j \in 1 .. Len(Q) : j > i => ~Writes(Q, j, s)
      PROVE  Arrives(R, st1, p1, e, s)
  <2>1. CASE i = 1
    <3>1. Q[1].op = "d2d" /\ Q[1].slot = s /\ st = e
      BY <1>5, <2>1 DEF Writes, Staged
    <3>2. p1[s] = e
      BY <3>1
    <3>3. \A j \in 1 .. Len(R) : j + 1 > 1
      BY <1>1
    <3>4. \A j \in 1 .. Len(R) : ~Writes(R, j, s)
      BY <1>1, <1>2, <1>5, <2>1, <3>3
    <3> QED
      BY <3>2, <3>4 DEF Arrives
  <2>2. CASE i # 1
    <3> PICK k : k = i - 1
      OBVIOUS
    <3>1. k \in 1 .. Len(R) /\ k + 1 = i /\ k = i - 1
      BY <1>1, <2>2
    <3>2. Writes(R, k, s)
      BY <1>2, <1>5, <3>1
    <3>3. Q[k].op = "h2d"
      <4>1. i > 1 /\ Q[i].op = "d2d"
        BY <1>5, <2>2 DEF Writes
      <4> QED
        BY <4>1, <3>1 DEF Paired
    <3>4. Q[k].expert = e
      BY <1>5, <2>2, <3>1 DEF Staged
    <3>5. Staged(R, st1, k) = e
      <4>1. CASE k = 1
        BY <3>3, <3>4, <4>1 DEF Staged
      <4>2. CASE k # 1
        <5>1. k - 1 \in 1 .. Len(R) /\ (k - 1) + 1 = k
          BY <3>1, <4>2, <1>1
        <5>2. R[k - 1] = Q[k]
          BY <1>1, <5>1
        <5> QED
          BY <3>4, <4>2, <5>2 DEF Staged
      <4> QED
        BY <4>1, <4>2
    <3>6. ASSUME NEW j \in 1 .. Len(R), j > k PROVE ~Writes(R, j, s)
      <4>1. j + 1 \in 1 .. Len(Q) /\ j + 1 > i
        BY <1>1, <3>1, <3>6
      <4> QED
        BY <1>2, <1>5, <4>1
    <3> QED
      BY <3>1, <3>2, <3>5, <3>6 DEF Arrives
  <2> QED
    BY <2>1, <2>2
<1> QED
  BY <1>4, <1>5 DEF Arrives

LEMMA StreamInvInit == TritonInit => StreamInv
<1> SUFFICES ASSUME TritonInit PROVE StreamInv
  OBVIOUS
<1>1. Queue = <<>> /\ <<>> \in Seq(Ops) /\ Len(Queue) = 0
  BY DEF TritonInit, Queue
<1>2. Paired(Queue) /\ StackLast(Queue)
  BY <1>1 DEF Paired, StackLast
<1>3. vram = {} /\ read = {} /\ stage \in Contents /\ pool \in [Slots -> Contents]
  BY DEF TritonInit, PoolInit, Contents
<1> QED
  BY <1>1, <1>2, <1>3 DEF TritonInit, StreamInv, OneStream, StackReadsOwnWeights

\* A load queued by PrefetchStep or ServeMiss.
LEMMA BringArrives ==
    ASSUME SlotInv, StreamInv, NEW e \in Experts, NEW CONSTANT token, NEW s \in Slots,
           Bring(e, token, s), Queue' = Queue \o Transfer(e, s),
           phase # "predict", UNCHANGED <<stage, pool>>
    PROVE  /\ Queue' \in Seq(Ops) /\ Paired(Queue')
           /\ \A i \in 1 .. Len(Queue') : Queue'[i].op # "stack"
           /\ \A d \in vram' : Arrives(Queue', stage', pool', d, slot_of'[d])
<1> PICK Q : Q = Queue
  OBVIOUS
<1> PICK R : R = Queue'
  OBVIOUS
<1>1. Q \in Seq(Ops) /\ Paired(Q) /\ R = Q \o Transfer(e, s)
  BY DEF StreamInv
<1>2. \A i \in 1 .. Len(Q) : Q[i].op # "stack"
  BY DEF StreamInv, StackLast
<1>3. R \in Seq(Ops)
  BY ONLY <1>1, e \in Experts, s \in Slots, LoadQueued
<1> PICK st, p : st = stage /\ p = pool
  OBVIOUS
<1>4. \A i \in 1 .. Len(R) : R[i].op = "stack" => i \in 1 .. Len(Q) /\ Q[i].op = "stack"
  BY ONLY <1>1, e \in Experts, s \in Slots, LoadPaired
<1>5. Paired(R)
  BY <1>1, LoadPaired
<1>6. /\ Arrives(R, st, p, e, s)
      /\ \A d \in Experts, x \in Slots :
            x # s /\ Arrives(Q, st, p, d, x) => Arrives(R, st, p, d, x)
  BY <1>1, LoadArrives
<1>7. \A i \in 1 .. Len(R) : R[i].op # "stack"
  BY <1>2, <1>4
<1>8. ASSUME NEW d \in vram' PROVE Arrives(R, stage, pool, d, slot_of'[d])
  <2>1. /\ vram' = {c \in Experts : slot_of'[c] # NoSlot}
        /\ \A b, c \in vram' : slot_of'[b] = slot_of'[c] => b = c
        /\ slot_of' \in [Experts -> Slots \cup {NoSlot}]
    BY BringLemma DEF SlotsInLockstep
  <2>2. slot_of'[e] = s /\ \A c \in Experts : c # e => slot_of'[c] \in {slot_of[c], NoSlot}
    BY DEF Bring
  <2>3. d \in Experts /\ slot_of'[d] \in Slots
    BY <2>1
  <2>4. CASE d = e
    BY <1>6, <2>2, <2>4
  <2>5. CASE d # e
    <3> PICK x \in Slots : x = slot_of'[d]
      BY <2>3
    <3>1. x = slot_of[d] /\ slot_of[d] # NoSlot
      BY <2>1, <2>2, <2>5
    <3>2. d \in vram
      BY <2>3, <3>1 DEF SlotInv, SlotsInLockstep
    <3>3. Arrives(Q, st, p, d, x)
      BY <3>1, <3>2 DEF StreamInv
    <3>4. s # NoSlot
      BY DEF Slots, NoSlot
    <3>5. x # s
      BY <2>1, <2>2, <2>5, <3>4
    <3>6. Arrives(R, st, p, d, x)
      BY <1>6, <2>3, <3>3, <3>5
    <3> QED
      BY <3>6
  <2> QED
    BY <2>4, <2>5
<1> QED
  BY <1>3, <1>5, <1>7, <1>8

\* A step of the stream that has work.
LEMMA PerformStep ==
    ASSUME SlotInv, StreamInv, Queue # <<>>, Perform(Head(Queue)), Queue' = Tail(Queue),
           UNCHANGED <<vram, slot_of, phase>>
    PROVE  /\ Queue' \in Seq(Ops) /\ Paired(Queue') /\ StackLast(Queue)'
           /\ pool' \in [Slots -> Contents] /\ stage' \in Contents
           /\ \A d \in vram' : Arrives(Queue', stage', pool', d, slot_of'[d])
           /\ StackReadsOwnWeights'
<1> PICK Q : Q = Queue
  OBVIOUS
<1> PICK R : R = Queue'
  OBVIOUS
<1>1. Q \in Seq(Ops) /\ Q # <<>> /\ Paired(Q) /\ R = Tail(Q)
  BY DEF StreamInv
<1>2. /\ Len(Q) \in Nat /\ Len(Q) > 0 /\ Q[1] = Head(Q) /\ Q[1] \in Ops
      /\ R \in Seq(Ops) /\ Len(R) = Len(Q) - 1
      /\ \A i \in 1 .. Len(R) : i + 1 \in 1 .. Len(Q) /\ R[i] = Q[i + 1]
      /\ Paired(R)
  BY <1>1, RestOfQueue
<1>3. StackLast(Queue)'
  <2>1. ASSUME NEW i \in 1 .. Len(R), R[i].op = "stack"
        PROVE  i = Len(R) /\ phase = "predict" /\ R[i].table = slot_of
    <3>1. i + 1 \in 1 .. Len(Q) /\ Q[i + 1].op = "stack" /\ R[i] = Q[i + 1]
      BY <1>2, <2>1
    <3>2. i + 1 = Len(Q) /\ phase = "predict" /\ Q[i + 1].table = slot_of
      BY <3>1 DEF StreamInv, StackLast
    <3>3. \A l, m \in Int : i + 1 = m /\ l = m - 1 => i = l
      OBVIOUS
    <3>4. i = Len(R)
      <4>1. Len(Q) \in Int /\ Len(R) \in Int
        BY <1>2
      <4> QED
        BY ONLY <1>2, <3>2, <3>3, <4>1
    <3> QED
      BY <3>1, <3>2, <3>4
  <2> QED
    BY <2>1 DEF StackLast
<1>4. \/ Q[1].op = "h2d" /\ stage' = Q[1].expert /\ UNCHANGED <<pool, read>>
      \/ Q[1].op = "d2d" /\ pool' = [pool EXCEPT ![Q[1].slot] = stage] /\ UNCHANGED <<stage, read>>
      \/ /\ Q[1].op = "stack"
         /\ read' = {<<e, pool[Q[1].table[e]]>> : e \in {e \in Experts : Q[1].table[e] # NoSlot}}
         /\ UNCHANGED <<stage, pool>>
  BY <1>2 DEF Perform
<1>5. pool' \in [Slots -> Contents] /\ stage' \in Contents
  <2>1. Q[1].op = "h2d" => Q[1].expert \in Contents
    BY <1>2 DEF Ops, Contents
  <2> QED
    BY <1>4, <2>1 DEF StreamInv
<1>6. ASSUME NEW d \in vram PROVE Arrives(R, stage', pool', d, slot_of[d])
  <2> PICK x : x = slot_of[d]
    OBVIOUS
  <2>1. d \in Experts /\ x \in Slots /\ Arrives(Q, stage, pool, d, x)
    BY DEF SlotInv, SlotsInLockstep, StreamInv
  <2> PICK st, p, st1, p1 : st = stage /\ p = pool /\ st1 = stage' /\ p1 = pool'
    OBVIOUS
  <2>2. p \in [Slots -> Contents] /\ Arrives(Q, st, p, d, x)
    BY <2>1 DEF StreamInv
  <2>3. \/ Q[1].op = "h2d" /\ st1 = Q[1].expert /\ p1 = p
        \/ Q[1].op = "d2d" /\ st1 = st /\ p1 = [p EXCEPT ![Q[1].slot] = st]
        \/ Q[1].op = "stack" /\ st1 = st /\ p1 = p
    BY <1>4
  <2>4. Arrives(R, st1, p1, d, x)
    BY <1>1, <2>1, <2>2, <2>3, PerformedArrives
  <2> QED
    BY <2>4
<1>7. StackReadsOwnWeights'
  <2>1. CASE read' = read
    BY <2>1 DEF StreamInv, StackReadsOwnWeights
  <2>2. CASE Q[1].op = "stack"
    <3>1. 1 \in 1 .. Len(Q)
      BY <1>2
    <3>2. Len(Q) = 1 /\ Q[1].table = slot_of
      BY <2>2, <3>1 DEF StreamInv, StackLast
    <3>3. \A s : \A i \in 1 .. Len(Q) : ~Writes(Q, i, s)
      BY <2>2, <3>2 DEF Writes
    <3>4. ASSUME NEW e \in Experts, slot_of[e] # NoSlot PROVE pool[slot_of[e]] = e
      <4>1. e \in vram
        BY <3>4 DEF SlotInv, SlotsInLockstep
      <4>2. Arrives(Q, stage, pool, e, slot_of[e])
        BY <4>1 DEF StreamInv
      <4> QED
        BY <3>3, <4>2 DEF Arrives
    <3>5. read' = {<<e, pool[slot_of[e]]>> : e \in {e \in Experts : slot_of[e] # NoSlot}}
      BY <1>4, <2>2, <3>2
    <3> QED
      BY <3>4, <3>5 DEF StackReadsOwnWeights
  <2> QED
    BY <1>4, <2>1, <2>2
<1> QED
  BY <1>2, <1>3, <1>5, <1>6, <1>7

LEMMA StreamInvNext == SlotInv /\ StreamInv /\ [TritonNext]_vars => StreamInv'
<1> SUFFICES ASSUME SlotInv, StreamInv, [TritonNext]_vars PROVE StreamInv'
  OBVIOUS
<1>1. CASE Predict
  <2>1. Queue = <<>> /\ Queue' = <<>>
    BY <1>1 DEF Predict, deviceVars, Queue, StreamInv, OneStream
  <2>2. Paired(Queue') /\ StackLast(Queue)' /\ Queue' \in Seq(Ops)
    BY <2>1 DEF Paired, StackLast
  <2>3. OneStream'
    BY <1>1 DEF Predict, deviceVars, StreamInv, OneStream
  <2>4. \A e \in vram' : Arrives(Queue, stage, pool, e, slot_of[e])'
    BY <1>1, <2>1 DEF Predict, deviceVars, StreamInv, Arrives
  <2> QED
    BY <1>1, <2>2, <2>3, <2>4 DEF Predict, deviceVars, StreamInv, StackReadsOwnWeights
<1>2. CASE PrefetchStep
  <2>1. PICK e \in todo, s \in Slots :
           Bring(e, t, s) /\ pref' = pref \o Transfer(e, s) /\ todo' = todo \ {e}
    BY <1>2 DEF PrefetchStep
  <2>2. Queue' = Queue \o Transfer(e, s) /\ phase # "predict" /\ e \in Experts
    BY <1>2, <2>1 DEF PrefetchStep, Queue, SlotInv
  <2>3. /\ Queue' \in Seq(Ops) /\ Paired(Queue')
        /\ \A i \in 1 .. Len(Queue') : Queue'[i].op # "stack"
        /\ \A d \in vram' : Arrives(Queue', stage', pool', d, slot_of'[d])
    BY <1>2, <2>1, <2>2, BringArrives DEF PrefetchStep
  <2>4. StackLast(Queue)'
    BY <2>3 DEF StackLast
  <2> QED
    BY <1>2, <2>3, <2>4 DEF PrefetchStep, StreamInv, OneStream, StackReadsOwnWeights
<1>3. CASE DeviceSynchronize
  <2>1. Queue = <<>> /\ Queue' = <<>>
    BY <1>3 DEF DeviceSynchronize, deviceVars, Queue
  <2>2. Paired(Queue') /\ StackLast(Queue)' /\ Queue' \in Seq(Ops)
    BY <2>1 DEF Paired, StackLast
  <2>3. \A e \in vram' : Arrives(Queue, stage, pool, e, slot_of[e])'
    BY <1>3, <2>1 DEF DeviceSynchronize, poolVars, deviceVars, StreamInv, Arrives
  <2> QED
    BY <1>3, <2>2, <2>3 DEF DeviceSynchronize, deviceVars, StreamInv, OneStream, StackReadsOwnWeights
<1>4. CASE MainSynchronize
  <2>1. Queue = <<>> /\ Queue' = <<>>
    BY <1>4 DEF MainSynchronize, deviceVars, Queue
  <2>2. Paired(Queue') /\ StackLast(Queue)' /\ Queue' \in Seq(Ops)
    BY <2>1 DEF Paired, StackLast
  <2>3. \A e \in vram' : Arrives(Queue, stage, pool, e, slot_of[e])'
    BY <1>4, <2>1 DEF MainSynchronize, poolVars, deviceVars, StreamInv, Arrives
  <2> QED
    BY <1>4, <2>2, <2>3 DEF MainSynchronize, deviceVars, StreamInv, OneStream, StackReadsOwnWeights
<1>5. CASE ServeHit
  BY <1>5 DEF ServeHit, poolVars, deviceVars, StreamInv, OneStream, Queue, StackLast,
              StackReadsOwnWeights
<1>6. CASE ServeMiss
  <2>1. PICK e \in todo, s \in Slots :
           Bring(e, t + 1, s) /\ main' = main \o Transfer(e, s) /\ todo' = todo \ {e}
    BY <1>6 DEF ServeMiss
  <2>2. Queue' = Queue \o Transfer(e, s) /\ phase # "predict" /\ e \in Experts
    BY <1>6, <2>1 DEF ServeMiss, Queue, SlotInv
  <2>3. /\ Queue' \in Seq(Ops) /\ Paired(Queue')
        /\ \A i \in 1 .. Len(Queue') : Queue'[i].op # "stack"
        /\ \A d \in vram' : Arrives(Queue', stage', pool', d, slot_of'[d])
    BY <1>6, <2>1, <2>2, BringArrives DEF ServeMiss
  <2>4. StackLast(Queue)'
    BY <2>3 DEF StackLast
  <2> QED
    BY <1>6, <2>3, <2>4 DEF ServeMiss, StreamInv, OneStream, StackReadsOwnWeights
<1>7. CASE Compute
  <2> PICK Q : Q = Queue
    OBVIOUS
  <2> PICK R : R = Queue'
    OBVIOUS
  <2> PICK w : w = [op |-> "stack", table |-> slot_of]
    OBVIOUS
  <2>1. R = Q \/ R = Append(Q, w)
    BY <1>7 DEF Compute, Queue
  <2>2. w \in Ops /\ w.op = "stack" /\ w.table = slot_of
    BY DEF Ops, SlotInv
  <2>3. Q \in Seq(Ops) /\ Paired(Q) /\ \A i \in 1 .. Len(Q) : Q[i].op # "stack"
    BY <1>7 DEF Compute, StreamInv, StackLast
  <2>4. CASE R = Q
    <3>1. StackLast(Queue)'
      BY <2>3, <2>4 DEF StackLast
    <3> QED
      BY <1>7, <2>3, <2>4, <3>1 DEF Compute, poolVars, StreamInv, OneStream, StackReadsOwnWeights
  <2>5. CASE R = Append(Q, w)
    <3> PICK n \in Nat : n = Len(Q)
      BY <2>3
    <3>1. /\ R \in Seq(Ops) /\ Len(R) = n + 1 /\ R[n + 1] = w
          /\ \A i \in 1 .. n : R[i] = Q[i]
      BY <2>2, <2>3, <2>5
    <3>2. \A i \in 1 .. n + 1 : i \in 1 .. n \/ i = n + 1
      OBVIOUS
    <3>3. Paired(R)
      <4> SUFFICES ASSUME NEW i \in 1 .. n + 1, i > 1, R[i].op = "d2d" PROVE R[i - 1].op = "h2d"
        BY <3>1 DEF Paired
      <4>1. i \in 1 .. n
        BY <2>2, <3>1, <3>2
      <4>2. i - 1 \in 1 .. n
        BY <4>1
      <4> QED
        BY <2>3, <3>1, <4>1, <4>2 DEF Paired
    <3>4. StackLast(Queue)'
      <4>1. ASSUME NEW i \in 1 .. Len(R), R[i].op = "stack"
            PROVE  i = Len(R) /\ phase' = "predict" /\ R[i].table = slot_of'
        BY <1>7, <2>2, <2>3, <3>1, <3>2, <4>1 DEF Compute
      <4> QED
        BY <4>1 DEF StackLast
    <3>5. ASSUME NEW e \in vram PROVE Arrives(R, stage, pool, e, slot_of[e])
      <4> PICK x, st, p : x = slot_of[e] /\ st = stage /\ p = pool
        OBVIOUS
      <4>1. Arrives(Q, st, p, e, x)
        BY DEF StreamInv
      <4>2. \A i \in 1 .. n : Writes(R, i, x) <=> Writes(Q, i, x)
        BY <3>1 DEF Writes
      <4>3. ~Writes(R, n + 1, x)
        BY <2>2, <3>1 DEF Writes
      <4>4. \A i \in 1 .. Len(R) : Writes(R, i, x) => i \in 1 .. n /\ Writes(Q, i, x)
        BY <3>1, <3>2, <4>2, <4>3
      <4>5. CASE p[x] = e /\ \A i \in 1 .. Len(Q) : ~Writes(Q, i, x)
        BY <4>4, <4>5 DEF Arrives
      <4>6. ASSUME NEW i \in 1 .. n, Writes(Q, i, x), Staged(Q, st, i) = e,
                   \A j \in 1 .. n : j > i => ~Writes(Q, j, x)
            PROVE  Arrives(R, st, p, e, x)
        <5>1. i \in 1 .. Len(R) /\ Writes(R, i, x)
          BY <3>1, <4>2, <4>6
        <5>2. i # 1 => i - 1 \in 1 .. n
          OBVIOUS
        <5>3. Staged(R, st, i) = e
          BY <3>1, <4>6, <5>2 DEF Staged
        <5>4. \A j \in 1 .. Len(R) : j > i => ~Writes(R, j, x)
          BY <4>4, <4>6
        <5> QED
          BY <5>1, <5>3, <5>4 DEF Arrives
      <4>7. Arrives(R, st, p, e, x)
        BY <4>1, <4>5, <4>6 DEF Arrives
      <4> QED
        BY <4>7
    <3> QED
      BY <1>7, <3>1, <3>3, <3>4, <3>5 DEF Compute, poolVars, StreamInv, OneStream, StackReadsOwnWeights
  <2> QED
    BY <2>1, <2>4, <2>5
<1>8. CASE MainStep
  <2>1. Queue = main /\ Queue' = main' /\ OneStream'
    BY <1>8 DEF MainStep, hostVars, StreamInv, OneStream, Queue
  <2>2. Queue # <<>> /\ Perform(Head(Queue)) /\ Queue' = Tail(Queue) /\ UNCHANGED <<vram, slot_of, phase>>
    BY <1>8, <2>1 DEF MainStep, poolVars, hostVars
  <2> QED
    BY <2>1, <2>2, PerformStep DEF StreamInv
<1>9. CASE PrefStep
  <2>1. Queue = pref /\ Queue' = pref' /\ OneStream'
    BY <1>9 DEF PrefStep, hostVars, StreamInv, OneStream, Queue
  <2>2. Queue # <<>> /\ Perform(Head(Queue)) /\ Queue' = Tail(Queue) /\ UNCHANGED <<vram, slot_of, phase>>
    BY <1>9, <2>1 DEF PrefStep, poolVars, hostVars
  <2> QED
    BY <2>1, <2>2, PerformStep DEF StreamInv
<1>10. CASE UNCHANGED vars
  BY <1>10 DEF vars, poolVars, hostVars, deviceVars, StreamInv, OneStream, Queue, StackLast,
               StackReadsOwnWeights
<1> QED
  BY <1>1, <1>2, <1>3, <1>4, <1>5, <1>6, <1>7, <1>8, <1>9, <1>10 DEF TritonNext, HostStep

\* The inductive invariant of the token loop of run_triton_prefetch: the lockstep,
\* and that of the two streams only the one whose turn it is has work, at the end of
\* which every resident expert is in its slot.
THEOREM TritonInvariant == TritonSpec => [](SlotInv /\ StreamInv)
<1> QED
  BY SlotInvInit, SlotInvNext, StreamInvInit, StreamInvNext, PTL DEF TritonSpec

\* "the main stream only touches experts that have finished arriving": each block
\* torch.stack reads holds the weights of the expert the slot table names.
THEOREM TritonStackReads == TritonSpec => []StackReadsOwnWeights
<1>1. StreamInv => StackReadsOwnWeights
  BY DEF StreamInv
<1> QED
  BY <1>1, TritonInvariant, PTL
=============================================================================
