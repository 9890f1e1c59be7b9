---- MODULE SlotCache ----
(***************************************************************************)
(* The expert cache of the second runtime (vram_cache_manager.cpp): one    *)
(* device allocation cut into NumSlots slots of equal size, a stack of the *)
(* slots never used yet, and the map cached_ from an expert to its slot,   *)
(* the time of its last use and the priority the Oracle gave it when it    *)
(* came in.  A slot never returns to the stack: once it is empty, an       *)
(* expert that comes in takes the slot of a victim.                        *)
(*                                                                         *)
(* Every expert fits a slot (the callers size the slots by the largest     *)
(* expert), so the throw of acquire() on a larger one is not reached.      *)
(***************************************************************************)
EXTENDS Integers, Sequences

CONSTANTS Keys,        \* the ExpertKeys (layer, expert)
          NumSlots,    \* num_slots_
          Priorities   \* ranks of the values oracle_.priority() may return

ASSUME SlotCacheAssumption ==
    /\ NumSlots \in Nat \ {0}       \* the constructor throws on num_slots <= 0
    /\ Priorities \subseteq Nat
    /\ Priorities # {}

VARIABLES free_list,   \* the stack of unused slots: its last element is next
          cached,      \* cached_, a function from the resident keys
          clock        \* clock_, stamps last_used

cacheVars == <<free_list, cached, clock>>

Slots == 0 .. NumSlots - 1

CachedExpert == [slot : Slots, last_used : Nat, priority : Priorities]

\* The constructor pushes the slots in descending order: slot 0 is on top.
SlotInit ==
    /\ free_list = [i \in 1 .. NumSlots |-> NumSlots - i]
    /\ cached = [k \in {} |-> 0]
    /\ clock = 0

Contains(k) == k \in DOMAIN cached

\* The order of evict_victim(): the lowest priority, then the least recent use.
EvictsBefore(c, d) ==
    \/ c.priority < d.priority
    \/ c.priority = d.priority /\ c.last_used < d.last_used

EvictVictim ==
    CHOOSE v \in DOMAIN cached :
        \A k \in DOMAIN cached : ~EvictsBefore(cached[k], cached[v])

\* Mutant of Evicted: the victim's slot is reused but its entry stays.
EvictedKept(k) == {}

\* What leaves the cache when k is acquired.
Evicted(k) ==
    IF Contains(k) \/ free_list # <<>> THEN {} ELSE {EvictVictim}

\* The slot k is served from, or will be.
SlotFor(k) ==
    CASE Contains(k)                            -> cached[k].slot
      [] ~Contains(k) /\ free_list # <<>>       -> free_list[Len(free_list)]
      [] ~Contains(k) /\ free_list = <<>>       -> cached[EvictVictim].slot

\* Mutant of Touch: the clock does not advance.
TouchKeepsClock(k) ==
    IF Contains(k)
    THEN cached' = [cached EXCEPT ![k].last_used = clock] /\ UNCHANGED <<free_list, clock>>
    ELSE UNCHANGED cacheVars

Touch(k) ==
    IF Contains(k)
    THEN /\ cached' = [cached EXCEPT ![k].last_used = clock + 1]
         /\ clock' = clock + 1
         /\ UNCHANGED free_list
    ELSE UNCHANGED cacheVars

\* acquire(): a hit is a touch; a miss takes a slot and captures the priority.
Acquire(k, p) ==
    IF Contains(k) THEN Touch(k)
    ELSE /\ cached' = [j \in (DOMAIN cached \ Evicted(k)) \union {k} |->
                         IF j = k THEN [slot |-> SlotFor(k), last_used |-> clock + 1,
                                        priority |-> p]
                         ELSE cached[j]]
         /\ free_list' = IF free_list = <<>> THEN <<>>
                         ELSE SubSeq(free_list, 1, Len(free_list) - 1)
         /\ clock' = clock + 1

SlotNext == \E k \in Keys : Touch(k) \/ \E p \in Priorities : Acquire(k, p)

SlotSpec == SlotInit /\ [][SlotNext]_cacheVars

SlotTypeOK ==
    /\ free_list \in Seq(Slots)
    /\ DOMAIN cached \subseteq Keys
    /\ cached \in [DOMAIN cached -> CachedExpert]
    /\ clock \in Nat

\* Every slot is either unused or holds exactly one expert: no slot is lost by
\* an eviction and none is given to two experts (free_list_ and cached_ are
\* never compared by the code).
SlotsPartition ==
    /\ \A i, j \in 1 .. Len(free_list) : free_list[i] = free_list[j] => i = j
    /\ \A j, k \in DOMAIN cached : cached[j].slot = cached[k].slot => j = k
    /\ \A s \in Slots :
         (\E i \in 1 .. Len(free_list) : free_list[i] = s)
           <=> ~\E k \in DOMAIN cached : cached[k].slot = s

\* No two experts carry the same stamp, so that the victim does not depend on
\* the iteration order of the hash map cached_.
StampsDistinct ==
    \A j, k \in DOMAIN cached :
        /\ cached[j].last_used <= clock
        /\ cached[j].last_used = cached[k].last_used => j = k

====
