------------------------------ MODULE VramCache ------------------------------
(***************************************************************************)
(* VramCacheManager (dee/vram_cache.{h,cpp}): which experts are resident in *)
(* the arena, and which one goes when there is no room.  A key stands for   *)
(* the packed (layer, expert) pair.  One host thread calls the manager, so  *)
(* a call is one step.                                                      *)
(***************************************************************************)
EXTENDS ArenaOps

CONSTANTS Keys,            \* (layer, expert) pairs
          Sizes,           \* nbytes callers pass
          Priorities,      \* Oracle priorities callers pass
          PriorityWeight,  \* PRIORITY_WEIGHT, 2^20 in the code
          MaxCalls         \* bound on the calls that advance tick or stats

ASSUME CacheAssumption ==
    /\ IsFiniteSet(Keys)
    /\ Sizes \subseteq Nat \ {0}
    /\ Priorities \subseteq Nat
    /\ PriorityWeight \in Nat \ {0}
    /\ MaxCalls \in Nat

VARIABLES arena,   \* arena_
          blocks,  \* blocks_: the resident keys' [off, size, last_used, priority]
          tick,    \* tick_
          stats,   \* stats_
          out      \* what the last ensure or sync_fallback answered

cacheVars == <<arena, blocks, tick, stats, out>>

Block == [off : 0 .. Cap - 1, size : Sizes, last_used : Nat, priority : Priorities]
Stats == [ensures : Nat, hits : Nat, loads : Nat, evictions : Nat, fallbacks : Nat]

NoAnswer == [nbytes |-> 0, ok |-> TRUE]
Answer(n, ok) == [nbytes |-> n, ok |-> ok]

Resident == DOMAIN blocks

KeySpan(k) == Span(blocks[k].off, blocks[k].size)
Bytes(S) == UNION {KeySpan(k) : k \in S}

CacheTypeOK ==
    /\ arena \in Arenas
    /\ Resident \subseteq Keys
    /\ blocks \in [Resident -> Block]
    /\ tick \in Nat
    /\ stats \in Stats
    /\ out \in [nbytes : Nat, ok : BOOLEAN]

CacheInit ==
    /\ arena = EmptyArena
    /\ blocks = [k \in {} |-> NoAnswer]
    /\ tick = 0
    /\ stats = [ensures |-> 0, hits |-> 0, loads |-> 0, evictions |-> 0, fallbacks |-> 0]
    /\ out = NoAnswer
------------------------------------------------------------------------------
\* Mutant of Score: a predicted expert is evicted first.
ScoreInverted(b) == b.last_used - b.priority * PriorityWeight

\* eviction_score: the lower, the sooner evicted.
Score(b) == b.last_used + b.priority * PriorityWeight

\* Mutant of EnoughWithout: the loop stops one byte early.
EnoughWithoutOffByOne(V, need) == FreeSpace(Release(arena, Bytes(V))) + 1 >= need

\* The exit condition of the eviction loop once the blocks of V are released.
EnoughWithout(V, need) == FreeSpace(Release(arena, Bytes(V))) >= need

\* evict_until_free(need) may evict exactly the blocks of V: it takes the lowest
\* score each time (a tie falls to the map's iteration order), and looks at the
\* free space before each eviction, the last one included.
Evicts(V, need) ==
    /\ \A v \in V, k \in Resident \ V : Score(blocks[v]) <= Score(blocks[k])
    /\ EnoughWithout(V, need) \/ V = Resident
    /\ V # {} => \E last \in V :
                    /\ \A v \in V : Score(blocks[v]) <= Score(blocks[last])
                    /\ ~EnoughWithout(V \ {last}, need)

\* Mutant of EnsureHit: a hit is not counted.
EnsureHitUncounted(k, n, p) ==
    /\ k \in Resident
    /\ tick' = tick + 1
    /\ blocks' = [blocks EXCEPT ![k].last_used = tick + 1, ![k].priority = p]
    /\ stats' = [stats EXCEPT !.ensures = @ + 1]
    /\ out' = Answer(n, TRUE)
    /\ UNCHANGED arena

EnsureHit(k, n, p) ==
    /\ k \in Resident
    /\ tick' = tick + 1
    /\ blocks' = [blocks EXCEPT ![k].last_used = tick + 1, ![k].priority = p]
    /\ stats' = [stats EXCEPT !.ensures = @ + 1, !.hits = @ + 1]
    /\ out' = Answer(n, TRUE)
    /\ UNCHANGED arena

\* A miss evicts, then allocates.  When the allocation fails the blocks evicted
\* for it are gone all the same.
Place(k, n, p, V, off) ==
    /\ arena' = Carve(Release(arena, Bytes(V)), off, n)
    /\ tick' = tick + 1
    /\ blocks' = [j \in (Resident \ V) \cup {k} |->
                    IF j = k
                    THEN [off |-> off, size |-> n, last_used |-> tick + 1, priority |-> p]
                    ELSE blocks[j]]
    /\ out' = Answer(n, TRUE)

Drop(n, V) ==
    /\ arena' = Release(arena, Bytes(V))
    /\ blocks' = [j \in Resident \ V |-> blocks[j]]
    /\ out' = Answer(n, FALSE)
    /\ UNCHANGED tick

EnsureMiss(k, n, p, fallbacks) ==
    /\ k \notin Resident
    /\ \E V \in SUBSET Resident :
          LET off == AllocOff(Release(arena, Bytes(V)), n) IN
          /\ Evicts(V, n)
          /\ stats' = [stats EXCEPT !.ensures = @ + 1,
                                    !.loads = @ + (IF off = NoRoom THEN 0 ELSE 1),
                                    !.evictions = @ + Cardinality(V),
                                    !.fallbacks = @ + fallbacks]
          /\ \/ off # NoRoom /\ Place(k, n, p, V, off)
             \/ off = NoRoom /\ Drop(n, V)

Ensure(k, n, p) == EnsureHit(k, n, p) \/ EnsureMiss(k, n, p, 0)

Touch(k) ==
    /\ k \in Resident
    /\ tick' = tick + 1
    /\ blocks' = [blocks EXCEPT ![k].last_used = tick + 1]
    /\ UNCHANGED <<arena, stats, out>>

\* sync_fallback of a resident key changes nothing.
SyncFallback(k, n, p) ==
    \/ /\ k \in Resident
       /\ out' = Answer(n, TRUE)
       /\ UNCHANGED <<arena, blocks, tick, stats>>
    \/ EnsureMiss(k, n, p, 1)

\* Mutant of Clear: the map is emptied, the arena keeps the bytes.
ClearLeaks ==
    /\ blocks' = [k \in {} |-> NoAnswer]
    /\ tick' = 0
    /\ UNCHANGED <<arena, stats, out>>

\* clear() forgets the blocks and the clock and keeps the statistics.
Clear ==
    /\ arena' = Release(arena, Bytes(Resident))
    /\ blocks' = [k \in {} |-> NoAnswer]
    /\ tick' = 0
    /\ UNCHANGED <<stats, out>>

CacheNext ==
    \/ /\ stats.ensures < MaxCalls /\ tick < MaxCalls
       /\ \E k \in Keys, n \in Sizes, p \in Priorities : Ensure(k, n, p) \/ SyncFallback(k, n, p)
    \/ /\ tick < MaxCalls
       /\ \E k \in Keys : Touch(k)
    \/ Clear

CacheSpec == CacheInit /\ [][CacheNext]_cacheVars
------------------------------------------------------------------------------
\* Two resident experts never share a byte.
BlocksDisjoint ==
    \A j, k \in Resident : j # k => KeySpan(j) \cap KeySpan(k) = {}

\* The bytes the arena counts as used are exactly those of resident blocks: none
\* leaks when a block is evicted, cleared or dropped by a failed load, and every
\* block lies inside the budget.
BlocksCoverTaken == Bytes(Resident) = Taken(arena)

\* The inductive invariant behind the two.
CacheInv == CacheTypeOK /\ BelowHigh(arena) /\ BlocksDisjoint /\ BlocksCoverTaken

\* The header's policy: a predicted expert "is evicted later than a same-age,
\* non-predicted one".  An eviction that spares a block spares every block that
\* is at least as recent and at least as high in priority, and more of one.
PredictedOutlivesSameAge ==
    [][\A j, k \in Resident :
          /\ k \in DOMAIN blocks' /\ j \notin DOMAIN blocks'
          => ~ /\ blocks[j].last_used >= blocks[k].last_used
               /\ blocks[j].priority >= blocks[k].priority
               /\ blocks[j].last_used + blocks[j].priority
                     > blocks[k].last_used + blocks[k].priority]_cacheVars

\* When a request within the budget is refused, the eviction loop had done its
\* work: the arena has nbytes free, only not in one piece.
RefusalIsFragmentation ==
    ~out.ok /\ out.nbytes <= Cap => FreeSpace(arena) >= out.nbytes

\* The callers use one block size, and it fits the budget.
Uniform == \A m, n \in Sizes : m = n /\ n <= Cap

\* The engine asks for blobs of one size.  Then no refusal is ever due to
\* fragmentation: every ensure within the budget answers true, after any history
\* of evictions, fallbacks and clears, although the bump pointer never retreats.
UniformNeverRefused == Uniform => out.ok
=============================================================================
