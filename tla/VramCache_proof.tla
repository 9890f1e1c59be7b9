--------------------------- MODULE VramCache_proof ---------------------------
(***************************************************************************)
(* The cache's safety for every budget, set of sizes, set of keys and set   *)
(* of priorities.  CacheInv is inductive: BlocksDisjoint and                *)
(* BlocksCoverTaken need each other (a block released by an eviction leaves *)
(* the others' bytes alone only if it shares none with them, and a fresh    *)
(* range misses every block only if all of them are counted as taken), and  *)
(* both need the free list to lie below the bump pointer.                   *)
(***************************************************************************)
EXTENDS VramCache, FiniteSetTheorems, WellFoundedInduction, TLAPS

(***************************************************************************)
(* What the arena's operators preserve, for an arena whose holes lie below *)
(* the bump pointer, which every caller keeps.                             *)
(***************************************************************************)
\* A nonempty set of naturals has a least element, the one Min names.
LEMMA MinOfNat ==
    ASSUME NEW S \in SUBSET Nat, S # {}
    PROVE  Min(S) \in S /\ \A y \in S : Min(S) <= y
<1>1. \E x \in S : \A y \in S : ~(<<y, x>> \in OpToRel(<, Nat))
    BY NatLessThanWellFounded, WFMin
<1>2. PICK x \in S : \A y \in S : ~(<<y, x>> \in OpToRel(<, Nat))
    BY <1>1
<1>3. \A y \in S : x <= y
    <2>1. SUFFICES ASSUME NEW y \in S, ~(x <= y) PROVE FALSE
        OBVIOUS
    <2>2. x \in Nat /\ y \in Nat /\ y < x
        BY <2>1
    <2>3. <<y, x>> \in Nat \X Nat /\ <<y, x>>[1] < <<y, x>>[2]
        BY <2>2
    <2>4. <<y, x>> \in OpToRel(<, Nat)
        BY <2>3, Zenon DEF OpToRel
    <2>5. QED
        BY <1>2, <2>4
<1>4. QED
    BY <1>3 DEF Min

\* There are h bytes below offset h.
LEMMA CountBelow ==
    ASSUME NEW h \in Nat
    PROVE  Cardinality(0 .. h - 1) = h
<1>1. 0 \in Int /\ h - 1 \in Int
    OBVIOUS
<1>2. Cardinality(0 .. h - 1) = IF 0 > h - 1 THEN 0 ELSE (h - 1) - 0 + 1
    BY <1>1, FS_Interval, Zenon
<1>3. QED
    BY <1>2

\* Releasing bytes that were taken: they become free and nothing else changes.
LEMMA ReleaseLemma ==
    ASSUME NEW a \in Arenas, BelowHigh(a), NEW S \in SUBSET Taken(a)
    PROVE  /\ Release(a, S) \in Arenas
           /\ BelowHigh(Release(a, S))
           /\ Taken(Release(a, S)) = Taken(a) \ S
           /\ Release(a, S).high = a.high
           /\ Release(a, S).free = a.free \cup S
<1> USE CapAssumption
<1>1. /\ a.high \in 0 .. Cap
      /\ a.free \subseteq 0 .. Cap - 1
      /\ a.free \subseteq 0 .. a.high - 1
      /\ a = [high |-> a.high, free |-> a.free]
    BY DEF Arenas, BelowHigh
<1>2. S \subseteq 0 .. a.high - 1
    BY DEF Taken
<1>3. Release(a, S) = [high |-> a.high, free |-> a.free \cup S]
    BY <1>1 DEF Release
<1>4. a.free \cup S \subseteq 0 .. Cap - 1
    BY <1>1, <1>2
<1>5. QED
    BY <1>1, <1>2, <1>3, <1>4 DEF Arenas, BelowHigh, Taken

\* An allocation that succeeds takes n bytes inside the budget that nobody held,
\* and nothing else.
LEMMA AllocLemma ==
    ASSUME NEW a \in Arenas, BelowHigh(a), NEW n \in Nat \ {0},
           AllocOff(a, n) # NoRoom
    PROVE  LET off == AllocOff(a, n)
               b   == Carve(a, off, n)
           IN  /\ off \in 0 .. Cap - 1
               /\ Span(off, n) \cap Taken(a) = {}
               /\ b \in Arenas
               /\ BelowHigh(b)
               /\ Taken(b) = Taken(a) \cup Span(off, n)
<1> DEFINE off == AllocOff(a, n)
<1> USE CapAssumption
<1>1. /\ a.high \in 0 .. Cap
      /\ a.free \subseteq 0 .. Cap - 1
      /\ a.free \subseteq 0 .. a.high - 1
    BY DEF Arenas, BelowHigh
<1>2. CASE Fits(a, n) # {}
    <2>1. off = Min(Fits(a, n))
        BY <1>2 DEF AllocOff
    <2>2. Fits(a, n) \in SUBSET Nat
        BY <1>1 DEF Fits
    <2>3. off \in Fits(a, n)
        BY <1>2, <2>1, <2>2, MinOfNat
    <2>4. off \in a.free /\ Span(off, n) \subseteq a.free
        BY <2>3 DEF Fits
    <2>5. off # a.high /\ off \in 0 .. Cap - 1
        BY <1>1, <2>4
    <2>6. Carve(a, off, n) = [high |-> a.high, free |-> a.free \ Span(off, n)]
        BY <2>5 DEF Carve
    <2>7. QED
        BY <1>1, <2>4, <2>5, <2>6 DEF Arenas, BelowHigh, Taken
<1>3. CASE Fits(a, n) = {}
    <2>1. off = a.high /\ a.high + n <= Cap
        BY <1>3 DEF AllocOff
    <2>2. Span(off, n) = a.high .. a.high + n - 1
        BY <2>1 DEF Span
    <2>3. a.free \ Span(off, n) = a.free
        BY <1>1, <2>2
    <2>4. Carve(a, off, n) = [high |-> a.high + n, free |-> a.free]
        BY <2>1, <2>3 DEF Carve
    <2>5. QED
        BY <1>1, <2>1, <2>2, <2>4 DEF Arenas, BelowHigh, Taken
<1>4. QED
    BY <1>2, <1>3
-----------------------------------------------------------------------------
\* S is cut into disjoint ranges of B bytes that start at the offsets of F.
Tiles(F, S, B) ==
    /\ F \subseteq Nat
    /\ S = UNION {Span(o, B) : o \in F}
    /\ \A f, g \in F : f # g => Span(f, B) \cap Span(g, B) = {}

\* A free list made of ranges of B bytes serves a request for B bytes whenever it
\* is not empty, takes a whole range for it, and stays made of ranges of B bytes.
LEMMA TiledAlloc ==
    ASSUME NEW a \in Arenas, BelowHigh(a), NEW B \in Nat \ {0},
           NEW F, Tiles(F, a.free, B),
           a.free # {} \/ a.high + B <= Cap
    PROVE  /\ AllocOff(a, B) # NoRoom
           /\ \E G : Tiles(G, Carve(a, AllocOff(a, B), B).free, B)
<1> DEFINE off == AllocOff(a, B)
<1> USE CapAssumption
<1>1. /\ a.high \in 0 .. Cap
      /\ a.free \subseteq 0 .. a.high - 1
      /\ Carve(a, off, B).free = a.free \ Span(off, B)
    BY DEF Arenas, BelowHigh, Carve
<1>2. CASE a.free = {}
    <2>1. Fits(a, B) = {}
        BY <1>2 DEF Fits
    <2>2. off = a.high /\ off # NoRoom
        BY <1>1, <1>2, <2>1 DEF AllocOff, NoRoom
    <2>3. Carve(a, off, B).free = a.free
        BY <1>1, <1>2
    <2>4. QED
        BY <2>2, <2>3
<1>3. CASE a.free # {}
    <2>1. \A f \in F : f \in Nat /\ f \in Span(f, B) /\ f \in Fits(a, B)
        <3> SUFFICES ASSUME NEW f \in F
                     PROVE  f \in Nat /\ f \in Span(f, B) /\ f \in Fits(a, B)
            OBVIOUS
        <3>1. f \in Nat /\ Span(f, B) \subseteq a.free
            BY DEF Tiles
        <3>2. f \in Span(f, B)
            BY <3>1 DEF Span
        <3>3. QED
            BY <3>1, <3>2 DEF Fits
    <2>2. PICK o \in F : TRUE
        BY <1>3 DEF Tiles
    <2>3. Fits(a, B) \in SUBSET Nat /\ Fits(a, B) # {}
        BY <1>1, <2>1, <2>2 DEF Fits
    <2>4. off \in Fits(a, B) /\ \A y \in Fits(a, B) : off <= y
        BY <2>3, MinOfNat DEF AllocOff
    <2>5. PICK f \in F : off \in Span(f, B)
        BY <2>4 DEF Fits, Tiles
    <2>6. off = f
        BY <2>1, <2>3, <2>4, <2>5 DEF Span
    <2>7. Tiles(F \ {f}, a.free \ Span(f, B), B)
        BY <2>5 DEF Tiles
    <2>8. QED
        BY <1>1, <2>1, <2>6, <2>7 DEF NoRoom
<1>4. QED
    BY <1>2, <1>3

-----------------------------------------------------------------------------
(***************************************************************************)
(* The cache's inductive invariant                                         *)
(***************************************************************************)

LEMMA CacheInitInv == CacheInit => CacheInv
<1> SUFFICES ASSUME CacheInit PROVE CacheInv
    OBVIOUS
<1> USE CapAssumption
<1>1. Resident = {}
    BY DEF CacheInit, Resident
<1>2. EmptyArena \in Arenas /\ BelowHigh(EmptyArena) /\ Taken(EmptyArena) = {}
    BY DEF EmptyArena, Arenas, BelowHigh, Taken
<1>3. blocks \in [Resident -> Block]
    BY <1>1 DEF CacheInit
<1>4. out \in [nbytes : Nat, ok : BOOLEAN]
    BY DEF CacheInit, NoAnswer
<1>5. CacheTypeOK
    BY <1>1, <1>2, <1>3, <1>4 DEF CacheInit, CacheTypeOK, Stats
<1>6. Bytes(Resident) = {}
    BY <1>1 DEF Bytes
<1>7. QED
    BY <1>1, <1>2, <1>5, <1>6 DEF CacheInv, CacheInit, BlocksDisjoint, BlocksCoverTaken

\* Evicting the blocks of V leaves an arena that counts exactly the bytes of the
\* others as taken.
LEMMA EvictLemma ==
    ASSUME CacheInv, NEW V \in SUBSET Resident
    PROVE  LET a == Release(arena, Bytes(V))
           IN  /\ a \in Arenas
               /\ BelowHigh(a)
               /\ Taken(a) = Bytes(Resident \ V)
               /\ a.high = arena.high
               /\ a.free = arena.free \cup Bytes(V)
<1>1. Bytes(V) \in SUBSET Taken(arena)
    BY DEF CacheInv, BlocksCoverTaken, Bytes
<1>2. Bytes(Resident) \ Bytes(V) = Bytes(Resident \ V)
    BY DEF CacheInv, BlocksDisjoint, Bytes
<1>3. QED
    BY <1>1, <1>2, ReleaseLemma DEF CacheInv, CacheTypeOK, BlocksCoverTaken

\* Counting a hit or a miss keeps the statistics natural numbers.
LEMMA StatsUpdate ==
    ASSUME NEW s \in Stats, NEW e \in Nat, NEW h \in Nat,
           NEW l \in Nat, NEW v \in Nat, NEW f \in Nat
    PROVE  /\ [s EXCEPT !.ensures = e, !.hits = h] \in Stats
           /\ [s EXCEPT !.ensures = e, !.loads = l, !.evictions = v, !.fallbacks = f] \in Stats
BY Zenon DEF Stats

LEMMA HitInv ==
    ASSUME CacheInv, NEW k \in Keys, NEW n \in Sizes, NEW p \in Priorities,
           EnsureHit(k, n, p)
    PROVE  CacheInv'
<1> USE CacheAssumption
<1>1. /\ Resident' = Resident
      /\ k \in Resident
      /\ blocks' \in [Resident -> Block]
      /\ \A j \in Resident : KeySpan(j)' = KeySpan(j)
    BY DEF CacheInv, CacheTypeOK, EnsureHit, Resident, KeySpan, Block
<1>2. Bytes(Resident)' = Bytes(Resident)
    BY <1>1 DEF Bytes
<1>3. tick' \in Nat /\ out' \in [nbytes : Nat, ok : BOOLEAN]
    BY DEF CacheInv, CacheTypeOK, EnsureHit, Answer
<1>4. stats' \in Stats
    <2>1. stats \in Stats /\ stats.ensures + 1 \in Nat /\ stats.hits + 1 \in Nat
        BY DEF CacheInv, CacheTypeOK, Stats
    <2>2. QED
        BY <2>1, StatsUpdate, Zenon DEF EnsureHit
<1>5. QED
    BY <1>1, <1>2, <1>3, <1>4
    DEF CacheInv, CacheTypeOK, BlocksDisjoint, BlocksCoverTaken, EnsureHit

LEMMA PlaceInv ==
    ASSUME CacheInv, NEW k \in Keys \ Resident, NEW n \in Sizes, NEW p \in Priorities,
           NEW V \in SUBSET Resident,
           AllocOff(Release(arena, Bytes(V)), n) # NoRoom,
           Place(k, n, p, V, AllocOff(Release(arena, Bytes(V)), n)),
           stats' \in Stats
    PROVE  CacheInv'
<1> DEFINE a   == Release(arena, Bytes(V))
           off == AllocOff(a, n)
           new == Span(off, n)
<1> USE CacheAssumption
<1>1. /\ a \in Arenas
      /\ BelowHigh(a)
      /\ Taken(a) = Bytes(Resident \ V)
    BY EvictLemma
<1>2. /\ off \in 0 .. Cap - 1
      /\ new \cap Bytes(Resident \ V) = {}
      /\ arena' \in Arenas
      /\ BelowHigh(arena')
      /\ Taken(arena') = Bytes(Resident \ V) \cup new
    BY <1>1, AllocLemma DEF Place
<1>3. /\ Resident' = (Resident \ V) \cup {k}
      /\ blocks'[k].off = off
      /\ blocks'[k].size = n
      /\ \A j \in Resident \ V : blocks'[j] = blocks[j]
    BY DEF Place, Resident
<1>4. blocks' \in [Resident' -> Block]
    <2>1. \A j \in Resident \ V : blocks[j] \in Block
        BY DEF CacheInv, CacheTypeOK
    <2>2. [off |-> off, size |-> n, last_used |-> tick + 1, priority |-> p] \in Block
        BY <1>2 DEF Block, CacheInv, CacheTypeOK
    <2>3. QED
        BY <2>1, <2>2, <1>3 DEF Place
<1>5. KeySpan(k)' = new /\ \A j \in Resident \ V : KeySpan(j)' = KeySpan(j)
    BY <1>3 DEF KeySpan
<1>6. Bytes(Resident)' = Bytes(Resident \ V) \cup new
    BY <1>3, <1>5 DEF Bytes
<1>7. \A j \in Resident \ V : KeySpan(j) \cap new = {}
    BY <1>2 DEF Bytes
<1>8. BlocksDisjoint'
    BY <1>3, <1>5, <1>7 DEF CacheInv, BlocksDisjoint
<1>9. CacheTypeOK'
    BY <1>2, <1>3, <1>4 DEF CacheInv, CacheTypeOK, Place, Answer
<1>10. QED
    BY <1>2, <1>6, <1>8, <1>9 DEF CacheInv, BlocksCoverTaken

LEMMA DropInv ==
    ASSUME CacheInv, NEW n \in Sizes, NEW V \in SUBSET Resident,
           Drop(n, V), stats' \in Stats
    PROVE  CacheInv'
<1> USE CacheAssumption
<1>1. /\ arena' \in Arenas
      /\ BelowHigh(arena')
      /\ Taken(arena') = Bytes(Resident \ V)
    BY EvictLemma DEF Drop
<1>2. Resident' = Resident \ V /\ \A j \in Resident \ V : blocks'[j] = blocks[j]
    BY DEF Drop, Resident
<1>3. blocks' \in [Resident' -> Block]
    BY <1>2 DEF Drop, CacheInv, CacheTypeOK
<1>4. \A j \in Resident' : KeySpan(j)' = KeySpan(j)
    BY <1>2 DEF KeySpan
<1>5. Bytes(Resident)' = Bytes(Resident \ V)
    BY <1>2, <1>4 DEF Bytes
<1>6. CacheTypeOK'
    BY <1>1, <1>2, <1>3 DEF CacheInv, CacheTypeOK, Drop, Answer
<1>7. QED
    BY <1>1, <1>2, <1>4, <1>5, <1>6 DEF CacheInv, BlocksDisjoint, BlocksCoverTaken

LEMMA MissInv ==
    ASSUME CacheInv, NEW k \in Keys, NEW n \in Sizes, NEW p \in Priorities,
           NEW fallbacks \in Nat, EnsureMiss(k, n, p, fallbacks)
    PROVE  CacheInv'
<1>1. PICK V \in SUBSET Resident :
         LET off == AllocOff(Release(arena, Bytes(V)), n) IN
         /\ stats' = [stats EXCEPT !.ensures = @ + 1,
                                   !.loads = @ + (IF off = NoRoom THEN 0 ELSE 1),
                                   !.evictions = @ + Cardinality(V),
                                   !.fallbacks = @ + fallbacks]
         /\ \/ off # NoRoom /\ Place(k, n, p, V, off)
            \/ off = NoRoom /\ Drop(n, V)
    BY DEF EnsureMiss
<1>2. IsFiniteSet(V)
    BY FS_Subset, CacheAssumption DEF CacheInv, CacheTypeOK
<1>3. Cardinality(V) \in Nat
    BY <1>2, FS_CardinalityType
<1>4. stats' \in Stats
    <2> DEFINE l == IF AllocOff(Release(arena, Bytes(V)), n) = NoRoom THEN 0 ELSE 1
    <2>1. /\ stats \in Stats
          /\ stats.ensures + 1 \in Nat
          /\ stats.loads + l \in Nat
          /\ stats.evictions + Cardinality(V) \in Nat
          /\ stats.fallbacks + fallbacks \in Nat
        BY <1>3 DEF CacheInv, CacheTypeOK, Stats
    <2>2. stats' = [stats EXCEPT !.ensures = stats.ensures + 1,
                                 !.loads = stats.loads + l,
                                 !.evictions = stats.evictions + Cardinality(V),
                                 !.fallbacks = stats.fallbacks + fallbacks]
        BY <1>1, Zenon
    <2>3. QED
        BY <2>1, <2>2, StatsUpdate, Zenon
<1>5. k \in Keys \ Resident
    BY DEF EnsureMiss
<1>6. QED
    BY <1>1, <1>4, <1>5, PlaceInv, DropInv

LEMMA TouchInv ==
    ASSUME CacheInv, NEW k \in Keys, Touch(k)
    PROVE  CacheInv'
<1>1. /\ Resident' = Resident
      /\ blocks' \in [Resident -> Block]
      /\ \A j \in Resident : KeySpan(j)' = KeySpan(j)
    BY DEF CacheInv, CacheTypeOK, Touch, Resident, KeySpan, Block
<1>2. Bytes(Resident)' = Bytes(Resident)
    BY <1>1 DEF Bytes
<1>3. QED
    BY <1>1, <1>2 DEF CacheInv, CacheTypeOK, BlocksDisjoint, BlocksCoverTaken, Touch

LEMMA ClearInv ==
    ASSUME CacheInv, Clear
    PROVE  CacheInv'
<1>1. Resident' = {} /\ blocks' \in [Resident' -> Block]
    BY DEF Clear, Resident
<1>2. Bytes(Resident)' = {} /\ Bytes(Resident \ Resident) = {}
    BY <1>1 DEF Bytes
<1>3. arena' \in Arenas /\ BelowHigh(arena') /\ Taken(arena') = {}
    BY <1>2, EvictLemma DEF Clear
<1>4. QED
    BY <1>1, <1>2, <1>3
    DEF CacheInv, CacheTypeOK, BlocksDisjoint, BlocksCoverTaken, Clear

\* No sequence of ensure, sync_fallback, touch and clear breaks the invariant.
LEMMA CacheNextInv == CacheInv /\ [CacheNext]_cacheVars => CacheInv'
<1> SUFFICES ASSUME CacheInv, [CacheNext]_cacheVars PROVE CacheInv'
    OBVIOUS
<1>1. ASSUME NEW k \in Keys, NEW n \in Sizes, NEW p \in Priorities, Ensure(k, n, p)
      PROVE  CacheInv'
    BY <1>1, HitInv, MissInv DEF Ensure
<1>2. ASSUME NEW k \in Keys, NEW n \in Sizes, NEW p \in Priorities, SyncFallback(k, n, p)
      PROVE  CacheInv'
    <2>1. CASE EnsureMiss(k, n, p, 1)
        BY <2>1, MissInv
    <2>2. CASE out' = Answer(n, TRUE) /\ UNCHANGED <<arena, blocks, tick, stats>>
        <3>1. out' \in [nbytes : Nat, ok : BOOLEAN]
            BY <2>2, CacheAssumption DEF Answer
        <3>2. QED
            BY <2>2, <3>1 DEF CacheInv, CacheTypeOK, BlocksDisjoint, BlocksCoverTaken,
                              Resident, KeySpan, Bytes
    <2>3. QED
        BY <1>2, <2>1, <2>2 DEF SyncFallback
<1>3. CASE UNCHANGED cacheVars
    BY <1>3 DEF cacheVars, CacheInv, CacheTypeOK, BlocksDisjoint, BlocksCoverTaken,
                Resident, KeySpan, Bytes
<1>4. QED
    BY <1>1, <1>2, <1>3, TouchInv, ClearInv DEF CacheNext

\* The inductive invariant holds in every reachable state of the cache.
THEOREM CacheInvariant == CacheSpec => []CacheInv
<1>1. QED
    BY CacheInitInv, CacheNextInv, PTL DEF CacheSpec

\* Every field of VramCacheManager keeps its type; in particular every block
\* starts inside the budget.
THEOREM CacheTypeCorrect == CacheSpec => []CacheTypeOK
<1>1. CacheInv => CacheTypeOK
    BY DEF CacheInv
<1>2. QED
    BY <1>1, CacheInvariant, PTL

\* Two resident experts never share a byte of the arena.
THEOREM CacheBlocksDisjoint == CacheSpec => []BlocksDisjoint
<1>1. CacheInv => BlocksDisjoint
    BY DEF CacheInv
<1>2. QED
    BY <1>1, CacheInvariant, PTL

\* The arena's used bytes are exactly those of the resident blocks: no leak.
THEOREM CacheNoLeak == CacheSpec => []BlocksCoverTaken
<1>1. CacheInv => BlocksCoverTaken
    BY DEF CacheInv
<1>2. QED
    BY <1>1, CacheInvariant, PTL
-----------------------------------------------------------------------------
(***************************************************************************)
(* Blocks of one size.  The invariant adds that the free list is made of    *)
(* whole blocks, so a hole is never too small; the eviction loop then       *)
(* either leaves a hole or leaves room above the bump pointer.              *)
(***************************************************************************)
FreeIsTiled == \A B \in Sizes : \E F : Tiles(F, arena.free, B)

UniformInv == CacheInv /\ (Uniform => FreeIsTiled /\ out.ok)

\* Evicting whole blocks leaves a free list made of whole blocks.
LEMMA EvictTiled ==
    ASSUME CacheInv, Uniform, FreeIsTiled, NEW V \in SUBSET Resident, NEW B \in Sizes
    PROVE  \E F : Tiles(F, Release(arena, Bytes(V)).free, B)
<1> DEFINE O == {blocks[v].off : v \in V}
<1>1. PICK F : Tiles(F, arena.free, B)
    BY DEF FreeIsTiled
<1>2. \A v \in V : /\ blocks[v].off \in Nat
                    /\ KeySpan(v) = Span(blocks[v].off, B)
                    /\ KeySpan(v) \cap arena.free = {}
    <2> SUFFICES ASSUME NEW v \in V
                 PROVE  /\ blocks[v].off \in Nat
                        /\ KeySpan(v) = Span(blocks[v].off, B)
                        /\ KeySpan(v) \cap arena.free = {}
        OBVIOUS
    <2>1. blocks[v] \in Block
        BY DEF CacheInv, CacheTypeOK
    <2>2. blocks[v].off \in Nat /\ blocks[v].size = B
        BY <2>1, CapAssumption DEF Block, Uniform
    <2>3. KeySpan(v) \subseteq Taken(arena)
        BY DEF CacheInv, BlocksCoverTaken, Bytes
    <2>4. QED
        BY <2>2, <2>3 DEF KeySpan, Taken
<1>3. Release(arena, Bytes(V)).free = arena.free \cup Bytes(V)
    BY EvictLemma
<1>4. Bytes(V) = UNION {Span(o, B) : o \in O}
    BY <1>2 DEF Bytes
<1>5. \A f \in F, v \in V : Span(f, B) \cap Span(blocks[v].off, B) = {}
    <2> SUFFICES ASSUME NEW f \in F, NEW v \in V
                 PROVE  Span(f, B) \cap Span(blocks[v].off, B) = {}
        OBVIOUS
    <2>1. Span(f, B) \subseteq arena.free
        BY <1>1 DEF Tiles
    <2>2. Span(blocks[v].off, B) \cap arena.free = {}
        BY <1>2
    <2>3. QED
        BY <2>1, <2>2
<1>6. \A v, w \in V : blocks[v].off # blocks[w].off
                         => Span(blocks[v].off, B) \cap Span(blocks[w].off, B) = {}
    BY <1>2 DEF CacheInv, BlocksDisjoint
<1>7. Tiles(F \cup O, arena.free \cup Bytes(V), B)
    <2>1. F \cup O \subseteq Nat
        <3>1. F \subseteq Nat
            BY <1>1 DEF Tiles
        <3>2. \A v \in V : blocks[v].off \in Nat
            BY <1>2
        <3>3. O \subseteq Nat
            BY <3>2
        <3>4. QED
            BY <3>1, <3>3
    <2>2. arena.free \cup Bytes(V) = UNION {Span(o, B) : o \in F \cup O}
        BY <1>1, <1>4 DEF Tiles
    <2>3. \A f, g \in F \cup O : f # g => Span(f, B) \cap Span(g, B) = {}
        BY <1>1, <1>5, <1>6 DEF Tiles
    <2>4. QED
        BY <2>1, <2>2, <2>3 DEF Tiles
<1>8. QED
    BY <1>3, <1>7

\* After the eviction loop there is a hole, or room above the bump pointer.
LEMMA EvictMakesRoom ==
    ASSUME CacheInv, Uniform, NEW n \in Sizes, NEW V \in SUBSET Resident, Evicts(V, n)
    PROVE  LET a == Release(arena, Bytes(V)) IN a.free # {} \/ a.high + n <= Cap
<1> DEFINE a == Release(arena, Bytes(V))
<1> SUFFICES ASSUME a.free = {} PROVE a.high + n <= Cap
    OBVIOUS
<1>1. /\ a.high \in 0 .. Cap
      /\ n \in Nat \ {0}
      /\ n <= Cap
      /\ Taken(a) = 0 .. a.high - 1
      /\ Taken(a) = Bytes(Resident \ V)
    BY EvictLemma, CacheAssumption DEF Arenas, Taken, Uniform
<1>2. Cardinality(Taken(a)) = a.high
    BY <1>1, CountBelow, CapAssumption
<1>3. CASE V = Resident
    <2>1. Taken(a) = {}
        BY <1>1, <1>3 DEF Bytes
    <2>2. a.high = 0
        BY <1>2, <2>1, FS_EmptySet
    <2>3. QED
        BY <1>1, <2>2
<1>4. CASE EnoughWithout(V, n)
    BY <1>1, <1>2, <1>4, CapAssumption DEF EnoughWithout, FreeSpace, UsedBytes
<1>5. QED
    BY <1>3, <1>4 DEF Evicts

LEMMA UniformMiss ==
    ASSUME CacheInv, Uniform, FreeIsTiled,
           NEW k \in Keys, NEW n \in Sizes, NEW p \in Priorities, NEW fallbacks \in Nat,
           EnsureMiss(k, n, p, fallbacks)
    PROVE  FreeIsTiled' /\ out'.ok
<1>1. PICK V \in SUBSET Resident :
         LET off == AllocOff(Release(arena, Bytes(V)), n) IN
         /\ Evicts(V, n)
         /\ \/ off # NoRoom /\ Place(k, n, p, V, off)
            \/ off = NoRoom /\ Drop(n, V)
    BY DEF EnsureMiss
<1> DEFINE a   == Release(arena, Bytes(V))
           off == AllocOff(a, n)
<1>2. a \in Arenas /\ BelowHigh(a) /\ n \in Nat \ {0}
    BY EvictLemma, CacheAssumption
<1>3. PICK F : Tiles(F, a.free, n)
    BY EvictTiled
<1>4. a.free # {} \/ a.high + n <= Cap
    BY <1>1, EvictMakesRoom
<1>5. off # NoRoom /\ \E G : Tiles(G, Carve(a, off, n).free, n)
    BY <1>2, <1>3, <1>4, TiledAlloc
<1>6. Place(k, n, p, V, off)
    BY <1>1, <1>5
<1>7. out'.ok
    BY <1>6 DEF Place, Answer
<1>8. arena' = Carve(a, off, n)
    BY <1>6 DEF Place
<1>9. \A B \in Sizes : B = n
    BY DEF Uniform
<1>10. QED
    BY <1>5, <1>7, <1>8, <1>9 DEF FreeIsTiled

LEMMA UniformNextInv == UniformInv /\ [CacheNext]_cacheVars => UniformInv'
<1> SUFFICES ASSUME UniformInv, [CacheNext]_cacheVars, Uniform
             PROVE  FreeIsTiled' /\ out'.ok
    BY CacheNextInv DEF UniformInv, Uniform
<1> USE DEF UniformInv
<1>1. ASSUME NEW k \in Keys, NEW n \in Sizes, NEW p \in Priorities, Ensure(k, n, p)
      PROVE  FreeIsTiled' /\ out'.ok
    <2>1. CASE EnsureHit(k, n, p)
        BY <2>1 DEF EnsureHit, FreeIsTiled, Answer
    <2>2. QED
        BY <1>1, <2>1, UniformMiss DEF Ensure
<1>2. ASSUME NEW k \in Keys, NEW n \in Sizes, NEW p \in Priorities, SyncFallback(k, n, p)
      PROVE  FreeIsTiled' /\ out'.ok
    <2>1. CASE EnsureMiss(k, n, p, 1)
        BY <2>1, UniformMiss
    <2>2. CASE out' = Answer(n, TRUE) /\ UNCHANGED <<arena, blocks, tick, stats>>
        BY <2>2 DEF FreeIsTiled, Answer
    <2>3. QED
        BY <1>2, <2>1, <2>2 DEF SyncFallback
<1>3. ASSUME NEW k \in Keys, Touch(k) PROVE FreeIsTiled' /\ out'.ok
    BY <1>3 DEF Touch, FreeIsTiled
<1>4. CASE Clear
    BY <1>4, EvictTiled DEF Clear, FreeIsTiled
<1>5. CASE UNCHANGED cacheVars
    BY <1>5 DEF cacheVars, FreeIsTiled
<1>6. QED
    BY <1>1, <1>2, <1>3, <1>4, <1>5 DEF CacheNext

\* With one block size that fits the budget, ensure and sync_fallback never
\* refuse, after any history and for every budget.
THEOREM CacheUniformNeverRefused == CacheSpec => []UniformNeverRefused
<1>1. CacheInit => UniformInv
    <2> SUFFICES ASSUME CacheInit PROVE UniformInv
        OBVIOUS
    <2>1. out.ok /\ arena.free = {}
        BY DEF CacheInit, NoAnswer, EmptyArena
    <2>2. \A B : Tiles({}, arena.free, B)
        BY <2>1 DEF Tiles
    <2>3. QED
        BY <2>1, <2>2, CacheInitInv DEF UniformInv, FreeIsTiled
<1>2. UniformInv => UniformNeverRefused
    BY DEF UniformInv, UniformNeverRefused
<1>3. QED
    BY <1>1, <1>2, UniformNextInv, PTL DEF CacheSpec
-----------------------------------------------------------------------------
(***************************************************************************)
(* What a refusal means, and whom an eviction spares.                       *)
(***************************************************************************)
RefusalInv == CacheInv /\ RefusalIsFragmentation

\* With every block released the whole budget is free.
LEMMA AllReleased ==
    ASSUME CacheInv PROVE FreeSpace(Release(arena, Bytes(Resident))) = Cap
<1>1. Taken(Release(arena, Bytes(Resident))) = {}
    <2>1. Taken(Release(arena, Bytes(Resident))) = Bytes(Resident \ Resident)
        BY EvictLemma
    <2>2. QED
        BY <2>1 DEF Bytes
<1>2. QED
    BY <1>1, FS_EmptySet, CapAssumption DEF FreeSpace, UsedBytes

LEMMA RefusalMiss ==
    ASSUME CacheInv, NEW k \in Keys, NEW n \in Sizes, NEW p \in Priorities,
           NEW fallbacks \in Nat, EnsureMiss(k, n, p, fallbacks)
    PROVE  RefusalIsFragmentation'
<1>1. PICK V \in SUBSET Resident :
         /\ Evicts(V, n)
         /\ (\E off : Place(k, n, p, V, off)) \/ Drop(n, V)
    BY DEF EnsureMiss
<1>2. CASE \E off : Place(k, n, p, V, off)
    BY <1>2 DEF Place, Answer, RefusalIsFragmentation
<1>3. CASE Drop(n, V)
    <2>1. arena' = Release(arena, Bytes(V)) /\ out'.nbytes = n
        BY <1>3 DEF Drop, Answer
    <2>2. CASE EnoughWithout(V, n)
        BY <2>1, <2>2 DEF EnoughWithout, RefusalIsFragmentation
    <2>3. CASE V = Resident
        <3>1. FreeSpace(arena') = Cap
            BY <2>1, <2>3, AllReleased
        <3>2. n \in Nat /\ Cap \in Nat
            BY CacheAssumption, CapAssumption
        <3>3. QED
            BY <2>1, <3>1, <3>2 DEF RefusalIsFragmentation
    <2>4. QED
        BY <1>1, <2>2, <2>3 DEF Evicts
<1>4. QED
    BY <1>1, <1>2, <1>3

LEMMA RefusalNextInv == RefusalInv /\ [CacheNext]_cacheVars => RefusalInv'
<1> SUFFICES ASSUME RefusalInv, [CacheNext]_cacheVars PROVE RefusalIsFragmentation'
    BY CacheNextInv DEF RefusalInv
<1> USE DEF RefusalInv
<1>1. ASSUME NEW k \in Keys, NEW n \in Sizes, NEW p \in Priorities, Ensure(k, n, p)
      PROVE  RefusalIsFragmentation'
    <2>1. CASE EnsureHit(k, n, p)
        BY <2>1 DEF EnsureHit, Answer, RefusalIsFragmentation
    <2>2. QED
        BY <1>1, <2>1, RefusalMiss DEF Ensure
<1>2. ASSUME NEW k \in Keys, NEW n \in Sizes, NEW p \in Priorities, SyncFallback(k, n, p)
      PROVE  RefusalIsFragmentation'
    <2>1. CASE EnsureMiss(k, n, p, 1)
        BY <2>1, RefusalMiss
    <2>2. CASE out' = Answer(n, TRUE) /\ UNCHANGED <<arena, blocks, tick, stats>>
        BY <2>2 DEF Answer, RefusalIsFragmentation
    <2>3. QED
        BY <1>2, <2>1, <2>2 DEF SyncFallback
<1>3. ASSUME NEW k \in Keys, Touch(k) PROVE RefusalIsFragmentation'
    BY <1>3 DEF Touch, RefusalIsFragmentation
<1>4. CASE Clear
    <2>1. FreeSpace(arena') = Cap /\ out' = out
        BY <1>4, AllReleased DEF Clear
    <2>2. out.nbytes \in Nat /\ Cap \in Nat
        BY CapAssumption DEF CacheInv, CacheTypeOK
    <2>3. QED
        BY <2>1, <2>2 DEF RefusalIsFragmentation
<1>5. CASE UNCHANGED cacheVars
    BY <1>5 DEF cacheVars, RefusalIsFragmentation
<1>6. QED
    BY <1>1, <1>2, <1>3, <1>4, <1>5 DEF CacheNext

\* When ensure or sync_fallback refuses a request within the budget, the arena has
\* that many bytes free, only not in one piece: the eviction loop stops no earlier
\* (vram_cache.cpp, evict_until_free).
THEOREM CacheRefusal == CacheSpec => []RefusalIsFragmentation
<1>1. CacheInit => RefusalInv
    BY CacheInitInv DEF RefusalInv, RefusalIsFragmentation, CacheInit, NoAnswer
<1>2. RefusalInv => RefusalIsFragmentation
    BY DEF RefusalInv
<1>3. QED
    BY <1>1, <1>2, RefusalNextInv, PTL DEF CacheSpec

\* A block at least as recent and at least as high in priority as another, and more
\* of one, has the higher score.
LEMMA ScoreGrows ==
    ASSUME NEW b \in Block, NEW c \in Block,
           b.last_used >= c.last_used, b.priority >= c.priority,
           b.last_used + b.priority > c.last_used + c.priority
    PROVE  ~(Score(b) <= Score(c))
<1>1. /\ b.last_used \in Nat /\ c.last_used \in Nat /\ b.priority \in Nat /\ c.priority \in Nat
      /\ PriorityWeight \in Nat /\ PriorityWeight >= 1
    <2>1. b.priority \in Priorities /\ c.priority \in Priorities
        BY DEF Block
    <2>2. b.last_used \in Nat /\ c.last_used \in Nat
        BY DEF Block
    <2>3. PriorityWeight \in Nat \ {0} /\ Priorities \subseteq Nat
        BY CacheAssumption
    <2>4. PriorityWeight \in Nat /\ PriorityWeight >= 1
        BY ONLY <2>3
    <2>5. b.priority \in Nat /\ c.priority \in Nat
        BY ONLY <2>1, <2>3
    <2>6. QED
        BY <2>2, <2>4, <2>5
<1>2. PICK d \in Nat : b.priority = c.priority + d
    <2>1. b.priority - c.priority \in Nat
        BY <1>1
    <2>2. b.priority = c.priority + (b.priority - c.priority)
        BY <1>1
    <2>3. QED
        BY <2>1, <2>2
<1>3. /\ b.priority * PriorityWeight = c.priority * PriorityWeight + d * PriorityWeight
      /\ c.priority * PriorityWeight \in Nat
    BY <1>1, <1>2
<1>4. d * PriorityWeight \in Nat /\ d * PriorityWeight >= d
    <2>1. PICK w \in Nat : PriorityWeight = w + 1
        <3>1. PriorityWeight - 1 \in Nat /\ PriorityWeight = (PriorityWeight - 1) + 1
            BY <1>1
        <3>2. QED
            BY <3>1
    <2>2. d * PriorityWeight = d * w + d /\ d * w \in Nat
        BY <2>1
    <2>3. QED
        BY <2>2
<1>5. QED
    BY <1>1, <1>2, <1>3, <1>4 DEF Score

\* An eviction that spares a block spares every block that is at least as recent
\* and at least as high in priority, and more of one: the score orders blocks by
\* both (vram_cache.cpp, eviction_score).
THEOREM CachePolicy == CacheSpec => PredictedOutlivesSameAge
<1> DEFINE Spared(j, k) ==
        k \in DOMAIN blocks' /\ j \notin DOMAIN blocks'
          => ~ /\ blocks[j].last_used >= blocks[k].last_used
               /\ blocks[j].priority >= blocks[k].priority
               /\ blocks[j].last_used + blocks[j].priority
                     > blocks[k].last_used + blocks[k].priority
<1>1. ASSUME CacheInv, [CacheNext]_cacheVars, NEW j \in Resident, NEW k \in Resident
      PROVE  Spared(j, k)
    <2>1. blocks \in [Resident -> Block] /\ blocks[j] \in Block /\ blocks[k] \in Block
        BY <1>1 DEF CacheInv, CacheTypeOK
    <2>2. ASSUME NEW V \in SUBSET Resident, NEW n, Evicts(V, n), j \in V, k \notin V
          PROVE  Spared(j, k)
        <3>1. Score(blocks[j]) <= Score(blocks[k])
            BY <2>2 DEF Evicts
        <3>2. QED
            BY <2>1, <3>1, ScoreGrows
    <2>3. ASSUME NEW x \in Keys, NEW n \in Sizes, NEW p \in Priorities, NEW f,
                 EnsureMiss(x, n, p, f)
          PROVE  Spared(j, k)
        <3>1. PICK V \in SUBSET Resident :
                /\ Evicts(V, n)
                /\ (\E off : Place(x, n, p, V, off)) \/ Drop(n, V)
            BY <2>3 DEF EnsureMiss
        <3>2. x \notin Resident
            BY <2>3 DEF EnsureMiss
        <3>3. DOMAIN blocks' = (Resident \ V) \cup {x} \/ DOMAIN blocks' = Resident \ V
            BY <3>1 DEF Place, Drop
        <3>4. k \in DOMAIN blocks' /\ j \notin DOMAIN blocks' => j \in V /\ k \notin V
            BY <3>2, <3>3
        <3>5. QED
            BY <2>2, <3>1, <3>4
    <2>4. ASSUME DOMAIN blocks' = Resident PROVE Spared(j, k)
        BY <2>4
    <2>5. ASSUME NEW x \in Keys, NEW n \in Sizes, NEW p \in Priorities,
                 Ensure(x, n, p) \/ SyncFallback(x, n, p)
          PROVE  Spared(j, k)
        <3>1. CASE EnsureHit(x, n, p)
            <4>1. DOMAIN blocks' = Resident
                BY <2>1, <3>1 DEF EnsureHit
            <4>2. QED
                BY <2>4, <4>1
        <3>2. CASE UNCHANGED blocks
            BY <2>4, <3>2 DEF Resident
        <3>3. QED
            BY <2>3, <2>5, <3>1, <3>2 DEF Ensure, SyncFallback
    <2>6. ASSUME NEW x \in Keys, Touch(x) PROVE Spared(j, k)
        <3>1. DOMAIN blocks' = Resident
            BY <2>1, <2>6 DEF Touch
        <3>2. QED
            BY <2>4, <3>1
    <2>7. CASE Clear
        BY <2>7 DEF Clear
    <2>8. CASE UNCHANGED cacheVars
        BY <2>4, <2>8 DEF cacheVars, Resident
    <2>9. QED
        BY <1>1, <2>5, <2>6, <2>7, <2>8 DEF CacheNext
<1>2. CacheInv /\ [CacheNext]_cacheVars
        => [\A j, k \in Resident :
              /\ k \in DOMAIN blocks' /\ j \notin DOMAIN blocks'
              => ~ /\ blocks[j].last_used >= blocks[k].last_used
                   /\ blocks[j].priority >= blocks[k].priority
                   /\ blocks[j].last_used + blocks[j].priority
                         > blocks[k].last_used + blocks[k].priority]_cacheVars
    BY <1>1
<1>3. QED
    BY <1>2, CacheInvariant, PTL DEF CacheSpec, PredictedOutlivesSameAge
=============================================================================
