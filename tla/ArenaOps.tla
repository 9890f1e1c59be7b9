------------------------------ MODULE ArenaOps ------------------------------
(***************************************************************************)
(* The arena of dee/vram_cache.{h,cpp} as pure operators.  An arena value  *)
(* is a record [high, free]: high is the bump pointer high_ and free the   *)
(* set of byte offsets the free list covers.  The code keeps that set as a *)
(* vector of holes, sorted and coalesced; ArenaList models the vector and  *)
(* is checked to implement what these operators say.                       *)
(***************************************************************************)
EXTENDS Integers, FiniteSets, FiniteSetsExt

CONSTANT Cap  \* cap_, the budget in bytes

ASSUME CapAssumption == Cap \in Nat

NoRoom == -1  \* size_t(-1), alloc's failure value

Span(off, n) == off .. (off + n - 1)

Arenas == [high : 0 .. Cap, free : SUBSET (0 .. Cap - 1)]

\* The free list lies below the bump pointer.
BelowHigh(a) == a.free \subseteq 0 .. a.high - 1

EmptyArena == [high |-> 0, free |-> {}]

\* The bytes handed out and not yet released, and used() and free_space().
Taken(a) == (0 .. a.high - 1) \ a.free
UsedBytes(a) == Cardinality(Taken(a))
FreeSpace(a) == Cap - UsedBytes(a)

\* Where the free list could serve n bytes.  The lowest such offset is always
\* the start of a hole, so it is the one a first-fit scan in offset order takes.
Fits(a, n) == {o \in a.free : Span(o, n) \subseteq a.free}

\* Mutant of AllocOff: the bump ignores the budget.
AllocOffOverBudget(a, n) ==
    IF n = 0 THEN NoRoom
    ELSE IF Fits(a, n) # {} THEN Min(Fits(a, n))
    ELSE a.high

AllocOff(a, n) ==
    IF n = 0 THEN NoRoom
    ELSE IF Fits(a, n) # {} THEN Min(Fits(a, n))
    ELSE IF a.high + n <= Cap THEN a.high
    ELSE NoRoom

\* Mutant of Carve: the hole is handed out and kept.
CarveKeepsHole(a, off, n) ==
    [high |-> IF off = a.high THEN off + n ELSE a.high, free |-> a.free]

\* The arena after alloc(n) returned off # NoRoom: a hole shrinks from its front
\* (and goes when nothing is left of it), or the bump pointer moves.
Carve(a, off, n) ==
    [high |-> IF off = a.high THEN off + n ELSE a.high,
     free |-> a.free \ Span(off, n)]

\* Mutant of Release: the hole is lost.
ReleaseLost(a, S) == a

\* The arena after the bytes of S were released.  The bump pointer never
\* retreats, not even when the topmost block is released.
Release(a, S) == [high |-> a.high, free |-> a.free \cup S]
=============================================================================
