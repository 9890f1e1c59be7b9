------------------------------ MODULE ArenaList ------------------------------
(***************************************************************************)
(* class Arena (dee/vram_cache.{h,cpp}) with its own data: the vector of   *)
(* holes free_, the bump pointer high_ and the counter used_.  A state is  *)
(* one after a successful init(); the memory itself is not looked at here. *)
(***************************************************************************)
EXTENDS ArenaOps, Sequences, SequencesExt

CONSTANT Sizes    \* the sizes callers ask for

ASSUME SizesAssumption == Sizes \subseteq Nat

VARIABLES high,   \* high_
          used,   \* used_
          holes,  \* free_, a sequence of [off, size]
          live    \* the ranges callers hold

vars == <<high, used, holes, live>>

Init ==
    /\ high = 0
    /\ used = 0
    /\ holes = <<>>
    /\ live = {}

End(h) == h.off + h.size

\* coalesce(): one pass from the left, in which the last merged hole always ends
\* where the hole before the current one does: a hole is added to it if it starts
\* there, and starts a merged hole of its own if not.
Starts(hs) == {i \in DOMAIN hs : i = 1 \/ End(hs[i - 1]) # hs[i].off}

\* The k-th element of a set of numbers, and what coalesce() swaps into free_:
\* from each start to the end of the hole in front of the next.
Nth(S, k) == CHOOSE i \in S : Cardinality({j \in S : j <= i}) = k

Coalesce(hs) ==
    LET starts == Starts(hs)
        count == Cardinality(starts)
        last(k) == IF k = count THEN Len(hs) ELSE Nth(starts, k + 1) - 1
    IN  [k \in 1 .. count |->
            [off |-> hs[Nth(starts, k)].off, size |-> End(hs[last(k)]) - hs[Nth(starts, k)].off]]

\* The position std::lower_bound gives a hole at off: before the first hole whose
\* offset is not below it.
LowerBound(hs, off) == 1 + Cardinality({i \in DOMAIN hs : hs[i].off < off})

Insert(hs, h) == InsertAt(hs, LowerBound(hs, h.off), h)

\* Mutant of FirstFit: the scan runs from the high end.
LastFit(n) ==
    LET fit == {i \in DOMAIN holes : holes[i].size >= n}
    IN  IF fit = {} THEN 0 ELSE Max(fit)

\* The first-fit scan: the index of the first hole large enough, 0 if none is.
FirstFit(n) ==
    LET fit == {i \in DOMAIN holes : holes[i].size >= n}
    IN  IF fit = {} THEN 0 ELSE Min(fit)

AllocFromHole(n) ==
    LET i == FirstFit(n)
        h == holes[i]
    IN  /\ n # 0
        /\ i # 0
        /\ holes' = IF h.size = n
                    THEN RemoveAt(holes, i)
                    ELSE ReplaceAt(holes, i, [off |-> h.off + n, size |-> h.size - n])
        /\ used' = used + n
        /\ live' = live \cup {[off |-> h.off, size |-> n]}
        /\ UNCHANGED high

AllocFromTop(n) ==
    /\ n # 0
    /\ FirstFit(n) = 0
    /\ high + n <= Cap
    /\ high' = high + n
    /\ used' = used + n
    /\ live' = live \cup {[off |-> high, size |-> n]}
    /\ UNCHANGED holes

\* alloc() returns size_t(-1) and changes nothing.
AllocFails(n) ==
    /\ n = 0 \/ (FirstFit(n) = 0 /\ high + n > Cap)
    /\ UNCHANGED vars

\* Mutant of Free: coalesce() is not called.
FreeNoCoalesce(b) ==
    /\ holes' = Insert(holes, b)
    /\ used' = used - b.size
    /\ live' = live \ {b}
    /\ UNCHANGED high

\* Mutant of Free: used_ is not given back.
FreeKeepsUsed(b) ==
    /\ holes' = Coalesce(Insert(holes, b))
    /\ live' = live \ {b}
    /\ UNCHANGED <<high, used>>

Free(b) ==
    /\ holes' = Coalesce(Insert(holes, b))
    /\ used' = used - b.size
    /\ live' = live \ {b}
    /\ UNCHANGED high

Next ==
    \/ \E n \in Sizes : AllocFromHole(n) \/ AllocFromTop(n) \/ AllocFails(n)
    \/ \E b \in live : Free(b)

Spec == Init /\ [][Next]_vars
------------------------------------------------------------------------------
BytesOf(hs) == UNION {Span(hs[i].off, hs[i].size) : i \in DOMAIN hs}

HoleBytes == BytesOf(holes)

\* The free list stays canonical through every sequence of alloc and free: holes
\* in offset order, none empty, no two overlapping or adjacent, all below the
\* bump pointer.  coalesce() runs only in free(), one pass, and must leave no
\* neighbour unmerged whatever the order in which blocks come back.
FreeListCanonical ==
    /\ \A i \in DOMAIN holes : holes[i].size > 0 /\ End(holes[i]) <= high
    /\ \A i, j \in DOMAIN holes : i < j => End(holes[i]) < holes[j].off

\* used_ counts exactly the bytes callers hold, so free_space(), the condition
\* of the eviction loop, never drifts from the truth.
UsedExact == used = Cardinality((0 .. high - 1) \ HoleBytes)

Abstract == INSTANCE Arena WITH
                arena <- [high |-> high, free |-> HoleBytes]

\* The vector of holes implements the allocator the cache relies on: every
\* alloc takes the lowest range of free bytes that fits, every free returns
\* exactly the range.
ImplementsArena == Abstract!Spec
=============================================================================
