-------------------------------- MODULE Arena --------------------------------
(***************************************************************************)
(* What Arena promises its callers: a first-fit allocator of byte ranges.  *)
(* live is the callers' side of the contract, the set of ranges they hold; *)
(* they release only what they hold, once, with the size they asked for    *)
(* (VramCacheManager keeps offset and size in the block).                  *)
(***************************************************************************)
EXTENDS ArenaOps

CONSTANT Sizes  \* the sizes callers ask for

VARIABLES arena, live

vars == <<arena, live>>

Init ==
    /\ arena = EmptyArena
    /\ live = {}

Alloc(n) ==
    LET off == AllocOff(arena, n) IN
    /\ off # NoRoom
    /\ arena' = Carve(arena, off, n)
    /\ live' = live \cup {[off |-> off, size |-> n]}

Free(b) ==
    /\ arena' = Release(arena, Span(b.off, b.size))
    /\ live' = live \ {b}

Next ==
    \/ \E n \in Sizes : Alloc(n)
    \/ \E b \in live : Free(b)

Spec == Init /\ [][Next]_vars
=============================================================================
