---- MODULE MCArenaList ----
(***************************************************************************)
(* ArenaList for TLC, and the loop of coalesce() as it is written, to      *)
(* check Coalesce against.                                                 *)
(***************************************************************************)
EXTENDS ArenaList

CoalesceLoop(hs) ==
    LET Merge(merged, h) ==
            IF merged # <<>> /\ End(Last(merged)) = h.off
            THEN ReplaceAt(merged, Len(merged), [Last(merged) EXCEPT !.size = @ + h.size])
            ELSE Append(merged, h)
    IN  FoldLeft(Merge, <<>>, hs)

\* Up to four holes of up to two bytes in any order: runs of every length that
\* touch, overlap or leave a gap.
Lists == UNION {[1 .. n -> [off : 0 .. 3, size : 1 .. 2]] : n \in 0 .. 4}

\* The loop of coalesce() (vram_cache.cpp:65-78) leaves the holes that Coalesce
\* names by their starts, in the same order.
ASSUME CoalesceIsItsLoop == \A hs \in Lists : Coalesce(hs) = CoalesceLoop(hs)
====
