--------------------------- MODULE ArenaList_proof ---------------------------
(***************************************************************************)
(* The vector of holes for every budget, set of sizes and history of alloc *)
(* and free: it stays canonical, used_ stays exact, and it implements the  *)
(* allocator of byte sets (Arena) that the proofs of the cache rest on.    *)
(*                                                                         *)
(* FreeListCanonical and UsedExact are not inductive: that a range which   *)
(* comes back overlaps no hole is the callers' side of the contract.       *)
(* ListInv adds it as LivePartition: the ranges callers hold are disjoint  *)
(* and make up the bytes below the bump pointer that no hole covers.       *)
(*                                                                         *)
(* Coalesce names the merged holes by the positions they start at, so what *)
(* it does is proved by counting positions (Rank, Nth) and not by          *)
(* induction over the list.                                                *)
(***************************************************************************)
EXTENDS ArenaList, FiniteSetTheorems, SequenceTheorems, WellFoundedInduction, TLAPS

(***************************************************************************)
(* Sets of numbers                                                         *)
(***************************************************************************)

\* A nonempty set of naturals has a least element.
LEMMA LeastOf ==
    ASSUME NEW S, S \subseteq Nat, S # {}
    PROVE  \E x \in S : \A y \in S : x <= y
<1>1. PICK x \in S : \A y \in S : ~(<<y, x>> \in OpToRel(<, Nat))
    BY NatLessThanWellFounded, WFMin
<1>2. \A y \in S : x <= y
    <2>1. SUFFICES ASSUME NEW y \in S, ~(x <= y) PROVE FALSE
        OBVIOUS
    <2>2. x \in Nat /\ y \in Nat /\ y < x
        BY <2>1
    <2>3. <<y, x>> \in Nat \X Nat /\ <<y, x>>[1] < <<y, x>>[2]
        BY <2>2
    <2>4. <<y, x>> \in OpToRel(<, Nat)
        BY <2>3, Zenon DEF OpToRel
    <2>5. QED
        BY <1>1, <2>4
<1>3. QED
    BY <1>2

\* Min is the element that none is below.
LEMMA MinIs ==
    ASSUME NEW S, S \subseteq Nat, NEW x \in S, \A y \in S : x <= y
    PROVE  Min(S) = x
<1>1. \A z \in S : (\A y \in S : z <= y) => z = x
    <2> SUFFICES ASSUME NEW z \in S, \A y \in S : z <= y PROVE z = x
        OBVIOUS
    <2>1. z <= x /\ x <= z /\ x \in Nat /\ z \in Nat
        OBVIOUS
    <2> QED BY <2>1
<1> QED
    BY <1>1 DEF Min

\* A nonempty set of naturals up to n has a greatest element.
LEMMA GreatestOf ==
    ASSUME NEW n \in Nat, NEW S, S \subseteq 0 .. n, S # {}
    PROVE  \E x \in S : \A y \in S : y <= x
<1> DEFINE T == {n - y : y \in S}
<1>1. T \subseteq Nat /\ T # {}
    <2>1. \A y \in S : n - y \in Nat
        OBVIOUS
    <2>2. PICK y \in S : TRUE
        OBVIOUS
    <2>3. n - y \in T
        OBVIOUS
    <2> QED BY <2>1, <2>3
<1>2. PICK t \in T : \A u \in T : t <= u
    <2> HIDE DEF T
    <2> QED BY <1>1, LeastOf
<1>3. PICK x \in S : t = n - x
    BY <1>2
<1>4. \A y \in S : y <= x
    <2> SUFFICES ASSUME NEW y \in S PROVE y <= x
        OBVIOUS
    <2>1. n - y \in T
        OBVIOUS
    <2>2. n - x <= n - y
        BY <1>2, <1>3, <2>1
    <2> QED BY <2>2
<1> QED
    BY <1>4

\* The number of integers from a to b.
LEMMA CountTo ==
    ASSUME NEW a \in Int, NEW b \in Int, a <= b + 1
    PROVE  IsFiniteSet(a .. b) /\ Cardinality(a .. b) = b - a + 1
<1>1. /\ IsFiniteSet(a .. b)
      /\ Cardinality(a .. b) = IF a > b THEN 0 ELSE b - a + 1
    BY FS_Interval, Zenon
<1> QED
    BY <1>1

\* A set of positions that contains every position below one of its own is a
\* prefix of the positions.
LEMMA Prefix ==
    ASSUME NEW n \in Nat, NEW S, S \subseteq 1 .. n,
           \A i \in S, j \in 1 .. n : j <= i => j \in S
    PROVE  Cardinality(S) \in 0 .. n /\ S = 1 .. Cardinality(S)
<1> DEFINE T == {i \in 1 .. n + 1 : i \notin S}
<1>1. T \subseteq Nat /\ n + 1 \in T
    OBVIOUS
<1>2. PICK m \in T : \A y \in T : m <= y
    BY <1>1, LeastOf
<1>3. S = 1 .. m - 1
    <2>1. \A i \in 1 .. m - 1 : i \in S
        BY <1>2
    <2>2. \A i \in S : i \in 1 .. m - 1
        <3> SUFFICES ASSUME NEW i \in S PROVE i \in 1 .. m - 1
            OBVIOUS
        <3>1. m \in 1 .. n + 1 /\ m \notin S /\ i \in 1 .. n
            OBVIOUS
        <3>2. ~(m <= i)
            BY <3>1
        <3> QED BY <3>1, <3>2
    <2> HIDE DEF T
    <2> QED BY <2>1, <2>2
<1>4. Cardinality(1 .. m - 1) = (m - 1) - 1 + 1
    BY CountTo
<1> QED
    BY <1>3, <1>4

-----------------------------------------------------------------------------
(***************************************************************************)
(* The k-th element of a set of positions                                  *)
(***************************************************************************)
Rank(S, i) == Cardinality({j \in S : j <= i})

\* The rank of an element lies between 1 and the number of elements.
LEMMA RankType ==
    ASSUME NEW n \in Nat, NEW S, S \subseteq 1 .. n, NEW i \in S
    PROVE  /\ IsFiniteSet(S) /\ Cardinality(S) \in Nat
           /\ IsFiniteSet({j \in S : j <= i})
           /\ Rank(S, i) \in 1 .. Cardinality(S)
<1> DEFINE T == {j \in S : j <= i}
<1>1. IsFiniteSet(1 .. n)
    BY CountTo
<1>2. S \in SUBSET (1 .. n)
    OBVIOUS
<1>3. IsFiniteSet(S)
    BY <1>1, <1>2, FS_Subset
<1>4. T \in SUBSET S /\ T # {}
    <2>1. i \in T
        OBVIOUS
    <2> QED BY <2>1
<1>5. IsFiniteSet(T) /\ Cardinality(T) <= Cardinality(S)
    BY <1>3, <1>4, FS_Subset
<1>6. Cardinality(S) \in Nat /\ Cardinality(T) \in Nat
    BY <1>3, <1>5, FS_CardinalityType
<1>7. Cardinality(T) # 0
    BY <1>4, <1>5, FS_EmptySet
<1> QED
    BY <1>3, <1>5, <1>6, <1>7 DEF Rank

\* A later element has a higher rank.
LEMMA RankGrows ==
    ASSUME NEW n \in Nat, NEW S, S \subseteq 1 .. n, NEW i \in S, NEW k \in S, i < k
    PROVE  Rank(S, i) < Rank(S, k)
<1> DEFINE T == {j \in S : j <= i}
           U == {j \in S : j <= k}
<1>0. \A j \in S : j \in Nat
    OBVIOUS
<1>1. IsFiniteSet(T) /\ IsFiniteSet(U) /\ Cardinality(T) \in Nat /\ Cardinality(U) \in Nat
    BY RankType, FS_CardinalityType
<1>2. T \in SUBSET U /\ k \in U /\ k \notin T
    <2>1. \A j \in S : j <= i => j <= k
        BY <1>0
    <2>2. k <= k /\ ~(k <= i)
        BY <1>0
    <2> QED BY ONLY <2>1, <2>2, k \in S
<1>3. Cardinality(T) <= Cardinality(U) /\ (Cardinality(U) = Cardinality(T) => U = T)
    BY <1>1, <1>2, FS_Subset
<1>4. Cardinality(T) < Cardinality(U)
    BY <1>1, <1>2, <1>3
<1> QED
    BY <1>4 DEF Rank

\* Every rank up to the number of elements is taken: the least one that is not
\* would follow on the element with the rank before it.
LEMMA RankTaken ==
    ASSUME NEW n \in Nat, NEW S, S \subseteq 1 .. n, NEW k \in 1 .. Cardinality(S)
    PROVE  \E i \in S : Rank(S, i) = k
<1> DEFINE B == {m \in 1 .. Cardinality(S) : \A i \in S : Rank(S, i) # m}
<1> SUFFICES ASSUME B # {} PROVE FALSE
    OBVIOUS
<1>0. IsFiniteSet(S) /\ Cardinality(S) \in Nat
    <2>1. IsFiniteSet(1 .. n) /\ S \in SUBSET (1 .. n)
        BY CountTo
    <2>2. IsFiniteSet(S)
        BY <2>1, FS_Subset
    <2> QED BY <2>2, FS_CardinalityType
<1>t. \A j \in S : j \in Nat
    OBVIOUS
<1>1. B \subseteq Nat
    BY <1>0
<1>2. PICK m \in B : \A y \in B : m <= y
    <2> HIDE DEF B
    <2> QED BY <1>1, LeastOf
<1>3. m \in 1 .. Cardinality(S) /\ \A i \in S : Rank(S, i) # m
    OBVIOUS
<1>4. CASE m = 1
    <2>1. S # {}
        BY <1>0, <1>3, FS_EmptySet
    <2>2. PICK x \in S : \A y \in S : x <= y
        <3>1. S \subseteq Nat
            BY <1>t
        <3> QED BY <2>1, <3>1, LeastOf
    <2>3. {j \in S : j <= x} = {x}
        <3>1. \A j \in S : j <= x <=> j = x
            BY <1>t, <2>2
        <3> QED BY ONLY <3>1, x \in S
    <2>4. Rank(S, x) = 1
        BY <2>3, FS_Singleton DEF Rank
    <2> QED BY <1>3, <1>4, <2>4
<1>5. CASE m > 1
    <2>1. m - 1 \in 1 .. Cardinality(S) /\ m - 1 \notin B
        BY <1>0, <1>2, <1>3, <1>5
    <2>2. PICK i \in S : Rank(S, i) = m - 1
        BY <2>1
    <2> DEFINE T == {j \in S : j <= i}
               U == {j \in S : j > i}
    <2>3. U # {}
        <3> SUFFICES ASSUME U = {} PROVE FALSE
            OBVIOUS
        <3>1. T = S
            <4>1. \A j \in S : ~(j > i)
                OBVIOUS
            <4>2. \A j \in S : j <= i
                BY <1>t, <4>1
            <4> QED BY ONLY <4>2
        <3>2. Cardinality(S) = m - 1
            BY <2>2, <3>1 DEF Rank
        <3> QED BY <1>0, <1>3, <3>2
    <2>4. PICK x \in U : \A y \in U : x <= y
        <3>1. U \subseteq Nat
            BY <1>t
        <3> HIDE DEF U
        <3> QED BY <2>3, <3>1, LeastOf
    <2>5. {j \in S : j <= x} = T \cup {x} /\ x \notin T
        <3>1. \A j \in S : j <= x <=> j <= i \/ j = x
            <4> SUFFICES ASSUME NEW j \in S PROVE j <= x <=> j <= i \/ j = x
                OBVIOUS
            <4>1. i \in Nat /\ j \in Nat /\ x \in Nat /\ i < x
                BY <1>t, <2>4
            <4>2. j > i => x <= j
                BY <2>4
            <4> QED BY <4>1, <4>2
        <3>2. x \in S /\ ~(x <= i)
            BY <1>t, <2>4
        <3> QED BY ONLY <3>1, <3>2
    <2>6. IsFiniteSet(T)
        BY RankType
    <2>7. Cardinality(T \cup {x}) = Cardinality(T) + 1
        BY <2>5, <2>6, FS_AddElement
    <2>8. Rank(S, x) = (m - 1) + 1
        BY <2>2, <2>5, <2>7 DEF Rank
    <2> QED BY <1>0, <1>3, <2>4, <2>8
<1> QED
    BY <1>0, <1>3, <1>4, <1>5

\* Nth lists the elements of S in order.
LEMMA NthOf ==
    ASSUME NEW n \in Nat, NEW S, S \subseteq 1 .. n, NEW k \in 1 .. Cardinality(S)
    PROVE  Nth(S, k) \in S /\ Rank(S, Nth(S, k)) = k
<1>1. \E i \in S : Rank(S, i) = k
    BY RankTaken
<1> QED
    BY <1>1 DEF Nth, Rank

\* An element is the one that its rank names.
LEMMA NthOfRank ==
    ASSUME NEW n \in Nat, NEW S, S \subseteq 1 .. n, NEW i \in S
    PROVE  Rank(S, i) \in 1 .. Cardinality(S) /\ Nth(S, Rank(S, i)) = i
<1>1. Rank(S, i) \in 1 .. Cardinality(S)
    BY RankType
<1> PICK k \in 1 .. Cardinality(S) : k = Rank(S, i)
    BY <1>1
<1>2. Nth(S, k) \in S /\ Rank(S, Nth(S, k)) = k
    BY NthOf
<1> PICK x \in S : x = Nth(S, k)
    BY <1>2
<1>3. x = i
    <2>1. CASE x < i
        <3>1. Rank(S, x) < Rank(S, i)
            BY <2>1, RankGrows
        <3> QED BY <1>2, <3>1
    <2>2. CASE i < x
        <3>1. Rank(S, i) < Rank(S, x)
            BY <2>2, RankGrows
        <3> QED BY <1>2, <3>1
    <2>3. x \in Nat /\ i \in Nat
        OBVIOUS
    <2> QED BY <2>1, <2>2, <2>3
<1> QED
    BY <1>1, <1>3

\* Nth names later elements by higher numbers.
LEMMA NthGrows ==
    ASSUME NEW n \in Nat, NEW S, S \subseteq 1 .. n,
           NEW k \in 1 .. Cardinality(S), NEW m \in 1 .. Cardinality(S), k < m
    PROVE  Nth(S, k) < Nth(S, m)
<1>1. /\ Nth(S, k) \in S /\ Rank(S, Nth(S, k)) = k
      /\ Nth(S, m) \in S /\ Rank(S, Nth(S, m)) = m
    BY NthOf
<1> PICK x \in S, y \in S : x = Nth(S, k) /\ y = Nth(S, m)
    BY <1>1
<1>2. Rank(S, x) < Rank(S, y)
    <2>1. Cardinality(S) \in Nat
        BY RankType
    <2> QED BY <1>1, <2>1
<1>3. CASE y < x
    <2>1. Rank(S, y) < Rank(S, x)
        BY <1>3, RankGrows
    <2> QED BY <1>1, <1>2, <2>1
<1>4. CASE y = x
    BY <1>1, <1>4
<1>5. x \in Nat /\ y \in Nat
    OBVIOUS
<1> QED
    BY <1>3, <1>4, <1>5

-----------------------------------------------------------------------------
(***************************************************************************)
(* coalesce()                                                              *)
(***************************************************************************)
Hole == [off : Nat, size : Nat \ {0}]

InOrder(hs) == \A i, j \in DOMAIN hs : i < j => End(hs[i]) <= hs[j].off
Apart(hs) == \A i, j \in DOMAIN hs : i < j => End(hs[i]) < hs[j].off

\* The arithmetic of one hole.
LEMMA HoleFacts ==
    ASSUME NEW h \in Hole
    PROVE  /\ h.off \in Nat /\ h.size \in Nat \ {0}
           /\ End(h) \in Nat /\ h.off < End(h) /\ End(h) = h.off + h.size
           /\ \A x : x \in Span(h.off, h.size) <=> x \in Int /\ h.off <= x /\ x < End(h)
<1>1. h.off \in Nat /\ h.size \in Nat \ {0}
    BY DEF Hole
<1> PICK a \in Nat, b \in Nat \ {0} : a = h.off /\ b = h.size
    BY <1>1
<1>2. End(h) = a + b /\ Span(h.off, h.size) = a .. (a + b - 1)
    BY DEF End, Span
<1>3. \A x : x \in a .. (a + b - 1) <=> x \in Int /\ a <= x /\ x < a + b
    OBVIOUS
<1> QED
    BY <1>2, <1>3

\* A byte is covered if some hole covers it.
LEMMA BytesAre ==
    ASSUME NEW hs
    PROVE  \A x : x \in BytesOf(hs) <=> \E i \in DOMAIN hs : x \in Span(hs[i].off, hs[i].size)
  BY DEF BytesOf

\* The last position of the k-th of the groups that the starts S cut 1 .. n into.
LastOf(S, n, k) == IF k = Cardinality(S) THEN n ELSE Nth(S, k + 1) - 1

\* A group begins at a start, ends inside the list and holds no other start.
LEMMA GroupBounds ==
    ASSUME NEW n \in Nat, NEW S, S \subseteq 1 .. n, NEW k \in 1 .. Cardinality(S)
    PROVE  /\ Nth(S, k) \in S /\ Nth(S, k) \in 1 .. n
           /\ LastOf(S, n, k) \in Nth(S, k) .. n
           /\ \A i \in Nth(S, k) + 1 .. LastOf(S, n, k) : i \notin S
<1>1. Nth(S, k) \in S /\ Rank(S, Nth(S, k)) = k
    BY NthOf
<1> PICK a \in S : a = Nth(S, k)
    BY <1>1
<1>2. Cardinality(S) \in Nat /\ a \in 1 .. n /\ Rank(S, a) = k
    BY <1>1, RankType
<1> PICK c \in Nat : c = Cardinality(S)
    BY <1>2
<1>3. CASE k = c
    <2>1. LastOf(S, n, k) = n
        BY <1>3 DEF LastOf
    <2>2. ASSUME NEW i \in a + 1 .. n, i \in S PROVE FALSE
        <3>1. a < i
            BY <1>2
        <3>2. Rank(S, a) < Rank(S, i) /\ Rank(S, i) \in 1 .. Cardinality(S)
            BY <2>2, <3>1, RankGrows, RankType
        <3> QED BY <1>2, <1>3, <3>2
    <2> QED BY <1>2, <2>1, <2>2
<1>4. CASE k # c
    <2>1. k + 1 \in 1 .. Cardinality(S) /\ k < k + 1
        BY <1>4
    <2> PICK m \in 1 .. Cardinality(S) : m = k + 1
        BY <2>1
    <2>2. Nth(S, m) \in S /\ Rank(S, Nth(S, m)) = m /\ Nth(S, k) < Nth(S, m)
        <3>1. k < m
            BY <1>2
        <3>2. Nth(S, k) < Nth(S, m)
            BY <3>1, NthGrows
        <3> QED BY <3>2, NthOf
    <2> PICK b \in S : b = Nth(S, m)
        BY <2>2
    <2>3. LastOf(S, n, k) = b - 1 /\ b \in 1 .. n /\ a < b
        BY <1>4, <2>2 DEF LastOf
    <2>4. ASSUME NEW i \in a + 1 .. b - 1, i \in S PROVE FALSE
        <3>1. a < i /\ i < b
            BY <1>2, <2>3
        <3>2. Rank(S, a) < Rank(S, i)
            BY <2>4, <3>1, RankGrows
        <3>3. Rank(S, i) < Rank(S, b)
            BY <2>4, <3>1, RankGrows
        <3>4. Rank(S, i) \in 1 .. Cardinality(S)
            BY <2>4, RankType
        <3> QED BY <1>2, <2>2, <3>2, <3>3, <3>4
    <2> QED BY <1>2, <2>3, <2>4
<1> QED
    BY <1>3, <1>4

\* A group ends before every later one begins.
LEMMA GroupsApart ==
    ASSUME NEW n \in Nat, NEW S, S \subseteq 1 .. n,
           NEW k \in 1 .. Cardinality(S), NEW m \in 1 .. Cardinality(S), k < m
    PROVE  LastOf(S, n, k) < Nth(S, m)
<1>1. Cardinality(S) \in Nat
    <2>1. Nth(S, k) \in S
        BY NthOf
    <2> QED BY <2>1, RankType
<1>2. k + 1 \in 1 .. Cardinality(S) /\ k # Cardinality(S)
    BY <1>1
<1> PICK j \in 1 .. Cardinality(S) : j = k + 1
    BY <1>2
<1>3. LastOf(S, n, k) = Nth(S, j) - 1
    BY <1>2 DEF LastOf
<1>4. Nth(S, j) \in 1 .. n /\ Nth(S, m) \in 1 .. n
    BY GroupBounds
<1>5. Nth(S, j) <= Nth(S, m)
    <2>1. CASE j = m
        BY <1>4, <2>1
    <2>2. CASE j < m
        <3>1. Nth(S, j) < Nth(S, m)
            BY <2>2, NthGrows
        <3> QED BY <1>4, <3>1
    <2> QED BY <1>1, <2>1, <2>2
<1> QED
    BY <1>3, <1>4, <1>5

\* Every position lies in a group if the first one is a start.
LEMMA GroupOf ==
    ASSUME NEW n \in Nat, NEW S, S \subseteq 1 .. n, 1 \in S, NEW i \in 1 .. n
    PROVE  \E k \in 1 .. Cardinality(S) : i \in Nth(S, k) .. LastOf(S, n, k)
<1> DEFINE T == {j \in S : j <= i}
<1>1. T \subseteq 0 .. n /\ 1 \in T
    <2>1. \A j \in S : j \in 0 .. n
        OBVIOUS
    <2>2. 1 <= i
        OBVIOUS
    <2> QED BY ONLY <2>1, <2>2, 1 \in S
<1>2. PICK a \in T : \A y \in T : y <= a
    <2> HIDE DEF T
    <2> QED BY <1>1, GreatestOf
<1>3. a \in S /\ a <= i /\ a \in 1 .. n
    OBVIOUS
<1>4. Rank(S, a) \in 1 .. Cardinality(S) /\ Nth(S, Rank(S, a)) = a /\ Cardinality(S) \in Nat
    BY <1>3, NthOfRank, RankType
<1> PICK k \in 1 .. Cardinality(S) : k = Rank(S, a)
    BY <1>4
<1>5. Nth(S, k) = a /\ LastOf(S, n, k) \in a .. n
    BY <1>4, GroupBounds
<1>6. i <= LastOf(S, n, k)
    <2>1. CASE k = Cardinality(S)
        BY <2>1 DEF LastOf
    <2>2. CASE k # Cardinality(S)
        <3> PICK m \in 1 .. Cardinality(S) : m = k + 1
            BY <1>4, <2>2
        <3>0. k < m
            BY <1>4
        <3>1. Nth(S, m) \in S /\ Nth(S, k) < Nth(S, m) /\ LastOf(S, n, k) = Nth(S, m) - 1
            <4>1. Nth(S, m) \in S
                BY NthOf
            <4>2. Nth(S, k) < Nth(S, m)
                BY <3>0, NthGrows
            <4> QED BY <2>2, <4>1, <4>2 DEF LastOf
        <3> PICK b \in S : b = Nth(S, m)
            BY <3>1
        <3>2. ~(b <= i)
            <4> SUFFICES ASSUME b <= i PROVE FALSE
                OBVIOUS
            <4>1. b \in T
                OBVIOUS
            <4>2. b <= a /\ a < b
                BY <1>2, <1>5, <3>1, <4>1
            <4>3. a \in Nat /\ b \in Nat
                OBVIOUS
            <4> QED BY ONLY <4>2, <4>3
        <3>3. b \in Nat
            OBVIOUS
        <3> QED BY <3>1, <3>2, <3>3
    <2> QED BY <2>1, <2>2
<1> QED
    BY <1>3, <1>5, <1>6

\* On holes in order, none overlapping another, coalesce() leaves holes apart
\* that cover the same bytes and end no higher.
LEMMA CoalesceHoles ==
    ASSUME NEW hs \in Seq(Hole), Len(hs) > 0, InOrder(hs)
    PROVE  /\ Coalesce(hs) \in Seq(Hole)
           /\ Apart(Coalesce(hs))
           /\ BytesOf(Coalesce(hs)) = BytesOf(hs)
           /\ \A h \in Nat : (\A i \in DOMAIN hs : End(hs[i]) <= h) =>
                             (\A k \in DOMAIN Coalesce(hs) : End(Coalesce(hs)[k]) <= h)
<1> PICK n \in Nat : n = Len(hs)
    OBVIOUS
<1> PICK S : S = Starts(hs)
    OBVIOUS
<1> PICK r : r = Coalesce(hs)
    OBVIOUS
<1>1. n > 0 /\ DOMAIN hs = 1 .. n
    OBVIOUS
<1>2. S \subseteq 1 .. n /\ 1 \in S
    BY <1>1 DEF Starts
<1>3. Cardinality(S) \in Nat
    BY <1>2, RankType
<1> PICK c \in Nat : c = Cardinality(S)
    BY <1>3
<1>4. \A i \in 1 .. n : /\ hs[i] \in Hole /\ hs[i].off \in Nat /\ hs[i].size \in Nat \ {0}
                        /\ End(hs[i]) \in Nat /\ hs[i].off < End(hs[i])
    <2> SUFFICES ASSUME NEW i \in 1 .. n
                 PROVE  /\ hs[i] \in Hole /\ hs[i].off \in Nat /\ hs[i].size \in Nat \ {0}
                        /\ End(hs[i]) \in Nat /\ hs[i].off < End(hs[i])
        OBVIOUS
    <2>1. hs[i] \in Hole
        BY <1>1
    <2> QED BY <2>1, HoleFacts
<1>5. /\ DOMAIN r = 1 .. c
      /\ \A k \in 1 .. c : /\ r[k].off = hs[Nth(S, k)].off
                           /\ r[k].size = End(hs[LastOf(S, n, k)]) - hs[Nth(S, k)].off
                           /\ r[k] = [off |-> r[k].off, size |-> r[k].size]
    BY DEF Coalesce, LastOf
<1>6. \A k \in 1 .. c : /\ Nth(S, k) \in 1 .. n
                        /\ LastOf(S, n, k) \in Nth(S, k) .. n
                        /\ \A i \in Nth(S, k) + 1 .. LastOf(S, n, k) : i \notin S
    BY <1>2, GroupBounds
<1>7. \A k, m \in 1 .. c : k < m => LastOf(S, n, k) < Nth(S, m)
    BY <1>2, GroupsApart
<1>8. \A i \in 1 .. n : \E k \in 1 .. c : i \in Nth(S, k) .. LastOf(S, n, k)
    BY <1>2, GroupOf
<1>9. \A i \in 2 .. n : i \notin S <=> End(hs[i - 1]) = hs[i].off
    BY <1>1 DEF Starts
<1>10. \A i, j \in 1 .. n : i < j => End(hs[i]) <= hs[j].off
    BY <1>1 DEF InOrder
<1>11. \A i, j \in 1 .. n : i <= j => hs[i].off <= hs[j].off /\ End(hs[i]) <= End(hs[j])
    BY <1>4, <1>10
<1>12. ASSUME NEW k \in 1 .. c
       PROVE  /\ r[k] \in Hole
              /\ r[k].off \in Nat /\ r[k].size \in Nat \ {0}
              /\ End(r[k]) = End(hs[LastOf(S, n, k)])
    <2> PICK a \in 1 .. n : a = Nth(S, k)
        BY <1>6
    <2> PICK b \in a .. n : b = LastOf(S, n, k)
        BY <1>6
    <2>1. r[k].off = hs[a].off /\ r[k].size = End(hs[b]) - hs[a].off
        BY <1>5
    <2>2. b \in 1 .. n /\ a <= b
        OBVIOUS
    <2>3. hs[a].off \in Nat /\ End(hs[b]) \in Nat /\ hs[a].off < End(hs[b])
        BY <1>4, <1>11, <2>2
    <2>4. r[k].off \in Nat /\ r[k].size \in Nat \ {0}
        BY <2>1, <2>3
    <2>5. r[k] \in Hole
        BY <1>5, <2>4 DEF Hole
    <2>6. End(r[k]) = End(hs[b])
        BY <2>1, <2>3 DEF End
    <2> QED BY <2>4, <2>5, <2>6
<1>13. r \in Seq(Hole)
    <2>1. r \in [1 .. c -> Hole]
        BY <1>5, <1>12 DEF Coalesce
    <2> QED BY <2>1
<1>14. Apart(r)
    <2> SUFFICES ASSUME NEW k \in 1 .. c, NEW m \in 1 .. c, k < m
                 PROVE  End(r[k]) < r[m].off
        BY <1>5 DEF Apart
    <2> PICK b \in 1 .. n : b = LastOf(S, n, k)
        BY <1>6
    <2> PICK a \in 1 .. n : a = Nth(S, m)
        BY <1>6
    <2>1. b <= a - 1 /\ a - 1 \in 1 .. n /\ a \in 2 .. n /\ a - 1 < a
        BY <1>7
    <2>2. a \in S
        BY <1>2, GroupBounds
    <2>3. End(hs[a - 1]) <= hs[a].off /\ End(hs[a - 1]) # hs[a].off
        BY <1>9, <1>10, <2>1, <2>2
    <2>4. End(hs[b]) <= End(hs[a - 1])
        BY <1>11, <2>1
    <2>5. End(hs[b]) \in Nat /\ End(hs[a - 1]) \in Nat /\ hs[a].off \in Nat
        BY <1>4, <2>1
    <2>6. End(hs[b]) < hs[a].off
        BY ONLY <2>3, <2>4, <2>5
    <2> QED BY <1>5, <1>12, <2>6
<1>15. ASSUME NEW i \in 1 .. n, NEW x \in Span(hs[i].off, hs[i].size)
       PROVE  \E k \in 1 .. c : x \in Span(r[k].off, r[k].size)
    <2>1. PICK k \in 1 .. c : i \in Nth(S, k) .. LastOf(S, n, k)
        BY <1>8
    <2> PICK a \in 1 .. n, b \in 1 .. n : a = Nth(S, k) /\ b = LastOf(S, n, k)
        BY <1>6
    <2>2. a <= i /\ i <= b
        BY <2>1
    <2>3. hs[a].off <= hs[i].off /\ End(hs[i]) <= End(hs[b])
        BY <1>11, <2>2
    <2>4. x \in Int /\ hs[i].off <= x /\ x < End(hs[i])
        BY <1>4, HoleFacts
    <2>5. r[k].off <= x /\ x < End(r[k])
        BY <1>4, <1>5, <1>12, <2>3, <2>4
    <2>6. x \in Span(r[k].off, r[k].size)
        BY <1>12, <2>4, <2>5, HoleFacts
    <2> QED BY <2>6
<1>16. ASSUME NEW k \in 1 .. c, NEW x \in Span(r[k].off, r[k].size)
       PROVE  \E i \in 1 .. n : x \in Span(hs[i].off, hs[i].size)
    <2> PICK a \in 1 .. n : a = Nth(S, k)
        BY <1>6
    <2> PICK b \in a .. n : b = LastOf(S, n, k)
        BY <1>6
    <2>1. x \in Int /\ hs[a].off <= x /\ x < End(hs[b])
        <3>1. x \in Int /\ r[k].off <= x /\ x < End(r[k])
            BY <1>12, HoleFacts
        <3> QED BY <1>5, <1>12, <3>1
    <2> DEFINE T == {i \in a .. b : hs[i].off <= x}
    <2>2. T \subseteq 0 .. n /\ a \in T
        BY <2>1
    <2>3. PICK i \in T : \A y \in T : y <= i
        <3> HIDE DEF T
        <3> QED BY <2>2, GreatestOf
    <2>4. i \in a .. b /\ hs[i].off <= x /\ i \in 1 .. n
        OBVIOUS
    <2>5. x < End(hs[i])
        <3>1. CASE i = b
            BY <2>1, <3>1
        <3>2. CASE i # b
            <4>1. i + 1 \in a + 1 .. b /\ i + 1 \in 2 .. n /\ (i + 1) - 1 = i
                BY <2>4, <3>2
            <4>2. End(hs[i]) = hs[i + 1].off
                BY <1>6, <1>9, <4>1
            <4>3. i + 1 \notin T
                BY <2>3, <2>4
            <4>4. ~(hs[i + 1].off <= x)
                BY <4>1, <4>3
            <4>5. hs[i + 1].off \in Nat
                BY <1>4, <4>1
            <4> QED BY <2>1, <4>2, <4>4, <4>5
        <3> QED BY <3>1, <3>2
    <2>6. x \in Span(hs[i].off, hs[i].size)
        BY <1>4, <2>1, <2>4, <2>5, HoleFacts
    <2> QED BY <2>4, <2>6
<1>17. BytesOf(r) = BytesOf(hs)
    <2>1. \A x : x \in BytesOf(hs) => x \in BytesOf(r)
        BY <1>1, <1>5, <1>15, BytesAre
    <2>2. \A x : x \in BytesOf(r) => x \in BytesOf(hs)
        BY <1>1, <1>5, <1>16, BytesAre
    <2> QED BY <2>1, <2>2
<1>18. ASSUME NEW h \in Nat, \A i \in DOMAIN hs : End(hs[i]) <= h, NEW k \in DOMAIN r
       PROVE  End(r[k]) <= h
    BY <1>1, <1>5, <1>6, <1>12, <1>18
<1> QED
    BY <1>13, <1>14, <1>17, <1>18

-----------------------------------------------------------------------------
(***************************************************************************)
(* Inserting a hole and taking one out                                     *)
(***************************************************************************)
LEMMA ConcatIs ==
    ASSUME NEW T, NEW s \in Seq(T), NEW t \in Seq(T)
    PROVE  /\ s \o t \in Seq(T) /\ Len(s \o t) = Len(s) + Len(t)
           /\ \A i \in 1 .. Len(s) : (s \o t)[i] = s[i]
           /\ \A i \in Len(s) + 1 .. Len(s) + Len(t) : (s \o t)[i] = t[i - Len(s)]
<1>1. /\ s \o t \in Seq(T) /\ Len(s \o t) = Len(s) + Len(t)
      /\ \A i \in 1 .. Len(s) + Len(t) : (s \o t)[i] = IF i <= Len(s) THEN s[i] ELSE t[i - Len(s)]
    BY ConcatProperties
<1>2. Len(s) \in Nat /\ Len(t) \in Nat
    OBVIOUS
<1>3. \A i \in 1 .. Len(s) : i \in 1 .. Len(s) + Len(t) /\ i <= Len(s)
    BY <1>2
<1>4. \A i \in Len(s) + 1 .. Len(s) + Len(t) : i \in 1 .. Len(s) + Len(t) /\ ~(i <= Len(s))
    BY <1>2
<1> QED
    BY <1>1, <1>3, <1>4

\* InsertAt shifts the tail by one.
LEMMA InsertAtIs ==
    ASSUME NEW hs \in Seq(Hole), NEW b \in Hole, NEW p \in 1 .. Len(hs) + 1
    PROVE  /\ InsertAt(hs, p, b) \in Seq(Hole) /\ Len(InsertAt(hs, p, b)) = Len(hs) + 1
           /\ \A i \in 1 .. p - 1 : InsertAt(hs, p, b)[i] = hs[i]
           /\ InsertAt(hs, p, b)[p] = b
           /\ \A i \in p + 1 .. Len(hs) + 1 : InsertAt(hs, p, b)[i] = hs[i - 1]
<1> PICK q \in 0 .. Len(hs) : q = p - 1 /\ p = q + 1
    OBVIOUS
<1> PICK n \in Nat : n = Len(hs)
    OBVIOUS
<1> PICK s, t : s = SubSeq(hs, 1, q) /\ t = SubSeq(hs, q + 1, n)
    OBVIOUS
<1>1. s \in Seq(Hole) /\ Len(s) = q /\ \A i \in 1 .. q : s[i] = hs[i]
    OBVIOUS
<1>2. t \in Seq(Hole) /\ Len(t) = n - q /\ \A i \in 1 .. n - q : t[i] = hs[i + q]
    OBVIOUS
<1>3. InsertAt(hs, q + 1, b) = s \o <<b>> \o t
    <2>1. (q + 1) - 1 = q
        OBVIOUS
    <2> QED BY <2>1 DEF InsertAt
<1> PICK u : u = s \o <<b>>
    OBVIOUS
<1>4. u \in Seq(Hole) /\ Len(u) = q + 1 /\ u[q + 1] = b /\ \A i \in 1 .. q : u[i] = hs[i]
    BY <1>1
<1> PICK g : g = u \o t
    OBVIOUS
<1>a. /\ g \in Seq(Hole) /\ Len(g) = Len(u) + Len(t)
      /\ \A i \in 1 .. Len(u) : g[i] = u[i]
      /\ \A i \in Len(u) + 1 .. Len(u) + Len(t) : g[i] = t[i - Len(u)]
    <2>1. u \in Seq(Hole) /\ t \in Seq(Hole)
        BY <1>2, <1>4
    <2> QED BY ONLY <2>1, g = u \o t, ConcatIs, Zenon
<1>5. g \in Seq(Hole) /\ Len(g) = n + 1
    <2>1. (q + 1) + (n - q) = n + 1
        OBVIOUS
    <2> QED BY <1>2, <1>4, <1>a, <2>1
<1>b. /\ \A i \in 1 .. q + 1 : g[i] = u[i]
      /\ \A i \in q + 2 .. n + 1 : g[i] = t[i - (q + 1)]
    <2>1. (q + 1) + 1 = q + 2 /\ (q + 1) + (n - q) = n + 1
        OBVIOUS
    <2>2. Len(u) = q + 1 /\ Len(t) = n - q
        BY <1>2, <1>4
    <2> QED BY ONLY <1>a, <2>1, <2>2
<1>6. g[q + 1] = b /\ \A i \in 1 .. q : g[i] = hs[i]
    <2>1. q + 1 \in 1 .. q + 1 /\ \A i \in 1 .. q : i \in 1 .. q + 1
        OBVIOUS
    <2> QED BY ONLY <1>4, <1>b, <2>1
<1>7. \A i \in q + 2 .. n + 1 : g[i] = hs[i - 1]
    <2> SUFFICES ASSUME NEW i \in q + 2 .. n + 1 PROVE g[i] = hs[i - 1]
        OBVIOUS
    <2>1. g[i] = t[i - (q + 1)]
        BY <1>b
    <2>2. i - (q + 1) \in 1 .. n - q /\ (i - (q + 1)) + q = i - 1
        OBVIOUS
    <2> QED BY <1>2, <2>1, <2>2
<1>8. g = InsertAt(hs, p, b)
    BY <1>3
<1>9. p + 1 = q + 2
    OBVIOUS
<1> QED
    BY <1>5, <1>6, <1>7, <1>8, <1>9

\* RemoveAt closes the gap.
LEMMA RemoveAtIs ==
    ASSUME NEW hs \in Seq(Hole), NEW q \in 1 .. Len(hs)
    PROVE  /\ RemoveAt(hs, q) \in Seq(Hole) /\ Len(RemoveAt(hs, q)) = Len(hs) - 1
           /\ \A i \in 1 .. q - 1 : RemoveAt(hs, q)[i] = hs[i]
           /\ \A i \in q .. Len(hs) - 1 : RemoveAt(hs, q)[i] = hs[i + 1]
<1> PICK n \in Nat : n = Len(hs)
    OBVIOUS
<1> PICK s, t : s = SubSeq(hs, 1, q - 1) /\ t = SubSeq(hs, q + 1, n)
    OBVIOUS
<1>1. s \in Seq(Hole) /\ Len(s) = q - 1 /\ \A i \in 1 .. q - 1 : s[i] = hs[i]
    OBVIOUS
<1>2. t \in Seq(Hole) /\ Len(t) = n - q /\ \A i \in 1 .. n - q : t[i] = hs[i + q]
    OBVIOUS
<1> PICK g : g = s \o t
    OBVIOUS
<1>3. g = RemoveAt(hs, q)
    BY DEF RemoveAt
<1>a. /\ g \in Seq(Hole) /\ Len(g) = Len(s) + Len(t)
      /\ \A i \in 1 .. Len(s) : g[i] = s[i]
      /\ \A i \in Len(s) + 1 .. Len(s) + Len(t) : g[i] = t[i - Len(s)]
    <2>1. s \in Seq(Hole) /\ t \in Seq(Hole)
        BY <1>1, <1>2
    <2> QED BY ONLY <2>1, g = s \o t, ConcatIs, Zenon
<1>4. g \in Seq(Hole) /\ Len(g) = n - 1 /\ \A i \in 1 .. q - 1 : g[i] = hs[i]
    <2>1. (q - 1) + (n - q) = n - 1
        OBVIOUS
    <2> QED BY <1>1, <1>2, <1>a, <2>1
<1>5. \A i \in q .. n - 1 : g[i] = hs[i + 1]
    <2> SUFFICES ASSUME NEW i \in q .. n - 1 PROVE g[i] = hs[i + 1]
        OBVIOUS
    <2>0. i \in (q - 1) + 1 .. (q - 1) + (n - q)
        OBVIOUS
    <2>1. g[i] = t[i - (q - 1)]
        BY <1>1, <1>2, <1>a, <2>0
    <2>2. i - (q - 1) \in 1 .. n - q /\ (i - (q - 1)) + q = i + 1
        OBVIOUS
    <2> QED BY <1>2, <2>1, <2>2
<1> QED
    BY <1>3, <1>4, <1>5

\* free() inserts a range that no hole covers so that the list stays in order.
LEMMA InsertHoles ==
    ASSUME NEW hs \in Seq(Hole), Apart(hs), NEW b \in Hole,
           Span(b.off, b.size) \cap BytesOf(hs) = {}
    PROVE  /\ Insert(hs, b) \in Seq(Hole) /\ Len(Insert(hs, b)) > 0
           /\ InOrder(Insert(hs, b))
           /\ BytesOf(Insert(hs, b)) = BytesOf(hs) \cup Span(b.off, b.size)
           /\ \A i \in DOMAIN Insert(hs, b) : \/ Insert(hs, b)[i] = b
                                              \/ \E j \in DOMAIN hs : Insert(hs, b)[i] = hs[j]
<1> PICK n \in Nat : n = Len(hs)
    OBVIOUS
<1> DEFINE P == {i \in DOMAIN hs : hs[i].off < b.off}
<1>1. DOMAIN hs = 1 .. n
    OBVIOUS
<1>2. \A i \in 1 .. n : /\ hs[i] \in Hole /\ hs[i].off \in Nat
                        /\ End(hs[i]) \in Nat /\ hs[i].off < End(hs[i])
    <2> SUFFICES ASSUME NEW i \in 1 .. n
                 PROVE  /\ hs[i] \in Hole /\ hs[i].off \in Nat
                        /\ End(hs[i]) \in Nat /\ hs[i].off < End(hs[i])
        OBVIOUS
    <2>1. hs[i] \in Hole
        BY <1>1
    <2> QED BY <2>1, HoleFacts
<1>3. b.off \in Nat /\ End(b) \in Nat /\ b.off < End(b)
    BY HoleFacts
<1>4. \A i, j \in 1 .. n : i < j => hs[i].off < hs[j].off /\ End(hs[i]) < hs[j].off
    <2>1. \A i, j \in 1 .. n : i < j => End(hs[i]) < hs[j].off
        BY <1>1 DEF Apart
    <2> QED BY <1>2, <2>1
<1>5. Cardinality(P) \in 0 .. n /\ P = 1 .. Cardinality(P)
    <2>1. P \subseteq 1 .. n
        BY <1>1
    <2>2. ASSUME NEW i \in P, NEW j \in 1 .. n, j <= i PROVE j \in P
        <3>1. CASE j = i
            BY <3>1
        <3>2. CASE j < i
            <4>1. i \in 1 .. n /\ hs[i].off < b.off
                BY <1>1
            <4>2. hs[j].off < hs[i].off
                BY <1>4, <3>2, <4>1
            <4> QED BY <1>1, <1>2, <1>3, <4>1, <4>2
        <3>3. i \in Nat
            BY <2>1
        <3> QED BY <2>2, <3>1, <3>2, <3>3
    <2> HIDE DEF P
    <2> QED BY <2>1, <2>2, Prefix
<1> PICK q \in 0 .. n : q = Cardinality(P)
    BY <1>5
<1>6. \A i \in 1 .. n : i <= q <=> hs[i].off < b.off
    <2> SUFFICES ASSUME NEW i \in 1 .. n PROVE i <= q <=> hs[i].off < b.off
        OBVIOUS
    <2>1. i \in P <=> hs[i].off < b.off
        BY <1>1
    <2>2. i \in P <=> i \in 1 .. q
        BY <1>5
    <2> HIDE DEF P
    <2> QED BY <2>1, <2>2
<1> PICK g : g = Insert(hs, b)
    OBVIOUS
<1>7. g = InsertAt(hs, q + 1, b)
    <2>1. LowerBound(hs, b.off) = 1 + q
        BY DEF LowerBound
    <2>2. 1 + q = q + 1
        OBVIOUS
    <2> QED BY <2>1, <2>2 DEF Insert
<1>8. /\ g \in Seq(Hole) /\ Len(g) = n + 1
      /\ \A i \in 1 .. q : g[i] = hs[i]
      /\ g[q + 1] = b
      /\ \A i \in q + 2 .. n + 1 : g[i] = hs[i - 1]
    <2>0. q + 1 \in 1 .. Len(hs) + 1
        OBVIOUS
    <2> PICK p \in 1 .. Len(hs) + 1 : p = q + 1
        BY ONLY <2>0
    <2>1. g = InsertAt(hs, p, b)
        BY <1>7
    <2>2. /\ g \in Seq(Hole) /\ Len(g) = Len(hs) + 1
          /\ \A i \in 1 .. p - 1 : g[i] = hs[i]
          /\ g[p] = b
          /\ \A i \in p + 1 .. Len(hs) + 1 : g[i] = hs[i - 1]
        <3>1. p \in 1 .. Len(hs) + 1 /\ hs \in Seq(Hole) /\ b \in Hole
            OBVIOUS
        <3> HIDE DEF P
        <3>2. InsertAt(hs, p, b) \in Seq(Hole) /\ Len(InsertAt(hs, p, b)) = Len(hs) + 1
            BY ONLY <3>1, InsertAtIs, Zenon
        <3>3. \A i \in 1 .. p - 1 : InsertAt(hs, p, b)[i] = hs[i]
            BY ONLY <3>1, InsertAtIs, Zenon
        <3>4. InsertAt(hs, p, b)[p] = b
            BY ONLY <3>1, InsertAtIs, Zenon
        <3>5. \A i \in p + 1 .. Len(hs) + 1 : InsertAt(hs, p, b)[i] = hs[i - 1]
            BY ONLY <3>1, InsertAtIs, Zenon
        <3> QED BY ONLY <2>1, <3>2, <3>3, <3>4, <3>5
    <2>3. p - 1 = q /\ p + 1 = q + 2
        OBVIOUS
    <2> QED BY ONLY <2>2, <2>3, n = Len(hs), p = q + 1
<1>9. DOMAIN g = 1 .. n + 1
    BY <1>8
<1>10. \A i \in 1 .. q : End(hs[i]) <= b.off
    <2> SUFFICES ASSUME NEW i \in 1 .. q, ~(End(hs[i]) <= b.off) PROVE FALSE
        OBVIOUS
    <2>1. i \in 1 .. n /\ hs[i].off < b.off
        BY <1>6
    <2>2. b.off \in Span(hs[i].off, hs[i].size)
        BY <1>2, <1>3, <2>1, HoleFacts
    <2>3. b.off \in Span(b.off, b.size)
        BY <1>3, HoleFacts
    <2>4. b.off \in BytesOf(hs)
        BY <1>1, <2>1, <2>2, BytesAre
    <2> QED BY <2>3, <2>4
<1>11. \A i \in q + 1 .. n : End(b) <= hs[i].off
    <2> SUFFICES ASSUME NEW i \in q + 1 .. n, ~(End(b) <= hs[i].off) PROVE FALSE
        OBVIOUS
    <2>1. i \in 1 .. n /\ b.off <= hs[i].off
        BY <1>2, <1>3, <1>6
    <2>2. hs[i].off \in Span(b.off, b.size)
        BY <1>2, <1>3, <2>1, HoleFacts
    <2>3. hs[i].off \in Span(hs[i].off, hs[i].size)
        BY <1>2, <2>1, HoleFacts
    <2>4. hs[i].off \in BytesOf(hs)
        BY <1>1, <2>1, <2>3, BytesAre
    <2> QED BY <2>2, <2>4
<1>12. InOrder(g)
    <2> SUFFICES ASSUME NEW i \in 1 .. n + 1, NEW j \in 1 .. n + 1, i < j
                 PROVE  End(g[i]) <= g[j].off
        BY <1>9 DEF InOrder
    <2>1. CASE j <= q
        <3>1. g[i] = hs[i] /\ g[j] = hs[j] /\ i \in 1 .. n /\ j \in 1 .. n
            BY <1>8, <2>1
        <3> QED BY <1>2, <1>4, <3>1
    <2>2. CASE j = q + 1
        <3>1. g[i] = hs[i] /\ g[j] = b /\ i \in 1 .. q
            BY <1>8, <2>2
        <3> QED BY <1>10, <3>1
    <2>3. CASE j > q + 1 /\ i = q + 1
        <3>1. g[i] = b /\ g[j] = hs[j - 1] /\ j - 1 \in q + 1 .. n
            BY <1>8, <2>3
        <3> QED BY <1>11, <3>1
    <2>4. CASE j > q + 1 /\ i <= q
        <3>1. g[i] = hs[i] /\ g[j] = hs[j - 1] /\ i \in 1 .. q /\ j - 1 \in q + 1 .. n
            BY <1>8, <2>4
        <3>2. End(hs[i]) <= b.off /\ End(b) <= hs[j - 1].off
            BY <1>10, <1>11, <3>1
        <3>3. End(hs[i]) \in Nat /\ hs[j - 1].off \in Nat
            BY <1>2, <3>1
        <3> QED BY <1>3, <3>1, <3>2, <3>3
    <2>5. CASE i > q + 1
        <3>0. i \in q + 2 .. n + 1 /\ j \in q + 2 .. n + 1
            BY <2>5
        <3>1. i - 1 \in 1 .. n /\ j - 1 \in 1 .. n /\ i - 1 < j - 1
            BY <3>0
        <3>2. g[i] = hs[i - 1] /\ g[j] = hs[j - 1]
            BY <1>8, <3>0
        <3> QED BY <1>2, <1>4, <3>1, <3>2
    <2> QED BY <2>1, <2>2, <2>3, <2>4, <2>5
<1>13. \A i \in 1 .. n + 1 : g[i] = b \/ \E j \in 1 .. n : g[i] = hs[j]
    <2> SUFFICES ASSUME NEW i \in 1 .. n + 1 PROVE g[i] = b \/ \E j \in 1 .. n : g[i] = hs[j]
        OBVIOUS
    <2>1. CASE i <= q
        <3>1. i \in 1 .. q /\ i \in 1 .. n
            BY <2>1
        <3> QED BY <1>8, <3>1
    <2>2. CASE i = q + 1
        BY <1>8, <2>2
    <2>3. CASE i > q + 1
        <3>1. i \in q + 2 .. n + 1 /\ i - 1 \in 1 .. n
            BY <2>3
        <3> QED BY <1>8, <3>1
    <2> QED BY <2>1, <2>2, <2>3
<1>14. \A j \in 1 .. n : \E i \in 1 .. n + 1 : g[i] = hs[j]
    <2> SUFFICES ASSUME NEW j \in 1 .. n PROVE \E i \in 1 .. n + 1 : g[i] = hs[j]
        OBVIOUS
    <2>1. CASE j <= q
        <3>1. j \in 1 .. q /\ j \in 1 .. n + 1
            BY <2>1
        <3> QED BY <1>8, <3>1
    <2>2. CASE j > q
        <3>1. j + 1 \in q + 2 .. n + 1 /\ j + 1 \in 1 .. n + 1 /\ (j + 1) - 1 = j
            BY <2>2
        <3> QED BY <1>8, <3>1
    <2> QED BY <2>1, <2>2
<1>15. BytesOf(g) = BytesOf(hs) \cup Span(b.off, b.size)
    <2>1. \A x : x \in BytesOf(g) => x \in BytesOf(hs) \cup Span(b.off, b.size)
        BY <1>1, <1>9, <1>13, BytesAre
    <2>2. \A x : x \in BytesOf(hs) => x \in BytesOf(g)
        BY <1>1, <1>9, <1>14, BytesAre
    <2>3. \A x : x \in Span(b.off, b.size) => x \in BytesOf(g)
        <3>1. q + 1 \in DOMAIN g
            BY <1>9
        <3> QED BY <1>8, <3>1, BytesAre
    <2> QED BY <2>1, <2>2, <2>3
<1>16. Len(g) > 0
    BY <1>8
<1> QED
    BY <1>1, <1>8, <1>9, <1>12, <1>13, <1>15, <1>16

\* The arithmetic of one hole of a list.
LEMMA HolesFacts ==
    ASSUME NEW hs \in Seq(Hole), Apart(hs), NEW i \in DOMAIN hs
    PROVE  /\ hs[i] \in Hole /\ hs[i].off \in Nat /\ hs[i].size \in Nat \ {0}
           /\ End(hs[i]) \in Nat /\ End(hs[i]) = hs[i].off + hs[i].size
           /\ \A x : x \in Span(hs[i].off, hs[i].size) <=> x \in Int /\ hs[i].off <= x /\ x < End(hs[i])
           /\ \A j \in DOMAIN hs : i < j => End(hs[i]) < hs[j].off
<1>1. hs[i] \in Hole
    OBVIOUS
<1> QED
    BY <1>1, HoleFacts DEF Apart

\* The byte behind a hole belongs to none, so a range of free bytes lies in one
\* hole.
LEMMA RangeInHole ==
    ASSUME NEW hs \in Seq(Hole), Apart(hs), NEW o, NEW n \in Nat \ {0},
           o \in BytesOf(hs), Span(o, n) \subseteq BytesOf(hs)
    PROVE  \E j \in DOMAIN hs : o \in Nat /\ hs[j].off <= o /\ n <= hs[j].size
<1> PICK m \in Nat : m = Len(hs)
    OBVIOUS
<1>0. DOMAIN hs = 1 .. m
    OBVIOUS
<1>1. PICK j \in DOMAIN hs : o \in Span(hs[j].off, hs[j].size)
    BY BytesAre
<1>2. /\ hs[j].off \in Nat /\ hs[j].size \in Nat \ {0} /\ End(hs[j]) \in Nat
      /\ End(hs[j]) = hs[j].off + hs[j].size
      /\ o \in Int /\ hs[j].off <= o /\ o < End(hs[j])
    BY <1>1, HolesFacts
<1>3. End(hs[j]) \notin BytesOf(hs)
    <2> SUFFICES ASSUME End(hs[j]) \in BytesOf(hs) PROVE FALSE
        OBVIOUS
    <2>1. PICK k \in DOMAIN hs : End(hs[j]) \in Span(hs[k].off, hs[k].size)
        BY BytesAre
    <2>2. /\ hs[k].off \in Nat /\ End(hs[k]) \in Nat
          /\ hs[k].off <= End(hs[j]) /\ End(hs[j]) < End(hs[k])
          /\ \A l \in DOMAIN hs : k < l => End(hs[k]) < hs[l].off
        BY <2>1, HolesFacts
    <2>3. CASE j < k
        <3>1. End(hs[j]) < hs[k].off
            BY <2>3, HolesFacts
        <3> QED BY <1>2, <2>2, <3>1
    <2>4. CASE k < j
        BY <1>2, <2>2, <2>4
    <2>5. CASE k = j
        BY <1>2, <2>2, <2>5
    <2> QED BY <1>0, <2>3, <2>4, <2>5
<1>4. o + n <= End(hs[j])
    <2> SUFFICES ASSUME ~(o + n <= End(hs[j])) PROVE FALSE
        OBVIOUS
    <2>1. End(hs[j]) \in Span(o, n)
        BY <1>2 DEF Span
    <2> QED BY <1>3, <2>1
<1> PICK a \in Nat, b \in Nat : a = hs[j].off /\ b = hs[j].size
    BY <1>2
<1>5. o \in Nat /\ a <= o /\ n <= b
    BY <1>2, <1>4
<1> QED
    BY <1>5

\* What alloc() leaves of the list when it takes n bytes from the front of hole i.
TakeFront(hs, i, n) ==
    IF hs[i].size = n THEN RemoveAt(hs, i)
    ELSE ReplaceAt(hs, i, [off |-> hs[i].off + n, size |-> hs[i].size - n])

\* It covers the same bytes without those n, and its holes stay apart.
LEMMA TakeHole ==
    ASSUME NEW hs \in Seq(Hole), Apart(hs), NEW i \in DOMAIN hs,
           NEW n \in Nat \ {0}, n <= hs[i].size
    PROVE  /\ TakeFront(hs, i, n) \in Seq(Hole)
           /\ Apart(TakeFront(hs, i, n))
           /\ BytesOf(TakeFront(hs, i, n)) = BytesOf(hs) \ Span(hs[i].off, n)
           /\ \A k \in DOMAIN TakeFront(hs, i, n) :
                \E j \in DOMAIN hs : End(TakeFront(hs, i, n)[k]) = End(hs[j])
<1> PICK g : g = TakeFront(hs, i, n)
    OBVIOUS
<1> PICK m \in Nat : m = Len(hs)
    OBVIOUS
<1>0. DOMAIN hs = 1 .. m
    OBVIOUS
<1>1. \A j \in 1 .. m :
        /\ hs[j] \in Hole /\ hs[j].off \in Nat /\ hs[j].size \in Nat \ {0}
        /\ End(hs[j]) \in Nat /\ End(hs[j]) = hs[j].off + hs[j].size
        /\ \A x : x \in Span(hs[j].off, hs[j].size) <=> x \in Int /\ hs[j].off <= x /\ x < End(hs[j])
    BY <1>0, HolesFacts
<1>2. \A j, k \in 1 .. m : j < k => End(hs[j]) < hs[k].off
    BY <1>0 DEF Apart
<1> PICK a \in Nat, s \in Nat \ {0} : a = hs[i].off /\ s = hs[i].size
    BY <1>0, <1>1
<1>3. End(hs[i]) = a + s /\ n <= s /\ \A x : x \in Span(a, n) <=> x \in Int /\ a <= x /\ x < a + n
    BY <1>0, <1>1 DEF Span
<1>4. \A j \in 1 .. m : \A x : j # i /\ x \in Span(hs[j].off, hs[j].size) => x \notin Span(a, n)
    <2> SUFFICES ASSUME NEW j \in 1 .. m, NEW x, j # i, x \in Span(hs[j].off, hs[j].size)
                 PROVE  x \notin Span(a, n)
        OBVIOUS
    <2>1. x \in Int /\ hs[j].off <= x /\ x < End(hs[j]) /\ hs[j].off \in Nat /\ End(hs[j]) \in Nat
        BY <1>1
    <2>2. CASE j < i
        <3>1. End(hs[j]) < a
            BY <1>0, <1>2, <2>2
        <3> QED BY <1>3, <2>1, <3>1
    <2>3. CASE i < j
        <3>1. a + s < hs[j].off
            BY <1>0, <1>2, <1>3, <2>3
        <3> QED BY <1>3, <2>1, <3>1
    <2> QED BY <1>0, <2>2, <2>3
<1>5. CASE s = n
    <2>1. g = RemoveAt(hs, i) /\ i \in 1 .. Len(hs) /\ hs \in Seq(Hole)
        BY <1>0, <1>5 DEF TakeFront
    <2>2. g \in Seq(Hole) /\ Len(g) = Len(hs) - 1
        BY ONLY <2>1, RemoveAtIs, Zenon
    <2>3. \A k \in 1 .. i - 1 : g[k] = hs[k]
        BY ONLY <2>1, RemoveAtIs, Zenon
    <2>4. \A k \in i .. Len(hs) - 1 : g[k] = hs[k + 1]
        BY ONLY <2>1, RemoveAtIs, Zenon
    <2>5. DOMAIN g = 1 .. m - 1 /\ i \in 1 .. m
        BY <1>0, <2>2
    <2>6. \A k \in 1 .. m - 1 : \E j \in 1 .. m : /\ g[k] = hs[j] /\ j # i /\ j >= k
                                                 /\ (k < i => j = k) /\ (k >= i => j = k + 1)
        <3> SUFFICES ASSUME NEW k \in 1 .. m - 1
                     PROVE  \E j \in 1 .. m : /\ g[k] = hs[j] /\ j # i /\ j >= k
                                              /\ (k < i => j = k) /\ (k >= i => j = k + 1)
            OBVIOUS
        <3>1. CASE k < i
            <4>1. k \in 1 .. i - 1 /\ k \in 1 .. m
                BY <2>5, <3>1
            <4> QED BY <2>3, <2>5, <3>1, <4>1
        <3>2. CASE k >= i
            <4>1. k \in i .. m - 1 /\ k + 1 \in 1 .. m
                BY <2>5, <3>2
            <4>2. g[k] = hs[k + 1]
                BY <2>4, <4>1
            <4>3. k + 1 # i /\ k + 1 >= k /\ ~(k < i)
                BY <2>5, <3>2
            <4> PICK j \in 1 .. m : j = k + 1
                BY <4>1
            <4> QED BY <4>2, <4>3
        <3> QED BY <2>5, <3>1, <3>2
    <2>7. Apart(g)
        <3> SUFFICES ASSUME NEW k \in 1 .. m - 1, NEW l \in 1 .. m - 1, k < l
                     PROVE  End(g[k]) < g[l].off
            BY <2>5 DEF Apart
        <3>1. PICK j \in 1 .. m : g[k] = hs[j] /\ (k < i => j = k) /\ (k >= i => j = k + 1)
            BY <2>6
        <3>2. PICK h \in 1 .. m : g[l] = hs[h] /\ (l < i => h = l) /\ (l >= i => h = l + 1)
            BY <2>6
        <3>3. j < h
            BY <2>5, <3>1, <3>2
        <3> QED BY <1>2, <3>1, <3>2, <3>3
    <2>8. \A j \in 1 .. m : j # i => \E k \in 1 .. m - 1 : g[k] = hs[j]
        <3> SUFFICES ASSUME NEW j \in 1 .. m, j # i PROVE \E k \in 1 .. m - 1 : g[k] = hs[j]
            OBVIOUS
        <3>1. CASE j < i
            <4>1. j \in 1 .. i - 1 /\ j \in 1 .. m - 1
                BY <2>5, <3>1
            <4> QED BY <2>3, <4>1
        <3>2. CASE j > i
            <4>1. j - 1 \in i .. m - 1 /\ j - 1 \in 1 .. m - 1 /\ (j - 1) + 1 = j
                BY <2>5, <3>2
            <4>2. g[j - 1] = hs[j]
                BY <2>4, <4>1
            <4> QED BY <4>1, <4>2
        <3> QED BY <2>5, <3>1, <3>2
    <2>9. BytesOf(g) = BytesOf(hs) \ Span(a, n)
        <3>1. ASSUME NEW x \in BytesOf(g) PROVE x \in BytesOf(hs) /\ x \notin Span(a, n)
            <4>1. PICK k \in 1 .. m - 1 : x \in Span(g[k].off, g[k].size)
                BY <2>5, <3>1, BytesAre
            <4>2. PICK j \in 1 .. m : g[k] = hs[j] /\ j # i
                BY <2>6
            <4> QED BY <1>0, <1>4, <4>1, <4>2, BytesAre
        <3>2. ASSUME NEW x \in BytesOf(hs), x \notin Span(a, n) PROVE x \in BytesOf(g)
            <4>1. PICK j \in 1 .. m : x \in Span(hs[j].off, hs[j].size)
                BY <1>0, <3>2, BytesAre
            <4>2. j # i
                BY <1>5, <3>2, <4>1
            <4>3. PICK k \in 1 .. m - 1 : g[k] = hs[j]
                BY <2>8, <4>2
            <4> QED BY <2>5, <4>1, <4>3, BytesAre
        <3> QED BY <3>1, <3>2
    <2> QED BY <1>0, <2>2, <2>5, <2>6, <2>7, <2>9
<1>6. CASE s # n
    <2>1. g = [hs EXCEPT ![i] = [off |-> a + n, size |-> s - n]]
        BY <1>6 DEF TakeFront, ReplaceAt
    <2>2. [off |-> a + n, size |-> s - n] \in Hole
        <3>1. a + n \in Nat /\ s - n \in Nat \ {0}
            BY <1>3, <1>6
        <3> QED BY ONLY <3>1 DEF Hole
    <2>3. g \in Seq(Hole) /\ DOMAIN g = 1 .. m
        BY <1>0, <2>1, <2>2
    <2>4. \A k \in 1 .. m : k # i => g[k] = hs[k]
        BY <1>0, <2>1
    <2>5. g[i].off = a + n /\ g[i].size = s - n /\ g[i] \in Hole
        BY <1>0, <2>1, <2>2
    <2>6. End(g[i]) = End(hs[i]) /\ \A x : x \in Span(g[i].off, g[i].size) <=> x \in Int /\ a + n <= x /\ x < a + s
        <3>1. End(g[i]) = a + s
            BY <1>3, <2>5 DEF End
        <3> QED BY <1>3, <2>5, <3>1, HoleFacts
    <2>7. Apart(g)
        <3> SUFFICES ASSUME NEW k \in 1 .. m, NEW l \in 1 .. m, k < l
                     PROVE  End(g[k]) < g[l].off
            BY <2>3 DEF Apart
        <3>1. End(g[k]) = End(hs[k])
            BY <2>4, <2>6
        <3>2. hs[l].off <= g[l].off /\ g[l].off \in Nat
            <4>1. CASE l = i
                BY <2>5, <4>1
            <4>2. CASE l # i
                BY <1>1, <2>4, <4>2
            <4> QED BY <4>1, <4>2
        <3>3. End(hs[k]) < hs[l].off /\ End(hs[k]) \in Nat /\ hs[l].off \in Nat
            BY <1>1, <1>2
        <3> QED BY <3>1, <3>2, <3>3
    <2>8. BytesOf(g) = BytesOf(hs) \ Span(a, n)
        <3>1. ASSUME NEW x \in BytesOf(g) PROVE x \in BytesOf(hs) /\ x \notin Span(a, n)
            <4>1. PICK k \in 1 .. m : x \in Span(g[k].off, g[k].size)
                BY <2>3, <3>1, BytesAre
            <4>2. CASE k = i
                <5>1. x \in Int /\ a + n <= x /\ x < a + s
                    BY <2>6, <4>1, <4>2
                <5>2. a <= x
                    BY <5>1
                <5>3. x \in Span(hs[i].off, hs[i].size)
                    BY <1>0, <1>1, <1>3, <5>1, <5>2
                <5>4. ~(x < a + n)
                    BY <5>1
                <5>5. x \notin Span(a, n)
                    BY ONLY <1>3, <5>4
                <5> QED BY <5>3, <5>5, BytesAre
            <4>3. CASE k # i
                BY <1>0, <1>4, <2>4, <4>1, <4>3, BytesAre
            <4> QED BY <4>2, <4>3
        <3>2. ASSUME NEW x \in BytesOf(hs), x \notin Span(a, n) PROVE x \in BytesOf(g)
            <4>1. PICK j \in 1 .. m : x \in Span(hs[j].off, hs[j].size)
                BY <1>0, <3>2, BytesAre
            <4>2. CASE j = i
                <5>1. x \in Int /\ a <= x /\ x < a + s
                    BY <1>1, <1>3, <4>1, <4>2
                <5>2. a + n <= x
                    BY <1>3, <3>2, <5>1
                <5>3. x \in Span(g[i].off, g[i].size)
                    BY <2>6, <5>1, <5>2
                <5> QED BY <1>0, <2>3, <5>3, BytesAre
            <4>3. CASE j # i
                BY <2>3, <2>4, <4>1, <4>3, BytesAre
            <4> QED BY <4>2, <4>3
        <3> QED BY <3>1, <3>2
    <2> QED BY <1>0, <2>3, <2>4, <2>6, <2>7, <2>8
<1> QED
    BY <1>5, <1>6

-----------------------------------------------------------------------------
(***************************************************************************)
(* The inductive invariant                                                 *)
(***************************************************************************)
ListTypeOK == high \in 0 .. Cap /\ used \in Nat /\ holes \in Seq(Hole)

\* The bytes below the bump pointer that are in no hole.
TakenBytes == (0 .. high - 1) \ HoleBytes

\* The ranges callers hold are disjoint and make up the taken bytes.
LivePartition ==
    /\ live \subseteq Hole
    /\ \A b, c \in live : b # c => Span(b.off, b.size) \cap Span(c.off, c.size) = {}
    /\ UNION {Span(b.off, b.size) : b \in live} = TakenBytes

ListInv == ListTypeOK /\ FreeListCanonical /\ UsedExact /\ LivePartition

\* init() leaves an empty list and no byte in use.
LEMMA ListInitInv == Init => ListInv
<1> SUFFICES ASSUME Init PROVE ListInv
    OBVIOUS
<1> USE CapAssumption DEF Init
<1>1. ListTypeOK /\ FreeListCanonical
    BY DEF ListTypeOK, FreeListCanonical
<1>2. TakenBytes = {}
    BY DEF TakenBytes
<1>3. UsedExact
    BY <1>2, FS_EmptySet DEF UsedExact, TakenBytes
<1>4. LivePartition
    BY <1>2 DEF LivePartition
<1> QED
    BY <1>1, <1>3, <1>4 DEF ListInv

\* The canonical list in the terms of the lemmas above.
LEMMA CanonicalIs ==
    ASSUME ListInv
    PROVE  /\ Apart(holes)
           /\ \A i \in DOMAIN holes : End(holes[i]) <= high
           /\ HoleBytes \subseteq 0 .. high - 1
           /\ high \in Nat /\ IsFiniteSet(TakenBytes) /\ Cardinality(TakenBytes) \in Nat
<1> USE CapAssumption DEF ListInv
<1>1. Apart(holes) /\ \A i \in DOMAIN holes : End(holes[i]) <= high
    BY DEF FreeListCanonical, Apart
<1>2. high \in Nat /\ holes \in Seq(Hole)
    BY DEF ListTypeOK
<1>3. HoleBytes \subseteq 0 .. high - 1
    <2> SUFFICES ASSUME NEW x \in HoleBytes PROVE x \in 0 .. high - 1
        OBVIOUS
    <2>1. PICK i \in DOMAIN holes : x \in Span(holes[i].off, holes[i].size)
        BY BytesAre DEF HoleBytes
    <2>2. x \in Int /\ holes[i].off <= x /\ x < End(holes[i]) /\ holes[i].off \in Nat /\ End(holes[i]) \in Nat
        BY <1>1, <1>2, <2>1, HolesFacts
    <2> QED BY <1>1, <1>2, <2>2
<1>4. IsFiniteSet(0 .. high - 1) /\ TakenBytes \in SUBSET (0 .. high - 1)
    BY <1>2, CountTo DEF TakenBytes
<1>5. IsFiniteSet(TakenBytes)
    BY <1>4, FS_Subset
<1> QED
    BY <1>1, <1>2, <1>3, <1>5, FS_CardinalityType

\* A range of n bytes has n bytes.
LEMMA SpanCount ==
    ASSUME NEW o \in Nat, NEW n \in Nat
    PROVE  IsFiniteSet(Span(o, n)) /\ Cardinality(Span(o, n)) = n
<1>1. o + n - 1 \in Int /\ o <= (o + n - 1) + 1 /\ (o + n - 1) - o + 1 = n
    OBVIOUS
<1> PICK e \in Int : e = o + n - 1
    BY <1>1
<1>2. IsFiniteSet(o .. e) /\ Cardinality(o .. e) = e - o + 1
    BY <1>1, CountTo
<1> QED
    BY <1>1, <1>2 DEF Span

\* An allocation: n bytes nobody held become taken and the caller's.
LEMMA AllocKeeps ==
    ASSUME ListInv, NEW n \in Nat \ {0}, NEW o \in Nat,
           ListTypeOK', FreeListCanonical',
           Span(o, n) \cap TakenBytes = {},
           TakenBytes' = TakenBytes \cup Span(o, n),
           used' = used + n,
           live' = live \cup {[off |-> o, size |-> n]}
    PROVE  ListInv'
<1> PICK S : S = Span(o, n)
    OBVIOUS
<1>1. IsFiniteSet(S) /\ Cardinality(S) = n
    BY SpanCount
<1>2. IsFiniteSet(TakenBytes) /\ Cardinality(TakenBytes) \in Nat /\ used = Cardinality(TakenBytes)
    BY CanonicalIs DEF ListInv, UsedExact, TakenBytes
<1>3. Cardinality(TakenBytes \cup S) = Cardinality(TakenBytes) + Cardinality(S) - Cardinality(TakenBytes \cap S)
    BY <1>1, <1>2, FS_Union
<1>4. Cardinality(TakenBytes \cap S) = 0
    <2>1. TakenBytes \cap S = {}
        OBVIOUS
    <2> QED BY <2>1, FS_EmptySet
<1>5. UsedExact'
    <2>1. Cardinality(TakenBytes') = used + n
        BY <1>1, <1>2, <1>3, <1>4
    <2> QED BY <2>1 DEF UsedExact, TakenBytes
<1> PICK f : f = [off |-> o, size |-> n]
    OBVIOUS
<1>6. f \in Hole /\ f.off = o /\ f.size = n
    BY DEF Hole
<1>7. LivePartition'
    <2>1. \A b \in live : Span(b.off, b.size) \subseteq TakenBytes
        BY DEF ListInv, LivePartition
    <2>2. \A b \in live : Span(b.off, b.size) \cap Span(f.off, f.size) = {}
        BY <1>6, <2>1
    <2>3. \A b, c \in live' : b # c => Span(b.off, b.size) \cap Span(c.off, c.size) = {}
        <3> SUFFICES ASSUME NEW b \in live \cup {f}, NEW c \in live \cup {f}, b # c
                     PROVE  Span(b.off, b.size) \cap Span(c.off, c.size) = {}
            OBVIOUS
        <3>1. CASE b \in live /\ c \in live
            BY <3>1 DEF ListInv, LivePartition
        <3>2. CASE b = f /\ c \in live
            BY <2>2, <3>2
        <3>3. CASE c = f /\ b \in live
            BY <2>2, <3>3
        <3> QED BY <3>1, <3>2, <3>3
    <2>4. UNION {Span(b.off, b.size) : b \in live'} = TakenBytes'
        <3>1. live' = live \cup {f} /\ TakenBytes' = TakenBytes \cup Span(f.off, f.size)
            BY <1>6
        <3>2. UNION {Span(b.off, b.size) : b \in live} = TakenBytes
            BY DEF ListInv, LivePartition
        <3> QED BY ONLY <3>1, <3>2
    <2>5. live' \subseteq Hole
        BY <1>6 DEF ListInv, LivePartition
    <2> QED BY <2>3, <2>4, <2>5 DEF LivePartition
<1> QED
    BY <1>5, <1>7 DEF ListInv

-----------------------------------------------------------------------------
(***************************************************************************)
(* The steps                                                               *)
(***************************************************************************)

\* The scan stops at the first hole that is large enough.
LEMMA FirstFitIs ==
    ASSUME ListInv, NEW n \in Nat \ {0}
    PROVE  \/ FirstFit(n) = 0 /\ \A j \in DOMAIN holes : ~(holes[j].size >= n)
           \/ /\ FirstFit(n) # 0 /\ FirstFit(n) \in DOMAIN holes /\ n <= holes[FirstFit(n)].size
              /\ \A j \in DOMAIN holes : holes[j].size >= n => FirstFit(n) <= j
<1> PICK F : F = {i \in DOMAIN holes : holes[i].size >= n}
    OBVIOUS
<1>0. holes \in Seq(Hole)
    BY DEF ListInv, ListTypeOK
<1> PICK m \in Nat : m = Len(holes)
    BY <1>0
<1>1. DOMAIN holes = 1 .. m
    BY <1>0
<1>2. F \subseteq Nat
    BY <1>1
<1>3. FirstFit(n) = IF F = {} THEN 0 ELSE Min(F)
    BY DEF FirstFit
<1>4. CASE F = {}
    BY <1>3, <1>4
<1>5. CASE F # {}
    <2>1. PICK x \in F : \A y \in F : x <= y
        BY <1>2, <1>5, LeastOf
    <2>2. Min(F) = x
        BY <1>2, <2>1, MinIs
    <2>3. x \in 1 .. m /\ holes[x].size >= n
        BY <1>1
    <2>4. x # 0 /\ FirstFit(n) = x
        BY <1>3, <1>5, <2>2, <2>3
    <2>5. holes[x] \in Hole
        BY <1>0, <1>1, <2>3
    <2>6. holes[x].size \in Nat
        BY <2>5 DEF Hole
    <2>7. n <= holes[x].size
        BY <2>3, <2>6
    <2> QED BY <1>1, <2>1, <2>3, <2>4, <2>7
<1> QED
    BY <1>4, <1>5

\* alloc() from a hole (vram_cache.cpp:31-43).
LEMMA AllocFromHoleInv ==
    ASSUME ListInv, NEW n \in Nat, AllocFromHole(n)
    PROVE  ListInv'
<1> PICK i : i = FirstFit(n)
    OBVIOUS
<1>1. n # 0 /\ n \in Nat \ {0} /\ i # 0
    BY DEF AllocFromHole
<1>2. i \in DOMAIN holes /\ n <= holes[i].size
    BY <1>1, FirstFitIs
<1> PICK o, g : o = holes[i].off /\ g = TakeFront(holes, i, n)
    OBVIOUS
<1>3. /\ holes' = g /\ used' = used + n /\ high' = high
      /\ live' = live \cup {[off |-> o, size |-> n]}
    BY DEF AllocFromHole, TakeFront
<1>4. holes \in Seq(Hole) /\ Apart(holes)
    BY CanonicalIs DEF ListInv, ListTypeOK
<1>5. g \in Seq(Hole) /\ Apart(g) /\ BytesOf(g) = BytesOf(holes) \ Span(o, n)
    BY <1>1, <1>2, <1>4, TakeHole
<1>6. \A k \in DOMAIN g : \E j \in DOMAIN holes : End(g[k]) = End(holes[j])
    BY <1>1, <1>2, <1>4, TakeHole
<1>7. o \in Nat /\ \A x : x \in Span(o, n) => x \in Span(holes[i].off, holes[i].size)
    <2>1. holes[i] \in Hole
        BY <1>2, <1>4
    <2> PICK a \in Nat, s \in Nat : a = holes[i].off /\ s = holes[i].size
        BY <2>1 DEF Hole
    <2>2. n <= s
        BY <1>2
    <2>3. \A x : x \in a .. (a + n - 1) => x \in a .. (a + s - 1)
        BY <2>2
    <2> QED BY <2>3 DEF Span
<1>8. Span(o, n) \subseteq HoleBytes
    BY <1>2, <1>7, BytesAre DEF HoleBytes
<1>9. HoleBytes' = HoleBytes \ Span(o, n) /\ TakenBytes' = TakenBytes \cup Span(o, n)
    <2>1. HoleBytes' = HoleBytes \ Span(o, n)
        BY <1>3, <1>5 DEF HoleBytes
    <2>2. HoleBytes \subseteq 0 .. high - 1
        BY CanonicalIs
    <2> PICK R : R = 0 .. high - 1
        OBVIOUS
    <2>3. TakenBytes = R \ HoleBytes /\ TakenBytes' = R \ HoleBytes'
        BY <1>3 DEF TakenBytes
    <2> QED BY <1>8, <2>1, <2>2, <2>3
<1>10. Span(o, n) \cap TakenBytes = {}
    BY <1>8 DEF TakenBytes
<1>11. ListTypeOK'
    <2>1. high \in 0 .. Cap /\ used \in Nat
        BY DEF ListInv, ListTypeOK
    <2>2. used + n \in Nat
        BY <2>1
    <2> QED BY <1>3, <1>5, <2>1, <2>2 DEF ListTypeOK
<1>12. FreeListCanonical'
    <2>1. \A k \in DOMAIN g : g[k].size > 0
        <3> SUFFICES ASSUME NEW k \in DOMAIN g PROVE g[k].size > 0
            OBVIOUS
        <3>1. g[k].size \in Nat \ {0}
            BY <1>5, HolesFacts
        <3> QED BY <3>1
    <2>2. \A k \in DOMAIN g : End(g[k]) <= high
        BY <1>6, CanonicalIs
    <2> QED BY <1>3, <1>5, <2>1, <2>2 DEF FreeListCanonical, Apart
<1> QED
    BY <1>1, <1>3, <1>7, <1>9, <1>10, <1>11, <1>12, AllocKeeps

\* alloc() at the bump pointer (vram_cache.cpp:44-50).
LEMMA AllocFromTopInv ==
    ASSUME ListInv, NEW n \in Nat, AllocFromTop(n)
    PROVE  ListInv'
<1>1. /\ n \in Nat \ {0} /\ high + n <= Cap /\ high' = high + n /\ used' = used + n
      /\ live' = live \cup {[off |-> high, size |-> n]} /\ holes' = holes
    BY DEF AllocFromTop
<1>2. high \in Nat /\ HoleBytes \subseteq 0 .. high - 1
    BY CanonicalIs
<1> PICK h \in Nat : h = high
    BY <1>2
<1>3. (0 .. (h + n) - 1) = (0 .. h - 1) \cup Span(h, n) /\ (0 .. h - 1) \cap Span(h, n) = {}
    BY DEF Span
<1>4. HoleBytes' = HoleBytes
    BY <1>1 DEF HoleBytes
<1>5. TakenBytes' = TakenBytes \cup Span(h, n) /\ Span(h, n) \cap TakenBytes = {}
    <2> PICK R, T, B : R = (0 .. h - 1) /\ T = Span(h, n) /\ B = HoleBytes
        OBVIOUS
    <2>1. TakenBytes = R \ B /\ TakenBytes' = (R \cup T) \ B
        BY <1>1, <1>3, <1>4 DEF TakenBytes
    <2>2. B \subseteq R /\ R \cap T = {}
        BY <1>2, <1>3
    <2>3. TakenBytes' = TakenBytes \cup T /\ T \cap TakenBytes = {}
        BY ONLY <2>1, <2>2
    <2> QED BY <2>3
<1>6. ListTypeOK'
    <2>1. used \in Nat /\ holes \in Seq(Hole)
        BY DEF ListInv, ListTypeOK
    <2>2. used + n \in Nat /\ h + n \in 0 .. Cap
        BY <1>1, <2>1, CapAssumption
    <2> QED BY <1>1, <2>1, <2>2 DEF ListTypeOK
<1>7. FreeListCanonical'
    <2>1. holes \in Seq(Hole) /\ Apart(holes)
        BY CanonicalIs DEF ListInv, ListTypeOK
    <2>2. \A i \in DOMAIN holes : holes[i].size > 0 /\ End(holes[i]) <= h + n
        <3> SUFFICES ASSUME NEW i \in DOMAIN holes PROVE holes[i].size > 0 /\ End(holes[i]) <= h + n
            OBVIOUS
        <3>1. holes[i].size \in Nat \ {0} /\ End(holes[i]) \in Nat
            BY <2>1, HolesFacts
        <3>2. End(holes[i]) <= h
            BY CanonicalIs
        <3> QED BY <3>1, <3>2
    <2> QED BY <1>1, <2>1, <2>2 DEF FreeListCanonical, Apart
<1> QED
    BY <1>1, <1>5, <1>6, <1>7, AllocKeeps

\* A caller's range is free of holes and below the bump pointer.
LEMMA LiveFacts ==
    ASSUME ListInv, NEW b \in live
    PROVE  /\ b \in Hole /\ Span(b.off, b.size) \subseteq TakenBytes
           /\ Span(b.off, b.size) \cap BytesOf(holes) = {}
           /\ End(b) <= high
<1>1. b \in Hole /\ Span(b.off, b.size) \subseteq TakenBytes
    BY DEF ListInv, LivePartition
<1>2. Span(b.off, b.size) \cap BytesOf(holes) = {}
    BY <1>1 DEF TakenBytes, HoleBytes
<1>3. /\ b.off \in Nat /\ End(b) \in Nat /\ b.off < End(b)
      /\ \A x : x \in Span(b.off, b.size) <=> x \in Int /\ b.off <= x /\ x < End(b)
    BY <1>1, HoleFacts
<1> PICK a \in Nat, e \in Nat, h \in Nat : a = b.off /\ e = End(b) /\ h = high
    BY <1>3, CanonicalIs
<1>4. e - 1 \in Int /\ a <= e - 1 /\ e - 1 < e
    BY <1>3
<1>5. e - 1 \in Span(b.off, b.size)
    BY <1>3, <1>4
<1>6. e - 1 \in 0 .. h - 1
    BY <1>1, <1>5 DEF TakenBytes
<1>7. e <= h
    BY <1>6
<1> QED
    BY <1>1, <1>2, <1>7

\* free() (vram_cache.cpp:54-63).
LEMMA FreeInv ==
    ASSUME ListInv, NEW b \in live, Free(b)
    PROVE  ListInv'
<1> PICK S, n : S = Span(b.off, b.size) /\ n = b.size
    OBVIOUS
<1> PICK f : f = Insert(holes, b)
    OBVIOUS
<1> PICK g : g = Coalesce(f)
    OBVIOUS
<1>1. holes' = g /\ used' = used - n /\ live' = live \ {b} /\ high' = high
    BY DEF Free
<1>2. /\ holes \in Seq(Hole) /\ Apart(holes) /\ high \in Nat
      /\ \A i \in DOMAIN holes : End(holes[i]) <= high
    BY CanonicalIs DEF ListInv, ListTypeOK
<1>3. b \in Hole /\ S \subseteq TakenBytes /\ S \cap BytesOf(holes) = {} /\ End(b) <= high
    BY LiveFacts
<1>4. f \in Seq(Hole) /\ Len(f) > 0 /\ InOrder(f) /\ BytesOf(f) = BytesOf(holes) \cup S
    BY <1>2, <1>3, InsertHoles
<1>5. \A i \in DOMAIN f : End(f[i]) <= high
    <2>1. \A i \in DOMAIN f : f[i] = b \/ \E j \in DOMAIN holes : f[i] = holes[j]
        BY <1>2, <1>3, InsertHoles
    <2> QED BY <1>2, <1>3, <2>1
<1>6. g \in Seq(Hole) /\ Apart(g) /\ BytesOf(g) = BytesOf(f)
    BY <1>4, CoalesceHoles
<1>7. \A k \in DOMAIN g : End(g[k]) <= high
    BY <1>2, <1>4, <1>5, CoalesceHoles
<1>8. FreeListCanonical'
    <2>1. \A k \in DOMAIN g : g[k].size > 0
        <3> SUFFICES ASSUME NEW k \in DOMAIN g PROVE g[k].size > 0
            OBVIOUS
        <3>1. g[k].size \in Nat \ {0}
            BY <1>6, HolesFacts
        <3> QED BY <3>1
    <2> QED BY <1>1, <1>6, <1>7, <2>1 DEF FreeListCanonical, Apart
<1>9. TakenBytes' = TakenBytes \ S
    <2>1. HoleBytes' = HoleBytes \cup S
        BY <1>1, <1>4, <1>6 DEF HoleBytes
    <2> PICK R : R = 0 .. high - 1
        OBVIOUS
    <2>2. TakenBytes = R \ HoleBytes /\ TakenBytes' = R \ HoleBytes'
        BY <1>1 DEF TakenBytes
    <2> QED BY <2>1, <2>2
<1>10. /\ n \in Nat /\ used \in Nat /\ used - n \in Nat
       /\ Cardinality(TakenBytes \ S) = used - n
    <2>1. n \in Nat /\ IsFiniteSet(S) /\ Cardinality(S) = n
        BY <1>3, SpanCount DEF Hole
    <2>2. IsFiniteSet(TakenBytes) /\ Cardinality(TakenBytes) \in Nat /\ used = Cardinality(TakenBytes)
        BY CanonicalIs DEF ListInv, UsedExact, TakenBytes
    <2>3. IsFiniteSet(TakenBytes \ S)
        BY <2>2, FS_Difference
    <2>4. Cardinality(TakenBytes \ S) = Cardinality(TakenBytes) - Cardinality(TakenBytes \cap S)
        BY <2>2, FS_Difference
    <2>5. TakenBytes \cap S = S
        BY <1>3
    <2>6. Cardinality(TakenBytes \ S) \in Nat
        BY <2>3, FS_CardinalityType
    <2> QED BY <2>1, <2>2, <2>4, <2>5, <2>6
<1>11. ListTypeOK'
    <2>1. high \in 0 .. Cap
        BY DEF ListInv, ListTypeOK
    <2> QED BY <1>1, <1>6, <1>10, <2>1 DEF ListTypeOK
<1>12. UsedExact'
    <2>1. used' = Cardinality(TakenBytes')
        BY <1>1, <1>9, <1>10
    <2> QED BY <2>1 DEF UsedExact, TakenBytes
<1>13. LivePartition'
    <2>1. /\ live \subseteq Hole
          /\ \A c, d \in live : c # d => Span(c.off, c.size) \cap Span(d.off, d.size) = {}
          /\ UNION {Span(c.off, c.size) : c \in live} = TakenBytes
        BY DEF ListInv, LivePartition
    <2>2. UNION {Span(c.off, c.size) : c \in live \ {b}} = TakenBytes \ S
        <3>1. ASSUME NEW x \in TakenBytes \ S PROVE \E c \in live \ {b} : x \in Span(c.off, c.size)
            BY <2>1, <3>1
        <3>2. ASSUME NEW c \in live \ {b}, NEW x \in Span(c.off, c.size) PROVE x \in TakenBytes \ S
            BY <2>1, <3>2
        <3> QED BY <3>1, <3>2
    <2> QED BY <1>1, <1>9, <2>1, <2>2 DEF LivePartition
<1> QED
    BY <1>8, <1>11, <1>12, <1>13 DEF ListInv

\* One case for each action of Next.
LEMMA ListStepInv == ListInv /\ [Next]_vars => ListInv'
<1> SUFFICES ASSUME ListInv, [Next]_vars PROVE ListInv'
    OBVIOUS
<1>u. ASSUME UNCHANGED vars PROVE ListInv'
    BY <1>u DEF vars, ListInv, ListTypeOK, FreeListCanonical, UsedExact, LivePartition, TakenBytes, HoleBytes
<1>1. ASSUME NEW n \in Sizes, AllocFromHole(n) PROVE ListInv'
    BY <1>1, SizesAssumption, AllocFromHoleInv
<1>2. ASSUME NEW n \in Sizes, AllocFromTop(n) PROVE ListInv'
    BY <1>2, SizesAssumption, AllocFromTopInv
<1>3. ASSUME NEW n \in Sizes, AllocFails(n) PROVE ListInv'
    BY <1>3, <1>u DEF AllocFails
<1>4. ASSUME NEW b \in live, Free(b) PROVE ListInv'
    BY <1>4, FreeInv
<1> QED
    BY <1>u, <1>1, <1>2, <1>3, <1>4 DEF Next

\* Through every sequence of allocations and frees the list is canonical, used_
\* is the number of bytes handed out, and these are the callers' ranges, each
\* byte in one of them.
THEOREM ListInvariant == Spec => []ListInv
  BY ListInitInv, ListStepInv, PTL DEF Spec

\* coalesce() in free() and the carving in alloc() keep the vector of holes in
\* offset order, with no empty hole and none that touches the next.
THEOREM FreeListIsCanonical == Spec => []FreeListCanonical
<1>1. ListInv => FreeListCanonical
    BY DEF ListInv
<1> QED
    BY <1>1, ListInvariant, PTL

\* used_, which every alloc() and free() adjusts by the size it is given, is the
\* number of bytes below the bump pointer that no hole covers.
THEOREM UsedIsExact == Spec => []UsedExact
<1>1. ListInv => UsedExact
    BY DEF ListInv
<1> QED
    BY <1>1, ListInvariant, PTL

-----------------------------------------------------------------------------
(***************************************************************************)
(* The refinement                                                          *)
(***************************************************************************)

\* Where the free bytes could serve n bytes: nowhere if no hole is large enough,
\* and nowhere below the hole the scan takes.
LEMMA FitsAre ==
    ASSUME ListInv, NEW n \in Nat \ {0}
    PROVE  LET F == {o \in HoleBytes : Span(o, n) \subseteq HoleBytes}
           IN  /\ F \subseteq Nat
               /\ FirstFit(n) = 0 => F = {}
               /\ FirstFit(n) # 0 => /\ holes[FirstFit(n)].off \in F
                                     /\ \A y \in F : holes[FirstFit(n)].off <= y
<1> DEFINE F == {o \in HoleBytes : Span(o, n) \subseteq HoleBytes}
<1>0. holes \in Seq(Hole) /\ Apart(holes)
    BY CanonicalIs DEF ListInv, ListTypeOK
<1>1. \A y \in F : y \in Nat /\ \E j \in DOMAIN holes : holes[j].off <= y /\ n <= holes[j].size
    BY <1>0, RangeInHole DEF HoleBytes
<1>2. ASSUME FirstFit(n) = 0 PROVE F = {}
    <2>1. \A j \in DOMAIN holes : ~(holes[j].size >= n)
        BY <1>2, FirstFitIs
    <2>2. \A j \in DOMAIN holes : ~(n <= holes[j].size)
        <3> SUFFICES ASSUME NEW j \in DOMAIN holes PROVE ~(n <= holes[j].size)
            OBVIOUS
        <3>1. holes[j].size \in Nat
            BY <1>0, HolesFacts
        <3> QED BY <2>1, <3>1
    <2> QED BY <1>1, <2>2
<1>3. ASSUME FirstFit(n) # 0
      PROVE  holes[FirstFit(n)].off \in F /\ \A y \in F : holes[FirstFit(n)].off <= y
    <2> PICK i : i = FirstFit(n)
        OBVIOUS
    <2>1. /\ i \in DOMAIN holes /\ n <= holes[i].size
          /\ \A j \in DOMAIN holes : holes[j].size >= n => i <= j
        BY <1>3, FirstFitIs
    <2>2. /\ holes[i].off \in Nat /\ holes[i].size \in Nat \ {0}
          /\ \A j \in DOMAIN holes : i < j => End(holes[i]) < holes[j].off
          /\ End(holes[i]) = holes[i].off + holes[i].size
        BY <1>0, <2>1, HolesFacts
    <2> PICK a \in Nat, s \in Nat \ {0} : a = holes[i].off /\ s = holes[i].size
        BY <2>2
    <2>3. Span(a, n) \subseteq Span(a, s) /\ a \in Span(a, s)
        BY <2>1 DEF Span
    <2>4. Span(a, s) \subseteq HoleBytes
        BY <2>1, BytesAre DEF HoleBytes
    <2>5. a \in F
        BY <2>3, <2>4
    <2>6. ASSUME NEW y \in F PROVE a <= y
        <3>1. PICK j \in DOMAIN holes : y \in Nat /\ holes[j].off <= y /\ n <= holes[j].size
            BY <1>1, <2>6
        <3>2. holes[j].off \in Nat /\ holes[j].size \in Nat /\ i \in Nat /\ j \in Nat
            <4>1. holes[j].off \in Nat /\ holes[j].size \in Nat
                BY <1>0, HolesFacts
            <4> QED BY <1>0, <2>1, <4>1
        <3>3. i <= j
            BY <2>1, <3>1, <3>2
        <3>4. CASE i = j
            BY <3>1, <3>4
        <3>5. CASE i < j
            <4>1. a + s < holes[j].off
                BY <2>2, <3>5
            <4> QED BY <3>1, <3>2, <4>1
        <3> QED BY <3>2, <3>3, <3>4, <3>5
    <2> QED BY <2>5, <2>6
<1>4. F \subseteq Nat
    BY <1>1
<1> QED
    BY <1>2, <1>3, <1>4

\* The arena the list stands for.
AsArena == [high |-> high, free |-> HoleBytes]

\* The scan finds the offset the abstract allocator returns.
LEMMA AllocOffIs ==
    ASSUME ListInv, NEW n \in Nat \ {0}
    PROVE  /\ FirstFit(n) # 0 => Abstract!AllocOff(AsArena, n) = holes[FirstFit(n)].off
           /\ FirstFit(n) = 0 /\ high + n <= Cap => Abstract!AllocOff(AsArena, n) = high
<1> PICK F : F = {o \in HoleBytes : Span(o, n) \subseteq HoleBytes}
    OBVIOUS
<1>1. Abstract!Fits(AsArena, n) = F
    BY DEF Abstract!Fits, Abstract!Span, Span, AsArena
<1>2. /\ F \subseteq Nat
      /\ FirstFit(n) = 0 => F = {}
      /\ FirstFit(n) # 0 => /\ holes[FirstFit(n)].off \in F
                            /\ \A y \in F : holes[FirstFit(n)].off <= y
    BY FitsAre
<1>3. AsArena.high = high
    BY DEF AsArena
<1>4. ASSUME FirstFit(n) # 0 PROVE Abstract!AllocOff(AsArena, n) = holes[FirstFit(n)].off
    <2> PICK x \in F : x = holes[FirstFit(n)].off
        BY <1>2, <1>4
    <2>1. Min(F) = x
        BY <1>2, <1>4, MinIs
    <2>2. F # {} /\ n # 0
        OBVIOUS
    <2>3. Abstract!Min(F) = Min(F)
        BY DEF Abstract!Min, Min
    <2> QED BY <1>1, <2>1, <2>2, <2>3 DEF Abstract!AllocOff
<1>5. ASSUME FirstFit(n) = 0, high + n <= Cap PROVE Abstract!AllocOff(AsArena, n) = high
    <2>1. F = {} /\ n # 0
        BY <1>2, <1>5
    <2> QED BY <1>1, <1>3, <1>5, <2>1 DEF Abstract!AllocOff
<1> QED
    BY <1>4, <1>5

\* The empty list is the empty arena.
LEMMA InitMaps == Init => Abstract!Init
<1> SUFFICES ASSUME Init PROVE Abstract!Init
    OBVIOUS
<1>1. HoleBytes = {}
    BY DEF Init, HoleBytes, BytesOf
<1> QED
    BY <1>1 DEF Init, Abstract!Init, Abstract!EmptyArena

\* A successful alloc() is one of the abstract allocator.
LEMMA AllocMaps ==
    ASSUME ListInv, NEW n \in Nat, AllocFromHole(n) \/ AllocFromTop(n)
    PROVE  Abstract!Alloc(n)
<1>0. n \in Nat \ {0}
    BY DEF AllocFromHole, AllocFromTop
<1>1. /\ high \in Nat /\ HoleBytes \subseteq 0 .. high - 1
      /\ holes \in Seq(Hole) /\ Apart(holes)
    BY CanonicalIs DEF ListInv, ListTypeOK
<1>2. CASE AllocFromHole(n)
    <2> PICK i : i = FirstFit(n)
        OBVIOUS
    <2>1. i # 0 /\ i \in DOMAIN holes /\ n <= holes[i].size
        BY <1>0, <1>2, FirstFitIs DEF AllocFromHole
    <2> PICK o : o = holes[i].off
        OBVIOUS
    <2>2. /\ holes' = TakeFront(holes, i, n) /\ high' = high
          /\ live' = live \cup {[off |-> o, size |-> n]}
        BY <1>2 DEF AllocFromHole, TakeFront
    <2>3. HoleBytes' = HoleBytes \ Span(o, n)
        BY <1>0, <1>1, <2>1, <2>2, TakeHole DEF HoleBytes
    <2>4. Abstract!AllocOff(AsArena, n) = o
        BY <1>0, <2>1, AllocOffIs
    <2>5. o \in Nat /\ o # high /\ o # -1
        <3>1. o \in {y \in HoleBytes : Span(y, n) \subseteq HoleBytes}
            BY <1>0, <2>1, FitsAre
        <3>2. o \in 0 .. high - 1
            BY <1>1, <3>1
        <3> QED BY <1>1, <3>2
    <2>6. Abstract!Carve(AsArena, o, n) = [high |-> high', free |-> HoleBytes']
        BY <2>2, <2>3, <2>5 DEF Abstract!Carve, Abstract!Span, Span, AsArena
    <2> QED BY <2>2, <2>4, <2>5, <2>6 DEF Abstract!Alloc, Abstract!NoRoom, AsArena
<1>3. CASE AllocFromTop(n)
    <2>1. /\ FirstFit(n) = 0 /\ high + n <= Cap /\ high' = high + n /\ holes' = holes
          /\ live' = live \cup {[off |-> high, size |-> n]}
        BY <1>3 DEF AllocFromTop
    <2>2. Abstract!AllocOff(AsArena, n) = high
        BY <1>0, <2>1, AllocOffIs
    <2>3. HoleBytes \ Span(high, n) = HoleBytes
        <3>1. \A x \in 0 .. high - 1 : x \notin Span(high, n)
            BY <1>1 DEF Span
        <3> QED BY <1>1, <3>1
    <2>4. HoleBytes' = HoleBytes
        BY <2>1 DEF HoleBytes
    <2>5. Abstract!Carve(AsArena, high, n) = [high |-> high', free |-> HoleBytes']
        BY <2>1, <2>3, <2>4 DEF Abstract!Carve, Abstract!Span, Span, AsArena
    <2>6. high # -1
        BY <1>1
    <2> QED BY <2>1, <2>2, <2>5, <2>6 DEF Abstract!Alloc, Abstract!NoRoom, AsArena
<1> QED
    BY <1>2, <1>3

\* free() gives the abstract allocator the bytes of the range.
LEMMA FreeMaps ==
    ASSUME ListInv, NEW b \in live, Free(b)
    PROVE  Abstract!Free(b)
<1> PICK S : S = Span(b.off, b.size)
    OBVIOUS
<1>1. holes' = Coalesce(Insert(holes, b)) /\ live' = live \ {b} /\ high' = high
    BY DEF Free
<1>2. holes \in Seq(Hole) /\ Apart(holes) /\ b \in Hole /\ S \cap BytesOf(holes) = {}
    BY CanonicalIs, LiveFacts DEF ListInv, ListTypeOK
<1> PICK f : f = Insert(holes, b)
    OBVIOUS
<1>3. f \in Seq(Hole) /\ Len(f) > 0 /\ InOrder(f) /\ BytesOf(f) = BytesOf(holes) \cup S
    BY <1>2, InsertHoles
<1>4. BytesOf(Coalesce(f)) = BytesOf(f)
    BY <1>3, CoalesceHoles
<1>5. HoleBytes' = HoleBytes \cup S
    BY <1>1, <1>3, <1>4 DEF HoleBytes
<1> QED
    BY <1>1, <1>5 DEF Abstract!Free, Abstract!Release, Abstract!Span, Span

\* Every step of the list is a step of the abstract allocator or leaves it alone.
LEMMA StepMaps == ListInv /\ [Next]_vars => [Abstract!Next]_(Abstract!vars)
<1> SUFFICES ASSUME ListInv, [Next]_vars PROVE [Abstract!Next]_(Abstract!vars)
    OBVIOUS
<1>u. ASSUME UNCHANGED vars PROVE UNCHANGED Abstract!vars
    BY <1>u DEF vars, Abstract!vars, HoleBytes
<1>1. ASSUME NEW n \in Sizes, AllocFromHole(n) \/ AllocFromTop(n) PROVE Abstract!Next
    <2>1. Abstract!Alloc(n)
        BY <1>1, SizesAssumption, AllocMaps
    <2> QED BY <2>1 DEF Abstract!Next
<1>2. ASSUME NEW n \in Sizes, AllocFails(n) PROVE UNCHANGED Abstract!vars
    BY <1>2, <1>u DEF AllocFails
<1>3. ASSUME NEW b \in live, Free(b) PROVE Abstract!Next
    <2>1. Abstract!Free(b)
        BY <1>3, FreeMaps
    <2> QED BY <2>1 DEF Abstract!Next
<1> QED
    BY <1>u, <1>1, <1>2, <1>3 DEF Next

\* The vector of holes and the bump pointer implement the first-fit allocator of
\* byte ranges that the cache is modelled and proved on: alloc() returns the
\* lowest free range that fits, or the range above the bump pointer, and free()
\* gives back exactly the bytes of the range.
THEOREM ArenaListImplements == Spec => ImplementsArena
  BY InitMaps, StepMaps, ListInvariant, PTL DEF Spec, ImplementsArena, Abstract!Spec
=============================================================================
