------------------------ MODULE AsyncPrefetcher_proof ------------------------
(***************************************************************************)
(* The prefetcher's safety for every budget, set of experts and blob sizes, *)
(* on both backends, as long as no CUDA call fails.                         *)
(*                                                                         *)
(* ReadyHoldsWeights is not inductive: what wait() may answer for an expert *)
(* depends on the copies still queued into its block, its own and those of  *)
(* the block's earlier owners.  The invariant looks at both backends as one *)
(* queue of copies at increasing positions, of which some are performed     *)
(* first.  For a resident expert with a transfer the queue holds nothing    *)
(* into its block after that transfer; once the transfer has run, nothing   *)
(* at all.                                                                  *)
(***************************************************************************)
EXTENDS AsyncPrefetcher, VramCache_proof, SequenceTheorems

\* The copies that have yet to run, by their position in the order of submission.
Jobs ==
    IF use_cuda
    THEN [p \in performed + 1 .. performed + Len(stream) |-> stream[p - performed]]
    ELSE [i \in {j \in DOMAIN inflight : ~inflight[j].done} |-> inflight[i]]

\* The last position given out, and the position of an expert's last transfer.
LastJob == IF use_cuda THEN performed + Len(stream) ELSE Len(inflight)
JobOf(x) == IF use_cuda THEN inflight[key_to_idx[x]].event ELSE key_to_idx[x]

\* Copy t writes into the n bytes at off; t is a copy of x to off.
Writes(t, off, n) == Span(t.dst, t.nbytes) \cap Span(off, n) # {}
Own(t, x, off) == t.key = x /\ t.dst = off

LoadedAt(x, off, n, m) == \A b \in Span(off, n) : m[b] = <<x, b - off>>

\* The block holds x and the copies of J change nothing about that.
Settled(x, off, n, J, m) ==
    /\ LoadedAt(x, off, n, m)
    /\ \A p \in DOMAIN J : Writes(J[p], off, n) => Own(J[p], x, off)

\* The block holds x and no copy of J goes into it.
Quiet(x, off, n, J, m) ==
    /\ LoadedAt(x, off, n, m)
    /\ \A p \in DOMAIN J : ~Writes(J[p], off, n)

\* The copies of J up to position e, which is a copy of x, load the block.
Covered(x, off, n, e, J, m) ==
    /\ \A p \in DOMAIN J : Writes(J[p], off, n) => p <= e
    /\ e \in DOMAIN J => Own(J[e], x, off) /\ J[e].nbytes = n
    /\ e \notin DOMAIN J => Quiet(x, off, n, J, m)

CopyInv ==
    /\ ~use_cuda => stream = <<>>
    /\ \A x \in Resident : blocks[x].size = BlobSize[x]
    /\ \A x \in DOMAIN key_to_idx : JobOf(x) \in 1 .. LastJob
    /\ \A x \in Resident \cap DOMAIN key_to_idx :
         Covered(x, blocks[x].off, blocks[x].size, JobOf(x), Jobs, mem)
    /\ \A x \in ready \cap Resident :
         Settled(x, blocks[x].off, blocks[x].size, Jobs, mem)

PrefetchInv == CacheInv /\ PrefetcherTypeOK /\ CopyInv
------------------------------------------------------------------------------
(***************************************************************************)
(* Queues of copies                                                         *)
(***************************************************************************)
\* A non-empty set of positions has a last one.
LEMMA GreatestIndex ==
    ASSUME NEW n \in Nat, NEW S \in SUBSET (1 .. n), S # {}
    PROVE  \E i \in S : \A j \in S : j <= i
<1> DEFINE T == {n - j : j \in S}
<1>1. T \in SUBSET Nat /\ T # {}
  <2>1. \A j \in S : n - j \in Nat
    OBVIOUS
  <2> QED BY <2>1
<1>2. PICK t \in T : \A u \in T : t <= u
  <2> HIDE DEF T
  <2> QED BY <1>1, MinOfNat
<1>3. PICK i \in S : t = n - i
  BY <1>2
<1>4. \A j \in S : n - i <= n - j
  BY <1>2, <1>3
<1> QED
  BY <1>4

\* M is memory m after the copies of J up to position c have run in order.
Ran(J, c, m, M) ==
    \A b \in 0 .. Cap - 1 :
        \/ /\ M[b] = m[b]
           /\ \A p \in DOMAIN J : p <= c => b \notin Span(J[p].dst, J[p].nbytes)
        \/ \E p \in DOMAIN J :
             /\ p <= c /\ b \in Span(J[p].dst, J[p].nbytes)
             /\ M[b] = <<J[p].key, b - J[p].dst>>
             /\ \A q \in DOMAIN J : q <= c /\ b \in Span(J[q].dst, J[q].nbytes) => q <= p

\* K is what is left of J.
Left(J, c, K) ==
    /\ DOMAIN K = {p \in DOMAIN J : p > c}
    /\ \A p \in DOMAIN K : K[p] = J[p]

\* Running a part of the queue leaves settled blocks settled, quiet ones quiet,
\* and brings an expert whose transfer is among it into its block.
LEMMA RunJobs ==
    ASSUME NEW J, DOMAIN J \subseteq Nat, NEW c \in Nat, NEW m, NEW M, NEW K,
           Ran(J, c, m, M), Left(J, c, K),
           NEW x, NEW off, NEW n, Span(off, n) \subseteq 0 .. Cap - 1
    PROVE  /\ Settled(x, off, n, J, m) => Settled(x, off, n, K, M)
           /\ Quiet(x, off, n, J, m) => Quiet(x, off, n, K, M)
           /\ \A e : Covered(x, off, n, e, J, m) => Covered(x, off, n, e, K, M)
<1>1. Settled(x, off, n, J, m) => Settled(x, off, n, K, M)
  <2> SUFFICES ASSUME Settled(x, off, n, J, m) PROVE Settled(x, off, n, K, M)
    OBVIOUS
  <2>1. LoadedAt(x, off, n, M)
    <3> SUFFICES ASSUME NEW b \in Span(off, n) PROVE M[b] = <<x, b - off>>
      BY DEF LoadedAt
    <3>1. m[b] = <<x, b - off>> /\ b \in 0 .. Cap - 1
      BY DEF Settled, LoadedAt
    <3>2. ASSUME NEW p \in DOMAIN J, b \in Span(J[p].dst, J[p].nbytes)
          PROVE  Own(J[p], x, off)
      BY <3>2 DEF Settled, Writes
    <3> QED
      BY <3>1, <3>2 DEF Ran, Own
  <2>2. \A p \in DOMAIN K : Writes(K[p], off, n) => Own(K[p], x, off)
    BY DEF Left, Settled
  <2> QED BY <2>1, <2>2 DEF Settled
<1>2. Quiet(x, off, n, J, m) => Quiet(x, off, n, K, M)
  <2> SUFFICES ASSUME Quiet(x, off, n, J, m) PROVE Quiet(x, off, n, K, M)
    OBVIOUS
  <2>1. LoadedAt(x, off, n, M)
    <3> SUFFICES ASSUME NEW b \in Span(off, n) PROVE M[b] = <<x, b - off>>
      BY DEF LoadedAt
    <3>1. m[b] = <<x, b - off>> /\ b \in 0 .. Cap - 1
      BY DEF Quiet, LoadedAt
    <3>2. \A p \in DOMAIN J : b \notin Span(J[p].dst, J[p].nbytes)
      BY DEF Quiet, Writes
    <3> QED
      BY <3>1, <3>2 DEF Ran
  <2> QED BY <2>1 DEF Quiet, Left
<1>3. ASSUME NEW e, Covered(x, off, n, e, J, m) PROVE Covered(x, off, n, e, K, M)
  <2>1. \A p \in DOMAIN K : Writes(K[p], off, n) => p <= e
    BY <1>3 DEF Covered, Left
  <2>2. e \in DOMAIN K => Own(K[e], x, off) /\ K[e].nbytes = n
    BY <1>3 DEF Covered, Left
  <2>3. ASSUME e \notin DOMAIN K PROVE Quiet(x, off, n, K, M)
    <3>1. CASE e \notin DOMAIN J
      BY <1>2, <1>3, <3>1 DEF Covered
    <3>2. CASE e \in DOMAIN J
      <4>1. e <= c /\ Own(J[e], x, off) /\ J[e].nbytes = n
        BY <1>3, <2>3, <3>2 DEF Left, Covered
      <4>2. \A p \in DOMAIN K : ~Writes(K[p], off, n)
        <5> SUFFICES ASSUME NEW p \in DOMAIN K, Writes(K[p], off, n) PROVE FALSE
          OBVIOUS
        <5>1. p \in Nat /\ p > c /\ p <= e
          BY <2>1 DEF Left
        <5> QED BY <3>2, <4>1, <5>1
      <4>3. LoadedAt(x, off, n, M)
        <5> SUFFICES ASSUME NEW b \in Span(off, n) PROVE M[b] = <<x, b - off>>
          BY DEF LoadedAt
        <5>1. b \in Span(J[e].dst, J[e].nbytes) /\ b \in 0 .. Cap - 1
          BY <4>1 DEF Own
        <5>2. PICK p \in DOMAIN J :
                /\ p <= c /\ b \in Span(J[p].dst, J[p].nbytes)
                /\ M[b] = <<J[p].key, b - J[p].dst>>
                /\ \A q \in DOMAIN J : q <= c /\ b \in Span(J[q].dst, J[q].nbytes) => q <= p
          BY <3>2, <4>1, <5>1 DEF Ran
        <5>3. e <= p
          BY <3>2, <4>1, <5>1, <5>2
        <5>4. p <= e
          BY <1>3, <5>2 DEF Covered, Writes
        <5>5. p = e
          BY <3>2, <5>2, <5>3, <5>4
        <5> QED BY <4>1, <5>2, <5>5 DEF Own
      <4> QED BY <4>2, <4>3 DEF Quiet
    <3> QED BY <3>1, <3>2
  <2> QED BY <2>1, <2>2, <2>3 DEF Covered
<1> QED
  BY <1>1, <1>2, <1>3

\* The last of these for one position e.
LEMMA RunCovered ==
    ASSUME NEW J, DOMAIN J \subseteq Nat, NEW c \in Nat, NEW m, NEW M, NEW K,
           Ran(J, c, m, M), Left(J, c, K),
           NEW x, NEW off, NEW n, Span(off, n) \subseteq 0 .. Cap - 1,
           NEW e, Covered(x, off, n, e, J, m)
    PROVE  Covered(x, off, n, e, K, M)
  BY RunJobs

\* K is the queue J with the copy t at the new position z.
Queued(J, t, z, K) ==
    /\ DOMAIN K = DOMAIN J \cup {z}
    /\ \A p \in DOMAIN J : K[p] = J[p]
    /\ K[z] = t

\* A new copy changes nothing about the blocks it does not write into.
LEMMA QueueElsewhere ==
    ASSUME NEW J, NEW t, NEW z, NEW K, Queued(J, t, z, K),
           NEW x, NEW off, NEW n, ~Writes(t, off, n), NEW m
    PROVE  /\ Settled(x, off, n, J, m) => Settled(x, off, n, K, m)
           /\ \A e : e # z /\ Covered(x, off, n, e, J, m) => Covered(x, off, n, e, K, m)
<1>1. \A p \in DOMAIN K : Writes(K[p], off, n) => p \in DOMAIN J /\ K[p] = J[p]
  BY DEF Queued
<1>2. ASSUME NEW e, e # z, Covered(x, off, n, e, J, m) PROVE Covered(x, off, n, e, K, m)
  <2>1. e \in DOMAIN K <=> e \in DOMAIN J
    BY <1>2 DEF Queued
  <2> QED BY <1>1, <1>2, <2>1 DEF Covered, Quiet, Queued
<1> QED
  BY <1>1, <1>2 DEF Settled

\* A new copy of x into the block of x covers it.
LEMMA QueueOwn ==
    ASSUME NEW J, DOMAIN J \subseteq Nat, NEW t, NEW z \in Nat, NEW K, Queued(J, t, z, K),
           \A p \in DOMAIN J : p < z,
           NEW x, NEW off, NEW n, Own(t, x, off), t.nbytes = n, NEW m
    PROVE  /\ Covered(x, off, n, z, K, m)
           /\ Settled(x, off, n, J, m) => Settled(x, off, n, K, m)
<1>1. \A p \in DOMAIN K : p <= z
  BY DEF Queued
<1> QED
  BY <1>1 DEF Covered, Settled, Queued

------------------------------------------------------------------------------
(***************************************************************************)
(* The cache under the prefetcher                                           *)
(***************************************************************************)

\* What ensure() does to the blocks: those that stay do not move, and the one
\* asked for is among them if the answer is true.
LEMMA EnsureFacts ==
    ASSUME CacheInv, NEW x \in Keys, NEW n \in Sizes, NEW pr \in Priorities,
           Ensure(x, n, pr)
    PROVE  /\ CacheInv'
           /\ Resident' \subseteq Resident \cup {x}
           /\ \A j \in Resident \cap Resident' :
                blocks'[j].off = blocks[j].off /\ blocks'[j].size = blocks[j].size
           /\ out'.ok => x \in Resident'
           /\ out'.ok /\ x \notin Resident => blocks'[x].size = n
           /\ ~out'.ok => Resident' \subseteq Resident
           /\ x \in Resident => Resident' = Resident /\ out'.ok
           /\ out'.ok \in BOOLEAN
<1>1. CASE EnsureHit(x, n, pr)
  <2>1. CacheInv'
    BY <1>1, HitInv
  <2>2. /\ x \in Resident /\ blocks \in [Resident -> Block]
        /\ blocks' = [blocks EXCEPT ![x].last_used = tick + 1, ![x].priority = pr]
        /\ out' = Answer(n, TRUE)
    BY <1>1 DEF EnsureHit, CacheInv, CacheTypeOK
  <2>3. Resident' = Resident
    BY <2>2 DEF Resident
  <2>4. \A j \in Resident : blocks'[j].off = blocks[j].off /\ blocks'[j].size = blocks[j].size
    BY <2>2 DEF Block
  <2>5. out'.ok = TRUE
    BY <2>2 DEF Answer
  <2> QED
    BY <2>1, <2>2, <2>3, <2>4, <2>5
<1>2. CASE EnsureMiss(x, n, pr, 0)
  <2>1. CacheInv'
    BY <1>2, MissInv
  <2>2. PICK V \in SUBSET Resident :
          LET off == AllocOff(Release(arena, Bytes(V)), n) IN
            \/ off # NoRoom /\ Place(x, n, pr, V, off)
            \/ off = NoRoom /\ Drop(n, V)
    BY <1>2 DEF EnsureMiss
  <2>3. x \notin Resident
    BY <1>2 DEF EnsureMiss
  <2>4. CASE out'.ok
    <3>1. PICK off : Place(x, n, pr, V, off)
      BY <2>2, <2>4 DEF Drop, Answer
    <3>2. /\ blocks' = [j \in (Resident \ V) \cup {x} |->
                          IF j = x THEN [off |-> off, size |-> n, last_used |-> tick + 1,
                                         priority |-> pr]
                          ELSE blocks[j]]
          /\ out'.ok = TRUE
      BY <3>1 DEF Place, Answer
    <3>3. Resident' = (Resident \ V) \cup {x} /\ blocks'[x].size = n
      BY <3>2 DEF Resident
    <3>4. \A j \in Resident \ V : blocks'[j] = blocks[j]
      BY <2>3, <3>2
    <3> QED
      BY <2>1, <2>3, <3>2, <3>3, <3>4
  <2>5. CASE ~out'.ok
    <3>1. Drop(n, V)
      BY <2>2, <2>5 DEF Place, Answer
    <3>2. blocks' = [j \in Resident \ V |-> blocks[j]] /\ out'.ok = FALSE
      BY <3>1 DEF Drop, Answer
    <3>3. Resident' = Resident \ V
      BY <3>2 DEF Resident
    <3>4. \A j \in Resident \ V : blocks'[j] = blocks[j]
      BY <3>2
    <3> QED
      BY <2>1, <2>3, <3>2, <3>3, <3>4
  <2> QED BY <2>4, <2>5
<1> QED
  BY <1>1, <1>2 DEF Ensure

\* A block lies inside the arena, and a byte of it is a byte of no other block.
LEMMA BlockFacts ==
    ASSUME CacheInv, NEW x \in Resident
    PROVE  /\ blocks[x].off \in 0 .. Cap - 1 /\ blocks[x].size \in Sizes
           /\ Span(blocks[x].off, blocks[x].size) \subseteq 0 .. Cap - 1
           /\ \A y \in Resident : y # x =>
                Span(blocks[y].off, blocks[y].size) \cap Span(blocks[x].off, blocks[x].size) = {}
<1>1. blocks[x] \in Block
  BY DEF CacheInv, CacheTypeOK
<1>2. KeySpan(x) \subseteq Taken(arena)
  BY DEF CacheInv, BlocksCoverTaken, Bytes
<1>3. Taken(arena) \subseteq 0 .. Cap - 1
  BY CapAssumption DEF CacheInv, CacheTypeOK, Arenas, Taken
<1> QED
  BY <1>1, <1>2, <1>3 DEF KeySpan, Block, CacheInv, BlocksDisjoint
------------------------------------------------------------------------------
(***************************************************************************)
(* The two backends as one queue                                            *)
(***************************************************************************)

\* The queue lies below the last position; what it is on each backend.
LEMMA JobsFacts ==
    ASSUME PrefetcherTypeOK
    PROVE  /\ LastJob \in Nat
           /\ DOMAIN Jobs \subseteq 1 .. LastJob
           /\ use_cuda => /\ DOMAIN Jobs = performed + 1 .. performed + Len(stream)
                          /\ \A p \in DOMAIN Jobs : Jobs[p] = stream[p - performed]
           /\ ~use_cuda => /\ DOMAIN Jobs = {i \in 1 .. Len(inflight) : ~inflight[i].done}
                           /\ \A p \in DOMAIN Jobs : Jobs[p] = inflight[p]
<1>1. /\ inflight \in Seq(Transfer) /\ stream \in Seq(Copy) /\ performed \in Nat
      /\ Len(inflight) \in Nat /\ Len(stream) \in Nat /\ DOMAIN inflight = 1 .. Len(inflight)
  BY DEF PrefetcherTypeOK
<1>2. CASE use_cuda
  <2>1. /\ Jobs = [p \in performed + 1 .. performed + Len(stream) |-> stream[p - performed]]
        /\ LastJob = performed + Len(stream)
    BY <1>2 DEF Jobs, LastJob
  <2> QED BY <1>1, <1>2, <2>1
<1>3. CASE ~use_cuda
  <2>1. /\ Jobs = [i \in {j \in DOMAIN inflight : ~inflight[j].done} |-> inflight[i]]
        /\ LastJob = Len(inflight)
    BY <1>3 DEF Jobs, LastJob
  <2> QED BY <1>1, <1>3, <2>1
<1> QED
  BY <1>2, <1>3

\* The same of the next state.
LEMMA JobsNext ==
    ASSUME PrefetcherTypeOK'
    PROVE  LastJob' \in Nat /\ DOMAIN Jobs' \subseteq 1 .. LastJob'
<1>1. /\ inflight' \in Seq(Transfer) /\ stream' \in Seq(Copy) /\ performed' \in Nat
      /\ Len(inflight') \in Nat /\ Len(stream') \in Nat
      /\ DOMAIN inflight' = 1 .. Len(inflight')
  BY DEF PrefetcherTypeOK
<1>2. CASE use_cuda'
  <2>1. /\ DOMAIN Jobs' = performed' + 1 .. performed' + Len(stream')
        /\ LastJob' = performed' + Len(stream')
    BY <1>2 DEF Jobs, LastJob
  <2> QED BY <1>1, <2>1
<1>3. CASE ~use_cuda'
  <2>1. /\ DOMAIN Jobs' = {j \in DOMAIN inflight' : ~inflight'[j].done}
        /\ LastJob' = Len(inflight')
    BY <1>3 DEF Jobs, LastJob
  <2> QED BY <1>1, <2>1
<1> QED
  BY <1>2, <1>3

\* The blocks stay where they are.
SameBlocks ==
    /\ Resident' = Resident
    /\ \A x \in Resident : blocks'[x].off = blocks[x].off /\ blocks'[x].size = blocks[x].size

\* The queue runs up to position c.
Runs(c) ==
    /\ Ran(Jobs, c, mem, mem') /\ Left(Jobs, c, Jobs')
    /\ use_cuda' = use_cuda /\ (~use_cuda => stream' = <<>>)
    /\ key_to_idx' = key_to_idx /\ LastJob' = LastJob
    /\ \A x \in DOMAIN key_to_idx : JobOf(x)' = JobOf(x)

\* Any step that runs the queue, and reports only experts ready whose transfer has
\* run.
LEMMA QueueRuns ==
    ASSUME PrefetchInv, CacheInv', PrefetcherTypeOK', SameBlocks,
           NEW c \in Nat, Runs(c),
           \A x \in ready' : \/ x \in ready
                             \/ x \in DOMAIN key_to_idx /\ JobOf(x) \notin DOMAIN Jobs'
    PROVE  /\ PrefetchInv'
           /\ \A x \in Resident \cap DOMAIN key_to_idx :
                JobOf(x) \notin DOMAIN Jobs'
                  => Quiet(x, blocks[x].off, blocks[x].size, Jobs', mem')
           /\ \A x \in Resident :
                Quiet(x, blocks[x].off, blocks[x].size, Jobs, mem)
                  => Quiet(x, blocks[x].off, blocks[x].size, Jobs', mem')
<1> USE DEF PrefetchInv, Runs
<1>1. DOMAIN Jobs \subseteq Nat /\ LastJob \in Nat
  BY JobsFacts
<1>2. ASSUME NEW x \in Resident \cap DOMAIN key_to_idx
      PROVE  Covered(x, blocks[x].off, blocks[x].size, JobOf(x), Jobs', mem')
  <2>1. Span(blocks[x].off, blocks[x].size) \subseteq 0 .. Cap - 1
    BY BlockFacts
  <2>2. JobOf(x) \in Nat /\ Covered(x, blocks[x].off, blocks[x].size, JobOf(x), Jobs, mem)
    <3>1. JobOf(x) \in 1 .. LastJob
      BY DEF CopyInv
    <3> QED BY <1>1, <3>1 DEF CopyInv
  <2>3. Ran(Jobs, c, mem, mem') /\ Left(Jobs, c, Jobs')
    OBVIOUS
  <2> QED BY <1>1, <2>1, <2>2, <2>3, RunCovered
<1>3. ASSUME NEW x \in Resident
      PROVE  /\ Quiet(x, blocks[x].off, blocks[x].size, Jobs, mem)
                  => Quiet(x, blocks[x].off, blocks[x].size, Jobs', mem')
             /\ Settled(x, blocks[x].off, blocks[x].size, Jobs, mem)
                  => Settled(x, blocks[x].off, blocks[x].size, Jobs', mem')
  <2>1. Span(blocks[x].off, blocks[x].size) \subseteq 0 .. Cap - 1
    BY BlockFacts
  <2> QED BY <1>1, <2>1, RunJobs
<1>4. ASSUME NEW x \in Resident \cap DOMAIN key_to_idx, JobOf(x) \notin DOMAIN Jobs'
      PROVE  Quiet(x, blocks[x].off, blocks[x].size, Jobs', mem')
  BY <1>2, <1>4 DEF Covered
<1>5. ASSUME NEW x \in ready' \cap Resident
      PROVE  Settled(x, blocks[x].off, blocks[x].size, Jobs', mem')
  <2>1. CASE x \in ready
    BY <1>3, <2>1 DEF CopyInv
  <2>2. CASE x \in DOMAIN key_to_idx /\ JobOf(x) \notin DOMAIN Jobs'
    <3>1. Quiet(x, blocks[x].off, blocks[x].size, Jobs', mem')
      BY <1>4, <2>2
    <3> QED BY <3>1 DEF Quiet, Settled
  <2> QED BY <2>1, <2>2
<1>6. CopyInv'
  <2>1. (~use_cuda => stream = <<>>)'
    OBVIOUS
  <2>2. \A x \in Resident' : blocks'[x].size = BlobSize[x]
    BY DEF CopyInv, SameBlocks
  <2>3. \A x \in DOMAIN key_to_idx' : JobOf(x)' \in 1 .. LastJob'
    BY DEF CopyInv
  <2>4. \A x \in Resident' \cap DOMAIN key_to_idx' :
          Covered(x, blocks'[x].off, blocks'[x].size, JobOf(x)', Jobs', mem')
    BY <1>2 DEF SameBlocks
  <2>5. \A x \in ready' \cap Resident' :
          Settled(x, blocks'[x].off, blocks'[x].size, Jobs', mem')
    BY <1>5 DEF SameBlocks
  <2> QED BY <2>1, <2>2, <2>3, <2>4, <2>5 DEF CopyInv
<1> QED
  BY <1>3, <1>4, <1>6

\* drain_until() on the mock backend.
LEMMA DrainedRuns ==
    ASSUME PrefetcherTypeOK, ~use_cuda, NEW c \in 0 .. Len(inflight)
    PROVE  /\ Ran(Jobs, c, mem, Drained(mem, c))
           /\ Drained(mem, c) \in [0 .. Cap - 1 -> WeightBytes \cup {Junk}]
<1> DEFINE M == Drained(mem, c)
<1>1. /\ Len(inflight) \in Nat /\ c \in Nat /\ c <= Len(inflight)
      /\ DOMAIN mem = 0 .. Cap - 1
      /\ \A i \in 1 .. Len(inflight) : inflight[i] \in Transfer
  BY DEF PrefetcherTypeOK
<1>2. /\ DOMAIN Jobs = {i \in 1 .. Len(inflight) : ~inflight[i].done}
      /\ \A p \in DOMAIN Jobs : Jobs[p] = inflight[p]
  BY JobsFacts
<1>3. ASSUME NEW b \in 0 .. Cap - 1
      PROVE  \/ /\ M[b] = mem[b]
                /\ \A p \in DOMAIN Jobs : p <= c => b \notin Span(Jobs[p].dst, Jobs[p].nbytes)
             \/ \E p \in DOMAIN Jobs :
                  /\ p <= c /\ b \in Span(Jobs[p].dst, Jobs[p].nbytes)
                  /\ M[b] = <<Jobs[p].key, b - Jobs[p].dst>>
                  /\ \A q \in DOMAIN Jobs :
                       q <= c /\ b \in Span(Jobs[q].dst, Jobs[q].nbytes) => q <= p
  <2> DEFINE into == {i \in 1 .. c : /\ ~inflight[i].done
                                     /\ b \in Span(inflight[i].dst, inflight[i].nbytes)}
             top == CHOOSE i \in into : \A j \in into : j <= i
  <2>1. M[b] = IF into = {} THEN mem[b] ELSE <<inflight[top].key, b - inflight[top].dst>>
    BY <1>1 DEF Drained
  <2>2. \A p \in DOMAIN Jobs :
          p <= c /\ b \in Span(Jobs[p].dst, Jobs[p].nbytes) => p \in into
    BY <1>1, <1>2
  <2>3. \A p \in into :
          p \in DOMAIN Jobs /\ p <= c /\ b \in Span(Jobs[p].dst, Jobs[p].nbytes)
    BY <1>1, <1>2
  <2>4. CASE into = {}
    BY <2>1, <2>2, <2>4
  <2>5. CASE into # {}
    <3>1. \E i \in into : \A j \in into : j <= i
      <4>1. into \in SUBSET (1 .. c)
        OBVIOUS
      <4> HIDE DEF into
      <4> QED BY <1>1, <2>5, <4>1, GreatestIndex
    <3> HIDE DEF into
    <3>2. top \in into /\ \A j \in into : j <= top
      BY <3>1
    <3> HIDE DEF top, M
    <3>3. M[b] = <<Jobs[top].key, b - Jobs[top].dst>>
      BY <1>2, <2>1, <2>3, <2>5, <3>2
    <3> QED BY <2>2, <2>3, <3>2, <3>3
  <2> QED BY <2>4, <2>5
<1>4. M = [b \in 0 .. Cap - 1 |-> M[b]]
  BY <1>1 DEF Drained
<1> HIDE DEF M
<1>5. ASSUME NEW b \in 0 .. Cap - 1 PROVE M[b] \in WeightBytes \cup {Junk}
  <2>1. CASE M[b] = mem[b]
    BY <2>1 DEF PrefetcherTypeOK
  <2>2. ASSUME NEW p \in DOMAIN Jobs, b \in Span(Jobs[p].dst, Jobs[p].nbytes),
               M[b] = <<Jobs[p].key, b - Jobs[p].dst>>
        PROVE  M[b] \in WeightBytes
    <3>1. Jobs[p] \in Transfer
      BY <1>1, <1>2
    <3>2. Jobs[p].key \in Keys /\ Jobs[p].dst \in 0 .. Cap - 1 /\ Jobs[p].nbytes \in Nat
      BY <3>1, CacheAssumption DEF Transfer
    <3>3. b - Jobs[p].dst \in 0 .. Cap - 1
      BY <2>2, <3>2, CapAssumption DEF Span
    <3> QED BY <2>2, <3>2, <3>3 DEF WeightBytes
  <2> QED BY <1>3, <2>1, <2>2
<1>6. [b \in 0 .. Cap - 1 |-> M[b]] \in [0 .. Cap - 1 -> WeightBytes \cup {Junk}]
  BY <1>5
<1>7. Ran(Jobs, c, mem, M)
  BY <1>3 DEF Ran
<1> QED
  BY <1>4, <1>6, <1>7 DEF M

\* Marking transfers done changes nothing else about them.
LEMMA MarkDoneFacts ==
    ASSUME inflight \in Seq(Transfer), NEW S, inflight' = MarkDone(S)
    PROVE  /\ inflight' \in Seq(Transfer) /\ Len(inflight') = Len(inflight)
           /\ \A i \in 1 .. Len(inflight) :
                /\ inflight'[i].key = inflight[i].key /\ inflight'[i].dst = inflight[i].dst
                /\ inflight'[i].nbytes = inflight[i].nbytes
                /\ inflight'[i].event = inflight[i].event
                /\ inflight'[i].done <=> inflight[i].done \/ i \in S
           /\ \A i \in 1 .. Len(inflight) : i \notin S => inflight'[i] = inflight[i]
<1>1. /\ DOMAIN inflight = 1 .. Len(inflight) /\ Len(inflight) \in Nat
      /\ \A i \in 1 .. Len(inflight) : inflight[i] \in Transfer
  OBVIOUS
<1>2. ASSUME NEW i \in 1 .. Len(inflight)
      PROVE  /\ inflight'[i] \in Transfer
             /\ inflight'[i].key = inflight[i].key /\ inflight'[i].dst = inflight[i].dst
             /\ inflight'[i].nbytes = inflight[i].nbytes
             /\ inflight'[i].event = inflight[i].event
             /\ inflight'[i].done <=> inflight[i].done \/ i \in S
             /\ i \notin S => inflight'[i] = inflight[i]
  <2>1. inflight'[i] = [inflight[i] EXCEPT !.done = @ \/ i \in S]
    BY <1>1 DEF MarkDone
  <2>2. inflight[i] \in Transfer
    BY <1>1
  <2> QED BY <2>1, <2>2 DEF Transfer
<1>3. inflight' = [i \in 1 .. Len(inflight) |-> inflight'[i]]
  BY <1>1 DEF MarkDone
<1>4. inflight' \in [1 .. Len(inflight) -> Transfer]
  BY <1>2, <1>3
<1>5. inflight' \in Seq(Transfer) /\ Len(inflight') = Len(inflight)
  BY <1>1, <1>4
<1> QED
  BY <1>2, <1>5
------------------------------------------------------------------------------
(***************************************************************************)
(* Waiting and the copy engine                                              *)
(***************************************************************************)

\* Marking the transfers up to c done leaves those after c in the mock's queue.
LEMMA MockLeft ==
    ASSUME PrefetcherTypeOK, PrefetcherTypeOK', ~use_cuda, ~use_cuda',
           NEW c \in 0 .. Len(inflight), inflight' = MarkDone(1 .. c)
    PROVE  Left(Jobs, c, Jobs')
<1>1. /\ inflight \in Seq(Transfer) /\ Len(inflight) \in Nat
      /\ inflight' \in Seq(Transfer) /\ c \in Nat
  BY DEF PrefetcherTypeOK
<1>2. /\ Len(inflight') = Len(inflight)
      /\ \A i \in 1 .. Len(inflight) :
            /\ inflight'[i].done <=> inflight[i].done \/ i \in 1 .. c
            /\ i \notin 1 .. c => inflight'[i] = inflight[i]
  BY <1>1, MarkDoneFacts
<1>3. /\ DOMAIN Jobs = {i \in 1 .. Len(inflight) : ~inflight[i].done}
      /\ \A p \in DOMAIN Jobs : Jobs[p] = inflight[p]
  BY JobsFacts
<1>4. /\ DOMAIN Jobs' = {i \in 1 .. Len(inflight') : ~inflight'[i].done}
      /\ \A p \in DOMAIN Jobs' : Jobs'[p] = inflight'[p]
  <2>1. Jobs' = [i \in {j \in DOMAIN inflight' : ~inflight'[j].done} |-> inflight'[i]]
    BY DEF Jobs
  <2> QED BY <1>1, <2>1
<1> QED
  BY <1>1, <1>2, <1>3, <1>4 DEF Left

\* Nothing runs.
LEMMA RanNothing ==
    ASSUME NEW J, NEW K, K = J, NEW n \in Nat, DOMAIN J \subseteq 1 .. n,
           NEW m, NEW M, M = m
    PROVE  Ran(J, 0, m, M) /\ Left(J, 0, K)
<1>1. \A p \in DOMAIN J : p > 0 /\ ~(p <= 0)
  OBVIOUS
<1> QED BY <1>1 DEF Ran, Left

PrefetchStats == [issued : Nat, waited : Nat, fallbacks : Nat]

\* Counting keeps the statistics natural numbers.
LEMMA PrefetchStatsUpdate ==
    ASSUME NEW st \in PrefetchStats
    PROVE  /\ [st EXCEPT !.waited = @ + 1] \in PrefetchStats
           /\ [st EXCEPT !.waited = @ + 1, !.fallbacks = @ + 1] \in PrefetchStats
           /\ [st EXCEPT !.issued = @ + 1] \in PrefetchStats
<1>1. st.waited + 1 \in Nat /\ st.fallbacks + 1 \in Nat /\ st.issued + 1 \in Nat
  BY DEF PrefetchStats
<1>2. ASSUME NEW i \in Nat, NEW w \in Nat, NEW f \in Nat
      PROVE  /\ [st EXCEPT !.waited = w] \in PrefetchStats
             /\ [st EXCEPT !.waited = w, !.fallbacks = f] \in PrefetchStats
             /\ [st EXCEPT !.issued = i] \in PrefetchStats
  BY Zenon DEF PrefetchStats
<1> QED
  BY <1>1, <1>2

\* wait() keeps the types.
LEMMA WaitType ==
    ASSUME PrefetcherTypeOK, NEW x \in Keys, WaitStep(x)
    PROVE  PrefetcherTypeOK'
<1>a. pstats \in PrefetchStats
  BY DEF PrefetcherTypeOK, PrefetchStats
<1>1. CASE WaitUnknown(x)
  <2>1. pstats' \in [issued : Nat, waited : Nat, fallbacks : Nat]
    BY <1>a, <1>1, PrefetchStatsUpdate DEF WaitUnknown, PrefetchStats
  <2> QED BY <1>1, <2>1 DEF WaitUnknown, PrefetcherTypeOK
<1>2. CASE WaitMock(x)
  <2>1. key_to_idx[x] \in 0 .. Len(inflight)
    BY <1>2 DEF WaitMock, PrefetcherTypeOK
  <2>2. mem' \in [0 .. Cap - 1 -> WeightBytes \cup {Junk}]
    BY <1>2, <2>1, DrainedRuns DEF WaitMock
  <2>3. inflight' \in Seq(Transfer) /\ Len(inflight') = Len(inflight)
    BY <1>2, MarkDoneFacts DEF WaitMock, PrefetcherTypeOK
  <2>4. pstats' \in [issued : Nat, waited : Nat, fallbacks : Nat]
    BY <1>a, <1>2, PrefetchStatsUpdate DEF WaitMock, PrefetchStats
  <2>5. DOMAIN inflight' = DOMAIN inflight
    BY <2>3 DEF PrefetcherTypeOK
  <2> QED BY <1>2, <2>2, <2>3, <2>4, <2>5 DEF WaitMock, PrefetcherTypeOK
<1>3. CASE WaitCuda(x)
  <2>1. inflight' \in Seq(Transfer) /\ Len(inflight') = Len(inflight)
    BY <1>3, MarkDoneFacts DEF WaitCuda, PrefetcherTypeOK
  <2>2. pstats' \in [issued : Nat, waited : Nat, fallbacks : Nat]
    BY <1>a, <1>3, PrefetchStatsUpdate DEF WaitCuda, PrefetchStats
  <2>3. DOMAIN inflight' = DOMAIN inflight
    BY <2>1 DEF PrefetcherTypeOK
  <2> QED BY <1>3, <2>1, <2>2, <2>3 DEF WaitCuda, PrefetcherTypeOK
<1> QED
  BY <1>1, <1>2, <1>3 DEF WaitStep

\* wait() runs the queue at least up to the last transfer of its expert: by itself on
\* the mock, by waiting for the event with CUDA.
LEMMA WaitRuns ==
    ASSUME PrefetcherTypeOK, CopyInv, NEW x \in Keys, WaitStep(x)
    PROVE  /\ \E c \in Nat : Runs(c)
           /\ x \in DOMAIN key_to_idx => \A p \in DOMAIN Jobs' : p > JobOf(x)
           /\ ready' \subseteq ready \cup (DOMAIN key_to_idx \cap {x})
<1>1. PrefetcherTypeOK'
  BY WaitType
<1>2. /\ LastJob \in Nat /\ DOMAIN Jobs \subseteq 1 .. LastJob
      /\ inflight \in Seq(Transfer) /\ Len(inflight) \in Nat
  BY JobsFacts DEF PrefetcherTypeOK
<1>3. CASE WaitUnknown(x)
  <2>1. /\ UNCHANGED <<use_cuda, inflight, key_to_idx, stream, performed, mem, ready>>
        /\ x \notin DOMAIN key_to_idx
    BY <1>3 DEF WaitUnknown
  <2>2. Jobs' = Jobs /\ LastJob' = LastJob /\ \A y : JobOf(y)' = JobOf(y)
    BY <2>1 DEF Jobs, LastJob, JobOf
  <2>3. Ran(Jobs, 0, mem, mem') /\ Left(Jobs, 0, Jobs')
    BY <1>2, <2>1, <2>2, RanNothing
  <2>4. Runs(0)
    BY <2>1, <2>2, <2>3 DEF Runs, CopyInv
  <2> QED BY <2>1, <2>4
<1>4. CASE WaitMock(x)
  <2>1. /\ ~use_cuda /\ x \in DOMAIN key_to_idx
        /\ mem' = Drained(mem, key_to_idx[x])
        /\ inflight' = MarkDone(1 .. key_to_idx[x])
        /\ ready' = ready \cup {x}
        /\ UNCHANGED <<use_cuda, key_to_idx, stream, performed>>
    BY <1>4 DEF WaitMock
  <2>2. key_to_idx[x] \in 0 .. Len(inflight)
    BY <2>1 DEF PrefetcherTypeOK
  <2>3. Ran(Jobs, key_to_idx[x], mem, mem')
    BY <2>1, <2>2, DrainedRuns
  <2>4. Left(Jobs, key_to_idx[x], Jobs')
    BY <1>1, <2>1, <2>2, MockLeft
  <2>5. Len(inflight') = Len(inflight)
    BY <1>2, <2>1, MarkDoneFacts
  <2>6. LastJob' = LastJob /\ \A y : JobOf(y)' = JobOf(y)
    BY <2>1, <2>5 DEF LastJob, JobOf
  <2>7. Runs(key_to_idx[x])
    BY <2>1, <2>3, <2>4, <2>6 DEF Runs, CopyInv
  <2>8. JobOf(x) = key_to_idx[x] /\ key_to_idx[x] \in Nat
    BY <2>1, <2>2 DEF JobOf
  <2>9. \A p \in DOMAIN Jobs' : p > JobOf(x)
    BY <2>4, <2>8 DEF Left
  <2> QED BY <2>1, <2>7, <2>8, <2>9
<1>5. CASE WaitCuda(x)
  <2>1. /\ use_cuda /\ x \in DOMAIN key_to_idx
        /\ EventReached(inflight[key_to_idx[x]])
        /\ inflight' = MarkDone({key_to_idx[x]})
        /\ ready' = ready \cup {x}
        /\ UNCHANGED <<use_cuda, key_to_idx, stream, performed, mem>>
    BY <1>5 DEF WaitCuda
  <2>2. Jobs' = Jobs /\ LastJob' = LastJob
    BY <2>1 DEF Jobs, LastJob
  <2>3. \A y \in DOMAIN key_to_idx : JobOf(y)' = JobOf(y)
    <3>1. \A y \in DOMAIN key_to_idx : key_to_idx[y] \in 1 .. Len(inflight)
      BY <1>2 DEF PrefetcherTypeOK
    <3>2. \A i \in 1 .. Len(inflight) : inflight'[i].event = inflight[i].event
      BY <1>2, <2>1, MarkDoneFacts
    <3> QED BY <2>1, <3>1, <3>2 DEF JobOf
  <2>4. Ran(Jobs, 0, mem, mem') /\ Left(Jobs, 0, Jobs')
    BY <1>2, <2>1, <2>2, RanNothing
  <2>5. Runs(0)
    BY <2>1, <2>2, <2>3, <2>4 DEF Runs, CopyInv
  <2>6. JobOf(x) = inflight[key_to_idx[x]].event /\ JobOf(x) \in 1 .. LastJob
    BY <2>1 DEF JobOf, CopyInv
  <2>7. performed >= JobOf(x)
    BY <1>2, <2>1, <2>6 DEF EventReached, NoEvent
  <2>8. DOMAIN Jobs = performed + 1 .. performed + Len(stream) /\ performed \in Nat
    BY <2>1, JobsFacts DEF PrefetcherTypeOK
  <2>9. \A p \in DOMAIN Jobs' : p > JobOf(x)
    <3>1. Len(stream) \in Nat /\ JobOf(x) \in Nat
      BY <1>2, <2>6 DEF PrefetcherTypeOK
    <3>2. \A p \in DOMAIN Jobs : p > JobOf(x)
      BY <2>7, <2>8, <3>1
    <3> QED BY <2>2, <3>2
  <2> QED BY <2>1, <2>5, <2>9
<1> QED
  BY <1>3, <1>4, <1>5 DEF WaitStep

\* wait() keeps the invariant; the block of an expert it answered true for is
\* quiet.
LEMMA WaitStepInv ==
    ASSUME PrefetchInv, CacheInv', SameBlocks, NEW x \in Keys, WaitStep(x)
    PROVE  /\ PrefetchInv'
           /\ x \in Resident \cap DOMAIN key_to_idx
                => Quiet(x, blocks[x].off, blocks[x].size, Jobs', mem')
           /\ \A y \in Resident :
                Quiet(y, blocks[y].off, blocks[y].size, Jobs, mem)
                  => Quiet(y, blocks[y].off, blocks[y].size, Jobs', mem')
<1>1. PrefetcherTypeOK'
  BY WaitType DEF PrefetchInv
<1>2. /\ \E c \in Nat : Runs(c)
      /\ x \in DOMAIN key_to_idx => \A p \in DOMAIN Jobs' : p > JobOf(x)
      /\ ready' \subseteq ready \cup (DOMAIN key_to_idx \cap {x})
  BY WaitRuns DEF PrefetchInv
<1>3. PICK c \in Nat : Runs(c)
  BY <1>2
<1>4. x \in DOMAIN key_to_idx => JobOf(x) \notin DOMAIN Jobs'
  <2>1. LastJob \in Nat /\ (x \in DOMAIN key_to_idx => JobOf(x) \in 1 .. LastJob)
    BY JobsFacts DEF PrefetchInv, CopyInv
  <2> QED BY <1>2, <2>1
<1>5. \A y \in ready' : \/ y \in ready
                        \/ y \in DOMAIN key_to_idx /\ JobOf(y) \notin DOMAIN Jobs'
  BY <1>2, <1>4
<1> QED
  BY <1>1, <1>3, <1>4, <1>5, QueueRuns

\* synchronize_all() keeps the types.
LEMMA SynchronizeType ==
    ASSUME PrefetcherTypeOK, SynchronizeAll PROVE PrefetcherTypeOK'
<1>1. /\ inflight \in Seq(Transfer) /\ Len(inflight) \in 0 .. Len(inflight)
      /\ DOMAIN inflight = 1 .. Len(inflight)
      /\ UNCHANGED <<use_cuda, key_to_idx, pstats, stream, performed, ready>>
  BY DEF PrefetcherTypeOK, SynchronizeAll
<1>2. CASE use_cuda
  BY <1>1, <1>2 DEF SynchronizeAll, PrefetcherTypeOK
<1>3. CASE ~use_cuda
  <2>1. mem' = Drained(mem, Len(inflight)) /\ inflight' = MarkDone(DOMAIN inflight)
    BY <1>3 DEF SynchronizeAll
  <2>2. inflight' \in Seq(Transfer) /\ Len(inflight') = Len(inflight)
    BY <1>1, <2>1, MarkDoneFacts
  <2>3. mem' \in [0 .. Cap - 1 -> WeightBytes \cup {Junk}]
    BY <1>1, <1>3, <2>1, DrainedRuns
  <2>4. DOMAIN inflight' = DOMAIN inflight
    BY <1>1, <2>2
  <2> QED BY <1>1, <2>2, <2>3, <2>4 DEF PrefetcherTypeOK
<1> QED
  BY <1>2, <1>3

\* synchronize_all() runs the mock's whole queue; with CUDA nothing is left to run.
LEMMA SynchronizeInv ==
    ASSUME PrefetchInv, SynchronizeAll PROVE PrefetchInv'
<1>1. /\ CacheInv' /\ SameBlocks
      /\ UNCHANGED <<use_cuda, key_to_idx, pstats, stream, performed, ready>>
  <2>1. UNCHANGED <<arena, blocks, tick, stats, out, use_cuda, key_to_idx, pstats, stream,
                    performed, ready>>
    BY DEF SynchronizeAll, cacheVars
  <2> QED
    BY <2>1 DEF PrefetchInv, SameBlocks, Resident, CacheInv, CacheTypeOK, BlocksDisjoint,
                BlocksCoverTaken, Bytes, KeySpan
<1>2. /\ LastJob \in Nat /\ DOMAIN Jobs \subseteq 1 .. LastJob
      /\ inflight \in Seq(Transfer) /\ Len(inflight) \in Nat
      /\ DOMAIN inflight = 1 .. Len(inflight) /\ PrefetcherTypeOK
  BY JobsFacts DEF PrefetchInv, PrefetcherTypeOK
<1>3. CASE ~use_cuda
  <2>1. mem' = Drained(mem, Len(inflight)) /\ inflight' = MarkDone(1 .. Len(inflight))
    BY <1>2, <1>3 DEF SynchronizeAll
  <2>2. inflight' \in Seq(Transfer) /\ Len(inflight') = Len(inflight)
    BY <1>2, <2>1, MarkDoneFacts
  <2>3. Len(inflight) \in 0 .. Len(inflight)
    BY <1>2
  <2>4. /\ Ran(Jobs, Len(inflight), mem, mem')
        /\ mem' \in [0 .. Cap - 1 -> WeightBytes \cup {Junk}]
    BY <1>2, <1>3, <2>1, <2>3, DrainedRuns
  <2>5. PrefetcherTypeOK'
    BY <1>2, SynchronizeType
  <2>6. Left(Jobs, Len(inflight), Jobs')
    BY <1>1, <1>2, <1>3, <2>1, <2>3, <2>5, MockLeft
  <2>7. LastJob' = LastJob /\ \A y : JobOf(y)' = JobOf(y)
    BY <1>1, <1>3, <2>2 DEF LastJob, JobOf
  <2>8. Runs(Len(inflight))
    BY <1>1, <1>3, <2>4, <2>6, <2>7 DEF Runs, PrefetchInv, CopyInv
  <2> QED BY <1>1, <1>2, <2>5, <2>8, QueueRuns
<1>4. CASE use_cuda
  <2>1. UNCHANGED <<mem, inflight>>
    BY <1>4 DEF SynchronizeAll
  <2>2. PrefetcherTypeOK' /\ Jobs' = Jobs /\ LastJob' = LastJob /\ \A y : JobOf(y)' = JobOf(y)
    BY <1>1, <1>2, <2>1 DEF PrefetcherTypeOK, Jobs, LastJob, JobOf
  <2>3. Ran(Jobs, 0, mem, mem') /\ Left(Jobs, 0, Jobs')
    BY <1>2, <2>1, <2>2, RanNothing
  <2>4. Runs(0)
    BY <1>1, <1>4, <2>2, <2>3 DEF Runs
  <2> QED BY <1>1, <2>2, <2>4, QueueRuns
<1> QED
  BY <1>3, <1>4

\* A performed copy keeps the types.
LEMMA DeviceCopyType ==
    ASSUME PrefetcherTypeOK, stream # <<>>,
           mem' = CopyInto(mem, Head(stream)), stream' = Tail(stream),
           performed' = performed + 1, UNCHANGED <<use_cuda, inflight, key_to_idx, pstats, ready>>
    PROVE  PrefetcherTypeOK'
<1> DEFINE t == Head(stream)
<1>1. t \in Copy /\ stream' \in Seq(Copy)
  BY DEF PrefetcherTypeOK
<1>2. /\ \A b \in 0 .. Cap - 1 :
            mem'[b] = IF b \in Span(t.dst, t.nbytes) THEN <<t.key, b - t.dst>> ELSE mem[b]
      /\ mem' = [b \in 0 .. Cap - 1 |-> mem'[b]]
  BY DEF PrefetcherTypeOK, CopyInto
<1> HIDE DEF t
<1>3. mem' \in [0 .. Cap - 1 -> WeightBytes \cup {Junk}]
  <2>1. ASSUME NEW b \in 0 .. Cap - 1 PROVE mem'[b] \in WeightBytes \cup {Junk}
    <3>1. t.key \in Keys /\ t.dst \in 0 .. Cap - 1 /\ t.nbytes \in Nat
      BY <1>1, CacheAssumption DEF Copy
    <3>2. CASE b \in Span(t.dst, t.nbytes)
      <4>1. b - t.dst \in 0 .. Cap - 1
        BY <3>1, <3>2, CapAssumption DEF Span
      <4>2. mem'[b] = <<t.key, b - t.dst>>
        BY <1>2, <3>2
      <4>3. <<t.key, b - t.dst>> \in WeightBytes
        BY <3>1, <4>1 DEF WeightBytes
      <4> QED BY <4>2, <4>3
    <3>3. CASE b \notin Span(t.dst, t.nbytes)
      BY <1>2, <3>3 DEF PrefetcherTypeOK
    <3> QED BY <3>2, <3>3
  <2>2. [b \in 0 .. Cap - 1 |-> mem'[b]] \in [0 .. Cap - 1 -> WeightBytes \cup {Junk}]
    BY <2>1
  <2> QED BY <1>2, <2>2
<1>4. performed' \in Nat
  BY DEF PrefetcherTypeOK
<1> QED
  BY <1>1, <1>3, <1>4 DEF PrefetcherTypeOK

\* The copy engine performs the oldest copy.
LEMMA DeviceCopyRuns ==
    ASSUME PrefetcherTypeOK, CopyInv, stream # <<>>,
           mem' = CopyInto(mem, Head(stream)), stream' = Tail(stream),
           performed' = performed + 1, UNCHANGED <<use_cuda, inflight, key_to_idx, pstats, ready>>
    PROVE  PrefetcherTypeOK' /\ \E c \in Nat : Runs(c)
<1> DEFINE t == Head(stream)
<1>1. /\ use_cuda /\ use_cuda' /\ stream \in Seq(Copy) /\ performed \in Nat /\ Len(stream) \in Nat
      /\ Len(stream) > 0
  BY DEF CopyInv, PrefetcherTypeOK
<1>2. /\ t \in Copy /\ t = stream[1] /\ stream' \in Seq(Copy) /\ Len(stream') = Len(stream) - 1
      /\ \A i \in 1 .. Len(stream) - 1 : stream'[i] = stream[i + 1]
  BY <1>1
<1>3. /\ DOMAIN Jobs = performed + 1 .. performed + Len(stream)
      /\ \A p \in DOMAIN Jobs : Jobs[p] = stream[p - performed]
  BY <1>1, JobsFacts
<1>4. /\ DOMAIN Jobs' = performed + 2 .. performed + Len(stream)
      /\ \A p \in DOMAIN Jobs' : Jobs'[p] = stream'[p - (performed + 1)]
  <2>1. Jobs' = [p \in performed' + 1 .. performed' + Len(stream')
                   |-> stream'[p - performed']]
    BY <1>1 DEF Jobs
  <2> QED BY <1>1, <1>2, <2>1
<1>5. Left(Jobs, performed + 1, Jobs')
  <2>1. DOMAIN Jobs' = {p \in DOMAIN Jobs : p > performed + 1}
    BY <1>1, <1>3, <1>4
  <2>2. ASSUME NEW p \in DOMAIN Jobs' PROVE Jobs'[p] = Jobs[p]
    <3>1. p - (performed + 1) \in 1 .. Len(stream) - 1
          /\ p - (performed + 1) + 1 = p - performed /\ p \in DOMAIN Jobs
      BY <1>1, <1>3, <1>4
    <3> QED BY <1>2, <1>3, <1>4, <3>1
  <2> QED BY <2>1, <2>2 DEF Left
<1>6. /\ performed + 1 \in DOMAIN Jobs /\ Jobs[performed + 1] = t
      /\ \A p \in DOMAIN Jobs : p <= performed + 1 => p = performed + 1
  <2>1. performed + 1 - performed = 1
    BY <1>1
  <2> QED BY <1>1, <1>2, <1>3, <2>1
<1>7. /\ DOMAIN mem = 0 .. Cap - 1
      /\ \A b \in 0 .. Cap - 1 :
            mem'[b] = IF b \in Span(t.dst, t.nbytes) THEN <<t.key, b - t.dst>> ELSE mem[b]
      /\ mem' = [b \in 0 .. Cap - 1 |-> mem'[b]]
  BY DEF PrefetcherTypeOK, CopyInto
<1> HIDE DEF t
<1>8. Ran(Jobs, performed + 1, mem, mem')
  <2> SUFFICES ASSUME NEW b \in 0 .. Cap - 1
               PROVE  \/ /\ mem'[b] = mem[b]
                         /\ \A p \in DOMAIN Jobs :
                              p <= performed + 1 => b \notin Span(Jobs[p].dst, Jobs[p].nbytes)
                      \/ \E p \in DOMAIN Jobs :
                           /\ p <= performed + 1 /\ b \in Span(Jobs[p].dst, Jobs[p].nbytes)
                           /\ mem'[b] = <<Jobs[p].key, b - Jobs[p].dst>>
                           /\ \A q \in DOMAIN Jobs :
                                q <= performed + 1 /\ b \in Span(Jobs[q].dst, Jobs[q].nbytes)
                                  => q <= p
    BY DEF Ran
  <2>0. performed + 1 <= performed + 1
    BY <1>1
  <2>1. CASE b \in Span(t.dst, t.nbytes)
    BY <1>6, <1>7, <2>0, <2>1
  <2>2. CASE b \notin Span(t.dst, t.nbytes)
    BY <1>6, <1>7, <2>2
  <2> QED BY <2>1, <2>2
<1>9. LastJob' = LastJob /\ \A y : JobOf(y)' = JobOf(y)
  BY <1>1, <1>2 DEF LastJob, JobOf
<1>10. Runs(performed + 1)
  BY <1>1, <1>5, <1>8, <1>9 DEF Runs
<1>11. PrefetcherTypeOK' /\ performed + 1 \in Nat
  BY <1>1, DeviceCopyType
<1> QED
  BY <1>10, <1>11

\* reset() forgets the transfers: the mock's queue becomes empty, the stream stays.
LEMMA ResetInv ==
    ASSUME PrefetchInv, Reset PROVE PrefetchInv' /\ DOMAIN Jobs' \subseteq DOMAIN Jobs
<1>1. /\ CacheInv' /\ SameBlocks
      /\ UNCHANGED <<use_cuda, pstats, stream, performed, mem, ready>>
      /\ inflight' = <<>> /\ DOMAIN key_to_idx' = {}
  <2>1. UNCHANGED <<arena, blocks, tick, stats, out, use_cuda, pstats, stream,
                    performed, mem, ready>>
    BY DEF Reset, cacheVars
  <2> QED
    BY <2>1 DEF PrefetchInv, SameBlocks, Resident, CacheInv, CacheTypeOK, BlocksDisjoint,
                BlocksCoverTaken, Bytes, KeySpan, Reset
<1>2. PrefetcherTypeOK'
  BY <1>1 DEF PrefetchInv, PrefetcherTypeOK
<1>3. \A p \in DOMAIN Jobs' : p \in DOMAIN Jobs /\ Jobs'[p] = Jobs[p]
  <2>1. CASE use_cuda
    BY <1>1, <2>1 DEF Jobs
  <2>2. CASE ~use_cuda
    <3>1. Jobs' = [i \in {j \in DOMAIN inflight' : ~inflight'[j].done} |-> inflight'[i]]
      BY <1>1, <2>2 DEF Jobs
    <3>2. DOMAIN inflight' = {}
      BY <1>1
    <3> QED BY <3>1, <3>2
  <2> QED BY <2>1, <2>2
<1>4. ASSUME NEW x \in ready' \cap Resident'
      PROVE  Settled(x, blocks'[x].off, blocks'[x].size, Jobs', mem')
  <2>1. /\ x \in ready \cap Resident
        /\ blocks'[x].off = blocks[x].off /\ blocks'[x].size = blocks[x].size
    BY <1>1 DEF SameBlocks
  <2>2. Settled(x, blocks[x].off, blocks[x].size, Jobs, mem)
    BY <2>1 DEF PrefetchInv, CopyInv
  <2>3. Settled(x, blocks[x].off, blocks[x].size, Jobs', mem')
    BY <1>1, <1>3, <2>2 DEF Settled
  <2> QED BY <2>1, <2>3
<1>5. CopyInv'
  <2>1. (~use_cuda => stream = <<>>)' /\ \A x \in Resident' : blocks'[x].size = BlobSize[x]
    BY <1>1 DEF SameBlocks, PrefetchInv, CopyInv
  <2> QED BY <1>1, <1>4, <2>1 DEF CopyInv
<1> QED
  BY <1>1, <1>2, <1>3, <1>5 DEF PrefetchInv
------------------------------------------------------------------------------
(***************************************************************************)
(* Prefetching                                                              *)
(***************************************************************************)

\* A transfer takes the position after the last one, as the last transfer of its
\* expert.
LEMMA EnqueueFacts ==
    ASSUME PrefetcherTypeOK, CudaFails = FALSE, CopyInv, NEW t \in Copy, Enqueue(t),
           UNCHANGED <<use_cuda, performed>>
    PROVE  /\ inflight' \in Seq(Transfer) /\ stream' \in Seq(Copy)
           /\ pstats' \in PrefetchStats
           /\ DOMAIN key_to_idx' = DOMAIN key_to_idx \cup {t.key}
           /\ \A y \in DOMAIN key_to_idx' : key_to_idx'[y] \in DOMAIN inflight'
           /\ ~use_cuda => stream' = <<>>
           /\ LastJob' = LastJob + 1
           /\ \E u : /\ Queued(Jobs, u, LastJob + 1, Jobs')
                     /\ u.key = t.key /\ u.dst = t.dst /\ u.nbytes = t.nbytes
           /\ JobOf(t.key)' = LastJob + 1
           /\ \A y \in DOMAIN key_to_idx : y # t.key => JobOf(y)' = JobOf(y)
<1>1. /\ inflight \in Seq(Transfer) /\ stream \in Seq(Copy) /\ performed \in Nat
      /\ Len(inflight) \in Nat /\ Len(stream) \in Nat /\ DOMAIN inflight = 1 .. Len(inflight)
      /\ \A y \in DOMAIN key_to_idx : key_to_idx[y] \in 1 .. Len(inflight)
      /\ t.key \in Keys /\ t.dst \in 0 .. Cap - 1 /\ t.nbytes \in Sizes
      /\ pstats \in PrefetchStats
  BY DEF PrefetcherTypeOK, Copy, PrefetchStats
<1>2. /\ key_to_idx' = [j \in DOMAIN key_to_idx \cup {t.key} |->
                          IF j = t.key THEN Len(inflight) + 1 ELSE key_to_idx[j]]
      /\ pstats' = [pstats EXCEPT !.issued = @ + 1]
  BY DEF Enqueue
<1>3. pstats' \in PrefetchStats
  BY <1>1, <1>2, PrefetchStatsUpdate
<1>4. /\ DOMAIN key_to_idx' = DOMAIN key_to_idx \cup {t.key}
      /\ key_to_idx'[t.key] = Len(inflight) + 1
      /\ \A y \in DOMAIN key_to_idx : y # t.key => key_to_idx'[y] = key_to_idx[y]
  BY <1>2
<1>5. ASSUME NEW e \in Nat \cup {NoEvent}, NEW r,
             r = [key |-> t.key, dst |-> t.dst, nbytes |-> t.nbytes, done |-> FALSE, event |-> e],
             inflight' = Append(inflight, r)
      PROVE  /\ inflight' \in Seq(Transfer) /\ Len(inflight') = Len(inflight) + 1
             /\ DOMAIN inflight' = 1 .. Len(inflight) + 1
             /\ \A i \in 1 .. Len(inflight) : inflight'[i] = inflight[i]
             /\ inflight'[Len(inflight) + 1] = r
             /\ \A y \in DOMAIN key_to_idx' : key_to_idx'[y] \in DOMAIN inflight'
  <2>1. r \in Transfer
    BY <1>1, <1>5 DEF Transfer
  <2>2. /\ inflight' \in Seq(Transfer) /\ Len(inflight') = Len(inflight) + 1
        /\ \A i \in 1 .. Len(inflight) : inflight'[i] = inflight[i]
        /\ inflight'[Len(inflight) + 1] = r
    BY <1>1, <1>5, <2>1
  <2>3. DOMAIN inflight' = 1 .. Len(inflight) + 1
    BY <2>2
  <2>4. \A i \in 1 .. Len(inflight) : i \in 1 .. Len(inflight) + 1
    BY <1>1
  <2>5. Len(inflight) + 1 \in 1 .. Len(inflight) + 1
    BY <1>1
  <2>6. \A y \in DOMAIN key_to_idx' : key_to_idx'[y] \in DOMAIN inflight'
    BY <1>1, <1>4, <2>3, <2>4, <2>5
  <2> QED BY <2>2, <2>3, <2>6
<1>6. CASE ~use_cuda
  <2> DEFINE r == [key |-> t.key, dst |-> t.dst, nbytes |-> t.nbytes,
                   done |-> FALSE, event |-> NoEvent]
  <2>1. inflight' = Append(inflight, r) /\ stream' = stream /\ stream = <<>>
    BY <1>6 DEF Enqueue, CopyInv
  <2>2. /\ inflight' \in Seq(Transfer) /\ Len(inflight') = Len(inflight) + 1
        /\ DOMAIN inflight' = 1 .. Len(inflight) + 1
        /\ \A i \in 1 .. Len(inflight) : inflight'[i] = inflight[i]
        /\ inflight'[Len(inflight) + 1] = r
        /\ \A y \in DOMAIN key_to_idx' : key_to_idx'[y] \in DOMAIN inflight'
    BY <1>5, <2>1
  <2>3. /\ r.key = t.key /\ r.dst = t.dst /\ r.nbytes = t.nbytes /\ r.done = FALSE
    OBVIOUS
  <2> HIDE DEF r
  <2>4. /\ LastJob = Len(inflight) /\ LastJob' = Len(inflight')
        /\ \A y : JobOf(y) = key_to_idx[y] /\ JobOf(y)' = key_to_idx'[y]
    BY <1>6 DEF LastJob, JobOf
  <2>5. /\ DOMAIN Jobs = {i \in 1 .. Len(inflight) : ~inflight[i].done}
        /\ \A p \in DOMAIN Jobs : Jobs[p] = inflight[p]
    BY <1>6, JobsFacts
  <2>6. /\ DOMAIN Jobs' = {i \in 1 .. Len(inflight) + 1 : ~inflight'[i].done}
        /\ \A p \in DOMAIN Jobs' : Jobs'[p] = inflight'[p]
    <3>1. Jobs' = [i \in {j \in DOMAIN inflight' : ~inflight'[j].done} |-> inflight'[i]]
      BY <1>6 DEF Jobs
    <3> QED BY <2>2, <3>1
  <2>7. Queued(Jobs, r, Len(inflight) + 1, Jobs')
    BY <1>1, <2>2, <2>3, <2>5, <2>6 DEF Queued
  <2> QED
    BY <1>1, <1>3, <1>4, <1>6, <2>1, <2>2, <2>3, <2>4, <2>7
<1>7. CASE use_cuda
  <2> DEFINE r == [key |-> t.key, dst |-> t.dst, nbytes |-> t.nbytes,
                   done |-> FALSE, event |-> performed + Len(stream) + 1]
  <2>1. /\ stream' = Append(stream, t)
        /\ inflight' = Append(inflight, [key |-> t.key, dst |-> t.dst, nbytes |-> t.nbytes,
                                   done |-> FALSE, event |-> performed + Len(Append(stream, t))])
    BY <1>7 DEF Enqueue, Submit
  <2>2. /\ stream' \in Seq(Copy) /\ Len(stream') = Len(stream) + 1
        /\ \A i \in 1 .. Len(stream) : stream'[i] = stream[i]
        /\ stream'[Len(stream) + 1] = t
    BY <1>1, <2>1
  <2>3. performed + Len(Append(stream, t)) = performed + Len(stream) + 1
    BY <1>1, <2>1, <2>2
  <2>4. inflight' = Append(inflight, r)
    BY <2>1, <2>3
  <2>5. r.event = performed + Len(stream) + 1 /\ performed + Len(stream) + 1 \in Nat
    BY <1>1
  <2>6. /\ inflight' \in Seq(Transfer) /\ Len(inflight') = Len(inflight) + 1
        /\ \A i \in 1 .. Len(inflight) : inflight'[i] = inflight[i]
        /\ inflight'[Len(inflight) + 1] = r
        /\ \A y \in DOMAIN key_to_idx' : key_to_idx'[y] \in DOMAIN inflight'
    BY <1>5, <2>4, <2>5
  <2> HIDE DEF r
  <2>7. /\ LastJob = performed + Len(stream) /\ LastJob' = performed + Len(stream')
        /\ \A y : JobOf(y) = inflight[key_to_idx[y]].event
        /\ \A y : JobOf(y)' = inflight'[key_to_idx'[y]].event
    BY <1>7 DEF LastJob, JobOf
  <2>8. JobOf(t.key)' = LastJob + 1 /\ LastJob' = LastJob + 1
    BY <1>1, <1>4, <2>2, <2>5, <2>6, <2>7
  <2>9. \A y \in DOMAIN key_to_idx : y # t.key => JobOf(y)' = JobOf(y)
    BY <1>1, <1>4, <2>6, <2>7
  <2>10. /\ DOMAIN Jobs = performed + 1 .. performed + Len(stream)
         /\ \A p \in DOMAIN Jobs : Jobs[p] = stream[p - performed]
    BY <1>7, JobsFacts
  <2>11. /\ DOMAIN Jobs' = performed + 1 .. performed + Len(stream')
         /\ \A p \in DOMAIN Jobs' : Jobs'[p] = stream'[p - performed]
    <3>1. Jobs' = [p \in performed + 1 .. performed + Len(stream') |-> stream'[p - performed]]
      BY <1>7 DEF Jobs
    <3> QED BY <3>1
  <2>12. Queued(Jobs, t, LastJob + 1, Jobs')
    <3>1. DOMAIN Jobs' = DOMAIN Jobs \cup {LastJob + 1}
      BY <1>1, <2>2, <2>7, <2>10, <2>11
    <3>2. ASSUME NEW p \in DOMAIN Jobs PROVE Jobs'[p] = Jobs[p]
      <4>1. p - performed \in 1 .. Len(stream)
        BY <1>1, <2>10
      <4> QED BY <2>2, <2>10, <2>11, <3>1, <4>1
    <3>3. Jobs'[LastJob + 1] = t
      <4>1. PICK z : z = LastJob + 1
        OBVIOUS
      <4>2. z \in DOMAIN Jobs' /\ z - performed = Len(stream) + 1
        BY <1>1, <2>7, <3>1, <4>1
      <4>3. Jobs'[z] = stream'[z - performed]
        BY <2>11, <4>2
      <4> QED BY <2>2, <4>1, <4>2, <4>3
    <3> QED BY <3>1, <3>2, <3>3 DEF Queued
  <2> QED
    BY <1>3, <1>4, <1>7, <2>2, <2>6, <2>8, <2>9, <2>12
<1> QED
  BY <1>6, <1>7

\* prefetch(): the expert's block is the target of its new transfer, and of no
\* transfer after that; the blocks that stay are not touched by it.
LEMMA PrefetchStepInv ==
    ASSUME PrefetchInv, CudaFails = FALSE, NEW x \in Keys, NEW pr \in Priorities,
           Prefetch(x, pr)
    PROVE  /\ PrefetchInv'
           /\ LastJob \in Nat
           /\ out'.ok => /\ DOMAIN key_to_idx' = DOMAIN key_to_idx \cup {x}
                         /\ x \in Resident'
                         /\ LastJob' = LastJob + 1 /\ JobOf(x)' = LastJob + 1
                         /\ DOMAIN Jobs' = DOMAIN Jobs \cup {LastJob + 1}
           /\ ~out'.ok => /\ key_to_idx' = key_to_idx /\ Jobs' = Jobs /\ LastJob' = LastJob
                          /\ Resident' \subseteq Resident
                          /\ \A y : JobOf(y)' = JobOf(y)
           /\ Resident' \subseteq Resident \cup {x}
           /\ out'.ok \in BOOLEAN /\ (x \in Resident => out'.ok)
<1> DEFINE n == BlobSize[x]
           t == [key |-> x, dst |-> blocks'[x].off, nbytes |-> n]
<1>1. n \in Sizes /\ Ensure(x, n, pr) /\ CacheInv /\ PrefetcherTypeOK /\ CopyInv
  BY PrefetcherAssumption DEF Prefetch, PrefetchInv
<1>2. /\ CacheInv'
      /\ Resident' \subseteq Resident \cup {x}
      /\ \A j \in Resident \cap Resident' :
           blocks'[j].off = blocks[j].off /\ blocks'[j].size = blocks[j].size
      /\ out'.ok => x \in Resident'
      /\ out'.ok /\ x \notin Resident => blocks'[x].size = n
      /\ ~out'.ok => Resident' \subseteq Resident
      /\ x \in Resident => Resident' = Resident /\ out'.ok
      /\ out'.ok \in BOOLEAN
  <2> HIDE DEF n
  <2> QED BY <1>1, EnsureFacts
<1>3. /\ ready' = ready \cap Resident \cap Resident'
      /\ UNCHANGED <<use_cuda, performed, mem>>
      /\ out'.ok => Enqueue(t)
      /\ ~out'.ok => UNCHANGED <<inflight, key_to_idx, pstats, stream>>
  BY DEF Prefetch, Resident
<1>4. \A y \in Resident' : blocks'[y].size = BlobSize[y]
  BY <1>1, <1>2 DEF CopyInv
<1>5. LastJob \in Nat /\ DOMAIN Jobs \subseteq 1 .. LastJob
  BY <1>1, JobsFacts
<1>6. CASE ~out'.ok
  <2>1. UNCHANGED <<inflight, key_to_idx, pstats, stream, use_cuda, performed, mem>>
    BY <1>3, <1>6
  <2>2. PrefetcherTypeOK'
    BY <1>1, <1>3, <2>1 DEF PrefetcherTypeOK
  <2>3. Jobs' = Jobs /\ LastJob' = LastJob /\ \A y : JobOf(y)' = JobOf(y)
    BY <2>1 DEF Jobs, LastJob, JobOf
  <2>4. CopyInv'
    <3>1. (~use_cuda => stream = <<>>)' /\ \A y \in DOMAIN key_to_idx' : JobOf(y)' \in 1 .. LastJob'
      BY <1>1, <2>1, <2>3 DEF CopyInv
    <3>2. ASSUME NEW y \in Resident'
          PROVE  y \in Resident /\ blocks'[y].off = blocks[y].off
                 /\ blocks'[y].size = blocks[y].size
      BY <1>2, <1>6
    <3>3. \A y \in Resident' \cap DOMAIN key_to_idx' :
            Covered(y, blocks'[y].off, blocks'[y].size, JobOf(y)', Jobs', mem')
      BY <1>1, <2>1, <2>3, <3>2 DEF CopyInv
    <3>4. \A y \in ready' \cap Resident' :
            Settled(y, blocks'[y].off, blocks'[y].size, Jobs', mem')
      BY <1>1, <1>3, <2>1, <2>3, <3>2 DEF CopyInv
    <3> QED BY <1>4, <3>1, <3>3, <3>4 DEF CopyInv
  <2> QED BY <1>2, <1>5, <1>6, <2>1, <2>2, <2>3, <2>4 DEF PrefetchInv
<1>7. CASE out'.ok
  <2>1. x \in Resident' /\ Enqueue(t) /\ blocks'[x].size = n
    BY <1>2, <1>3, <1>4, <1>7
  <2>2. blocks'[x].off \in 0 .. Cap - 1
    <3>1. blocks'[x] \in Block
      BY <1>2, <2>1 DEF CacheInv, CacheTypeOK
    <3> QED BY <3>1 DEF Block
  <2>3. t \in Copy /\ t.key = x /\ t.dst = blocks'[x].off /\ t.nbytes = n
    BY <1>1, <2>2 DEF Copy
  <2> HIDE DEF t
  <2>4. /\ inflight' \in Seq(Transfer) /\ stream' \in Seq(Copy)
        /\ pstats' \in PrefetchStats
        /\ DOMAIN key_to_idx' = DOMAIN key_to_idx \cup {x}
        /\ \A y \in DOMAIN key_to_idx' : key_to_idx'[y] \in DOMAIN inflight'
        /\ ~use_cuda => stream' = <<>>
        /\ LastJob' = LastJob + 1
        /\ \E u : /\ Queued(Jobs, u, LastJob + 1, Jobs')
                  /\ u.key = x /\ u.dst = t.dst /\ u.nbytes = t.nbytes
        /\ JobOf(x)' = LastJob + 1
        /\ \A y \in DOMAIN key_to_idx : y # x => JobOf(y)' = JobOf(y)
    <3>1. PICK w : w = t
      OBVIOUS
    <3>2. w \in Copy /\ Enqueue(w) /\ UNCHANGED <<use_cuda, performed>> /\ w.key = x
      BY <1>3, <2>1, <2>3, <3>1
    <3>3. /\ inflight' \in Seq(Transfer) /\ stream' \in Seq(Copy)
          /\ pstats' \in PrefetchStats
          /\ DOMAIN key_to_idx' = DOMAIN key_to_idx \cup {w.key}
          /\ \A y \in DOMAIN key_to_idx' : key_to_idx'[y] \in DOMAIN inflight'
          /\ ~use_cuda => stream' = <<>>
          /\ LastJob' = LastJob + 1
          /\ \E u : /\ Queued(Jobs, u, LastJob + 1, Jobs')
                    /\ u.key = w.key /\ u.dst = w.dst /\ u.nbytes = w.nbytes
          /\ JobOf(w.key)' = LastJob + 1
          /\ \A y \in DOMAIN key_to_idx : y # w.key => JobOf(y)' = JobOf(y)
      BY <1>1, <3>2, EnqueueFacts
    <3> QED BY ONLY <3>1, <3>2, <3>3
  <2>5. PICK u : /\ Queued(Jobs, u, LastJob + 1, Jobs')
                 /\ u.key = x /\ u.dst = blocks'[x].off /\ u.nbytes = blocks'[x].size
    BY <2>1, <2>3, <2>4
  <2>6. PrefetcherTypeOK'
    BY <1>1, <1>3, <2>4 DEF PrefetcherTypeOK, PrefetchStats
  <2>7. LastJob + 1 \in Nat /\ DOMAIN Jobs \subseteq Nat /\ \A p \in DOMAIN Jobs : p < LastJob + 1
    BY <1>5
  <2>8. Own(u, x, blocks'[x].off)
    BY <2>5 DEF Own
  <2>9. /\ Covered(x, blocks'[x].off, blocks'[x].size, LastJob + 1, Jobs', mem)
        /\ Settled(x, blocks'[x].off, blocks'[x].size, Jobs, mem)
             => Settled(x, blocks'[x].off, blocks'[x].size, Jobs', mem)
    BY <2>5, <2>7, <2>8, QueueOwn
  <2>10. ASSUME NEW y \in Resident', y # x
         PROVE  /\ ~Writes(u, blocks[y].off, blocks[y].size)
                /\ y \in Resident /\ blocks'[y].off = blocks[y].off
                /\ blocks'[y].size = blocks[y].size
    <3>1. y \in Resident /\ blocks'[y].off = blocks[y].off /\ blocks'[y].size = blocks[y].size
      BY <1>2, <2>10
    <3>2. Span(blocks'[x].off, blocks'[x].size) \cap Span(blocks'[y].off, blocks'[y].size) = {}
      BY <1>2, <2>1, <2>10 DEF CacheInv, BlocksDisjoint, KeySpan
    <3> QED BY <2>5, <3>1, <3>2 DEF Writes
  <2>11. ASSUME NEW y \in Resident', y # x
         PROVE  /\ y \in ready => Settled(y, blocks'[y].off, blocks'[y].size, Jobs', mem)
                /\ y \in DOMAIN key_to_idx
                     => Covered(y, blocks'[y].off, blocks'[y].size, JobOf(y), Jobs', mem)
    <3>1. PICK off, sz : off = blocks[y].off /\ sz = blocks[y].size
      OBVIOUS
    <3>2. /\ ~Writes(u, off, sz) /\ y \in Resident
          /\ blocks'[y].off = off /\ blocks'[y].size = sz
      BY <2>10, <2>11, <3>1
    <3>3. Queued(Jobs, u, LastJob + 1, Jobs')
      BY <2>5
    <3>4. y \in ready => Settled(y, off, sz, Jobs, mem)
      BY <1>1, <3>1, <3>2 DEF CopyInv
    <3>5. y \in ready => Settled(y, off, sz, Jobs', mem)
      BY ONLY <3>2, <3>3, <3>4, QueueElsewhere
    <3>6. ASSUME y \in DOMAIN key_to_idx PROVE Covered(y, off, sz, JobOf(y), Jobs', mem)
      <4>1. PICK e : e = JobOf(y)
        OBVIOUS
      <4>2. e # LastJob + 1
        BY <1>1, <1>5, <3>6, <4>1 DEF CopyInv
      <4>3. Covered(y, off, sz, e, Jobs, mem)
        BY <1>1, <3>1, <3>2, <3>6, <4>1 DEF CopyInv
      <4>4. Covered(y, off, sz, e, Jobs', mem)
        BY ONLY <3>2, <3>3, <4>2, <4>3, QueueElsewhere
      <4> QED BY ONLY <4>1, <4>4
    <3> QED BY <3>2, <3>5, <3>6
  <2>12. CopyInv'
    <3>1. (~use_cuda => stream = <<>>)'
      BY <1>3, <2>4
    <3>2. \A y \in DOMAIN key_to_idx' : JobOf(y)' \in 1 .. LastJob'
      <4>1. \A p \in 1 .. LastJob : p \in 1 .. LastJob + 1
        BY <1>5
      <4>2. LastJob + 1 \in 1 .. LastJob + 1
        BY <1>5
      <4>3. \A y \in DOMAIN key_to_idx : JobOf(y) \in 1 .. LastJob
        BY <1>1 DEF CopyInv
      <4> QED BY <2>4, <4>1, <4>2, <4>3
    <3>3. ASSUME NEW y \in Resident' \cap DOMAIN key_to_idx'
          PROVE  Covered(y, blocks'[y].off, blocks'[y].size, JobOf(y)', Jobs', mem')
      <4>1. CASE y = x
        BY <1>3, <2>4, <2>9, <4>1
      <4>2. CASE y # x
        BY <1>3, <2>4, <2>11, <4>2
      <4> QED BY <4>1, <4>2
    <3>4. ASSUME NEW y \in ready' \cap Resident'
          PROVE  Settled(y, blocks'[y].off, blocks'[y].size, Jobs', mem')
      <4>1. y \in ready /\ y \in Resident
        BY <1>3
      <4>2. CASE y = x
        <5>1. Settled(x, blocks'[x].off, blocks'[x].size, Jobs, mem)
          BY <1>1, <1>2, <2>1, <4>1, <4>2 DEF CopyInv
        <5> QED BY <1>3, <2>9, <4>2, <5>1
      <4>3. CASE y # x
        BY <1>3, <2>11, <4>1, <4>3
      <4> QED BY <4>2, <4>3
    <3> QED BY <1>4, <3>1, <3>2, <3>3, <3>4 DEF CopyInv
  <2>13. DOMAIN Jobs' = DOMAIN Jobs \cup {LastJob + 1}
    BY <2>5 DEF Queued
  <2> QED BY <1>2, <1>5, <1>7, <2>1, <2>4, <2>6, <2>12, <2>13 DEF PrefetchInv
<1> QED
  BY <1>2, <1>6, <1>7
------------------------------------------------------------------------------
(***************************************************************************)
(* The specification                                                        *)
(***************************************************************************)

\* Nothing is resident and nothing queued.
LEMMA InitPrefetchInv == Init => PrefetchInv
<1> SUFFICES ASSUME Init PROVE PrefetchInv
  OBVIOUS
<1>1. CacheInv
  BY CacheInitInv DEF Init
<1>2. PrefetcherTypeOK
  BY DEF Init, PrefetcherInit, PrefetcherTypeOK
<1>3. Resident = {} /\ DOMAIN key_to_idx = {} /\ stream = <<>>
  BY DEF Init, PrefetcherInit, CacheInit, Resident
<1>4. CopyInv
  BY <1>3 DEF CopyInv
<1> QED
  BY <1>1, <1>2, <1>4 DEF PrefetchInv

\* A step that leaves the cache alone keeps its invariant.
LEMMA SameCache ==
    ASSUME CacheInv, UNCHANGED cacheVars PROVE CacheInv' /\ SameBlocks
  BY DEF cacheVars, SameBlocks, Resident, CacheInv, CacheTypeOK, BlocksDisjoint,
         BlocksCoverTaken, Bytes, KeySpan

\* A step that changes nothing.
LEMMA StutterInv ==
    ASSUME PrefetchInv, UNCHANGED vars
    PROVE  /\ PrefetchInv' /\ Jobs' = Jobs /\ LastJob' = LastJob
           /\ \A y : JobOf(y)' = JobOf(y)
<1>1. CacheInv' /\ SameBlocks
  BY SameCache DEF vars, PrefetchInv
<1>2. UNCHANGED pfVars
  BY DEF vars
<1>3. /\ PrefetcherTypeOK' /\ PrefetcherTypeOK /\ Jobs' = Jobs /\ LastJob' = LastJob
      /\ \A y : JobOf(y)' = JobOf(y)
  BY <1>2 DEF pfVars, PrefetchInv, PrefetcherTypeOK, Jobs, LastJob, JobOf
<1>4. Ran(Jobs, 0, mem, mem') /\ Left(Jobs, 0, Jobs')
  BY <1>2, <1>3, JobsFacts, RanNothing DEF pfVars
<1>5. Runs(0) /\ ready' = ready
  BY <1>2, <1>3, <1>4 DEF Runs, pfVars, PrefetchInv, CopyInv
<1> QED
  BY <1>1, <1>3, <1>5, QueueRuns

\* Every step keeps the invariant.
LEMMA NextPrefetchInv ==
    ASSUME CudaFails = FALSE PROVE PrefetchInv /\ [Next]_vars => PrefetchInv'
<1> SUFFICES ASSUME PrefetchInv, [Next]_vars PROVE PrefetchInv'
  OBVIOUS
<1>1. ASSUME NEW x \in Keys, NEW pr \in Priorities, Prefetch(x, pr) PROVE PrefetchInv'
  BY <1>1, PrefetchStepInv
<1>2. ASSUME NEW x \in Keys, Wait(x) PROVE PrefetchInv'
  <2>1. CacheInv' /\ SameBlocks /\ WaitStep(x)
    BY <1>2, SameCache DEF Wait, PrefetchInv
  <2> QED BY <2>1, WaitStepInv
<1>3. CASE SynchronizeAll
  BY <1>3, SynchronizeInv
<1>4. CASE Reset
  BY <1>4, ResetInv
<1>5. CASE DeviceCopy
  <2>1. CacheInv' /\ SameBlocks
    BY <1>5, SameCache DEF DeviceCopy, PrefetchInv
  <2>2. PrefetcherTypeOK' /\ (\E c \in Nat : Runs(c)) /\ ready' = ready
    BY <1>5, DeviceCopyRuns DEF DeviceCopy, PrefetchInv
  <2> QED BY <2>1, <2>2, QueueRuns
<1>6. CASE UNCHANGED vars
  BY <1>6, StutterInv
<1> QED
  BY <1>1, <1>2, <1>3, <1>4, <1>5, <1>6 DEF Next

\* The invariant holds in every reachable state of the prefetcher, for both
\* backends, as long as cudaMemcpyAsync and cudaEventCreate do not fail
\* (async_prefetcher.cpp:33-175).
THEOREM PrefetchInvariant ==
    ASSUME CudaFails = FALSE PROVE Spec => []PrefetchInv
<1>1. Init => PrefetchInv
  BY InitPrefetchInv
<1>2. PrefetchInv /\ [Next]_vars => PrefetchInv'
  BY NextPrefetchInv
<1> QED
  BY <1>1, <1>2, PTL DEF Spec

\* Once wait() answered true for an expert, its block holds its weights, byte for
\* byte, as long as it is resident: drain_until() runs all earlier transfers in
\* order, and an event covers all earlier copies of the stream
\* (async_prefetcher.cpp:102-131, 164-175).
THEOREM PrefetchReadyHoldsWeights ==
    ASSUME CudaFails = FALSE PROVE Spec => []ReadyHoldsWeights
<1>1. PrefetchInv => ReadyHoldsWeights
  BY DEF PrefetchInv, CopyInv, Settled, LoadedAt, ReadyHoldsWeights, Loaded, KeySpan
<1> QED
  BY <1>1, PrefetchInvariant, PTL

\* Nor is a copy of another expert into that block still to come: a block's bytes
\* are given to another expert only by evicting it (async_prefetcher.cpp:74-101).
THEOREM PrefetchReadyNotUnderCopy ==
    ASSUME CudaFails = FALSE PROVE Spec => []ReadyNotUnderCopy
<1>1. PrefetchInv => ReadyNotUnderCopy
  <2> SUFFICES ASSUME PrefetchInv, NEW k \in ready \cap Resident, NEW t \in Pending, t.key # k
               PROVE  Span(t.dst, t.nbytes) \cap KeySpan(k) = {}
    BY DEF ReadyNotUnderCopy
  <2>1. PICK p \in DOMAIN Jobs : Jobs[p] = t
    <3>1. CASE use_cuda
      <4>1. PICK i \in DOMAIN stream : t = stream[i]
        BY <3>1 DEF Pending
      <4>2. /\ DOMAIN Jobs = performed + 1 .. performed + Len(stream)
            /\ \A p \in DOMAIN Jobs : Jobs[p] = stream[p - performed]
            /\ performed \in Nat /\ DOMAIN stream = 1 .. Len(stream) /\ Len(stream) \in Nat
        <5>1. PrefetcherTypeOK
          BY DEF PrefetchInv
        <5>2. performed \in Nat /\ DOMAIN stream = 1 .. Len(stream) /\ Len(stream) \in Nat
          BY <5>1 DEF PrefetcherTypeOK
        <5> QED BY <3>1, <5>1, <5>2, JobsFacts
      <4>3. i \in Nat /\ performed + i \in DOMAIN Jobs /\ performed + i - performed = i
        BY <4>2
      <4> QED BY <4>1, <4>2, <4>3
    <3>2. CASE ~use_cuda
      BY <3>2 DEF Pending, Jobs
    <3> QED BY <3>1, <3>2
  <2>2. Settled(k, blocks[k].off, blocks[k].size, Jobs, mem)
    BY DEF PrefetchInv, CopyInv
  <2> QED BY <2>1, <2>2 DEF Settled, Writes, Own, KeySpan
<1> QED
  BY <1>1, PrefetchInvariant, PTL
------------------------------------------------------------------------------
(***************************************************************************)
(* Types, when CUDA calls may fail                                          *)
(***************************************************************************)
PrefetchTypeInv == CacheInv /\ PrefetcherTypeOK

\* A transfer is recorded with the right types, with an event or without.
LEMMA EnqueueType ==
    ASSUME PrefetcherTypeOK, NEW t \in Copy, Enqueue(t)
    PROVE  /\ inflight' \in Seq(Transfer) /\ stream' \in Seq(Copy)
           /\ pstats' \in PrefetchStats
           /\ DOMAIN key_to_idx' \subseteq Keys
           /\ \A x \in DOMAIN key_to_idx' : key_to_idx'[x] \in DOMAIN inflight'
<1>1. /\ inflight \in Seq(Transfer) /\ stream \in Seq(Copy) /\ performed \in Nat
      /\ Len(inflight) \in Nat /\ Len(stream) \in Nat /\ DOMAIN inflight = 1 .. Len(inflight)
      /\ \A x \in DOMAIN key_to_idx : key_to_idx[x] \in 1 .. Len(inflight)
      /\ DOMAIN key_to_idx \subseteq Keys
      /\ t.key \in Keys /\ t.dst \in 0 .. Cap - 1 /\ t.nbytes \in Sizes
      /\ pstats \in PrefetchStats
  BY DEF PrefetcherTypeOK, Copy, PrefetchStats
<1>2. stream' = stream \/ stream' = Append(stream, t)
  BY DEF Enqueue, Submit
<1>3. stream' \in Seq(Copy) /\ Len(stream') \in Nat
  BY <1>1, <1>2
<1>4. PICK e \in Nat \cup {NoEvent} :
        inflight' = Append(inflight, [key |-> t.key, dst |-> t.dst, nbytes |-> t.nbytes,
                                      done |-> FALSE, event |-> e])
  <2>1. CASE ~use_cuda
    BY <2>1 DEF Enqueue
  <2>2. CASE use_cuda
    <3>1. PICK e : /\ e = NoEvent \/ e = performed + Len(stream')
                   /\ inflight' = Append(inflight, [key |-> t.key, dst |-> t.dst,
                                           nbytes |-> t.nbytes, done |-> FALSE, event |-> e])
      BY <2>2 DEF Enqueue, Submit
    <3>2. e \in Nat \cup {NoEvent}
      BY <1>1, <1>3, <3>1
    <3> QED BY <3>1, <3>2
  <2> QED BY <2>1, <2>2
<1>5. PICK r \in Transfer : inflight' = Append(inflight, r)
  <2>1. [key |-> t.key, dst |-> t.dst, nbytes |-> t.nbytes, done |-> FALSE, event |-> e]
          \in Transfer
    BY <1>1 DEF Transfer
  <2> QED BY <1>4, <2>1
<1>6. /\ inflight' \in Seq(Transfer) /\ Len(inflight') = Len(inflight) + 1
      /\ DOMAIN inflight' = 1 .. Len(inflight) + 1
  BY <1>1, <1>5
<1>7. /\ key_to_idx' = [j \in DOMAIN key_to_idx \cup {t.key} |->
                          IF j = t.key THEN Len(inflight) + 1 ELSE key_to_idx[j]]
      /\ pstats' = [pstats EXCEPT !.issued = @ + 1]
  BY DEF Enqueue
<1>8. pstats' \in PrefetchStats
  BY <1>1, <1>7, PrefetchStatsUpdate
<1>9. ASSUME NEW x \in DOMAIN key_to_idx' PROVE key_to_idx'[x] \in DOMAIN inflight'
  <2>1. \A i \in 1 .. Len(inflight) : i \in 1 .. Len(inflight) + 1
    BY <1>1
  <2>2. Len(inflight) + 1 \in 1 .. Len(inflight) + 1
    BY <1>1
  <2> QED BY <1>1, <1>6, <1>7, <2>1, <2>2
<1> QED
  BY <1>1, <1>3, <1>6, <1>7, <1>8, <1>9

\* prefetch() keeps the types.
LEMMA PrefetchType ==
    ASSUME PrefetchTypeInv, NEW x \in Keys, NEW pr \in Priorities, Prefetch(x, pr)
    PROVE  PrefetchTypeInv'
<1> DEFINE t == [key |-> x, dst |-> blocks'[x].off, nbytes |-> BlobSize[x]]
<1>1. BlobSize[x] \in Sizes /\ Ensure(x, BlobSize[x], pr) /\ CacheInv /\ PrefetcherTypeOK
  BY PrefetcherAssumption DEF Prefetch, PrefetchTypeInv
<1>2. CacheInv' /\ (out'.ok => x \in Resident') /\ out'.ok \in BOOLEAN
  BY <1>1, EnsureFacts
<1>3. /\ ready' \subseteq ready /\ UNCHANGED <<use_cuda, performed, mem>>
      /\ out'.ok => Enqueue(t)
      /\ ~out'.ok => UNCHANGED <<inflight, key_to_idx, pstats, stream>>
  BY DEF Prefetch
<1>4. CASE ~out'.ok
  BY <1>1, <1>2, <1>3, <1>4 DEF PrefetchTypeInv, PrefetcherTypeOK
<1>5. CASE out'.ok
  <2>1. blocks'[x] \in Block
    BY <1>2, <1>5 DEF CacheInv, CacheTypeOK
  <2>2. PICK w \in Copy : w = t
    BY <1>1, <2>1 DEF Block, Copy
  <2>3. Enqueue(w)
    BY ONLY <1>3, <1>5, <2>2
  <2>4. /\ inflight' \in Seq(Transfer) /\ stream' \in Seq(Copy)
        /\ pstats' \in PrefetchStats
        /\ DOMAIN key_to_idx' \subseteq Keys
        /\ \A z \in DOMAIN key_to_idx' : key_to_idx'[z] \in DOMAIN inflight'
    BY <1>1, <2>3, EnqueueType
  <2> QED BY <1>1, <1>2, <1>3, <2>4 DEF PrefetchTypeInv, PrefetcherTypeOK, PrefetchStats
<1> QED
  BY <1>2, <1>4, <1>5

\* Every step keeps the types.
LEMMA PrefetchTypeNext == PrefetchTypeInv /\ [Next]_vars => PrefetchTypeInv'
<1> SUFFICES ASSUME PrefetchTypeInv, [Next]_vars PROVE PrefetchTypeInv'
  OBVIOUS
<1>1. CacheInv /\ PrefetcherTypeOK
  BY DEF PrefetchTypeInv
<1>2. ASSUME NEW x \in Keys, NEW pr \in Priorities, Prefetch(x, pr) PROVE PrefetchTypeInv'
  BY <1>2, PrefetchType
<1>3. ASSUME NEW x \in Keys, Wait(x) PROVE PrefetchTypeInv'
  BY <1>1, <1>3, SameCache, WaitType DEF Wait, PrefetchTypeInv
<1>4. CASE SynchronizeAll
  BY <1>1, <1>4, SameCache, SynchronizeType DEF SynchronizeAll, PrefetchTypeInv
<1>5. CASE Reset
  BY <1>1, <1>5, SameCache DEF Reset, PrefetchTypeInv, PrefetcherTypeOK
<1>6. CASE DeviceCopy
  BY <1>1, <1>6, SameCache, DeviceCopyType DEF DeviceCopy, PrefetchTypeInv
<1>7. CASE UNCHANGED vars
  <2>1. UNCHANGED cacheVars /\ UNCHANGED pfVars
    BY <1>7 DEF vars
  <2> QED BY <1>1, <2>1, SameCache DEF pfVars, PrefetchTypeInv, PrefetcherTypeOK
<1> QED
  BY <1>2, <1>3, <1>4, <1>5, <1>6, <1>7 DEF Next

\* Every field of the cache and of the prefetcher stays within its type, also when
\* cudaMemcpyAsync or cudaEventCreate fails (async_prefetcher.cpp:143-162).
THEOREM PrefetchTypeCorrect == Spec => []TypeOK
<1>1. Init => PrefetchTypeInv
  BY InitPrefetchInv DEF PrefetchInv, PrefetchTypeInv
<1>2. PrefetchTypeInv => TypeOK
  BY DEF PrefetchTypeInv, CacheInv, TypeOK
<1> QED
  BY <1>1, <1>2, PrefetchTypeNext, PTL DEF Spec
=============================================================================
