---- MODULE EngineSetup_proof ----
(***************************************************************************)
(* Proofs about Engine::init(), the loader it calls and the destructors,   *)
(* for every archive, number of tensors in a layer, set of device buffers, *)
(* header and header parser, and any number of calls of init().            *)
(*                                                                         *)
(* None of the properties is inductive.  SetupInv adds to the types what   *)
(* the steps in front of each one have left for it (StepsInv); that a      *)
(* handle of the device side is only ever held behind the arena, whose     *)
(* second init() fails, so that no later call takes one again (HandlesInv);*)
(* and that the table is the one of the number of buffers, that the pickle *)
(* does not contradict it, and that the layers below the current one were  *)
(* read through it (LoaderInv).  That a loaded Oracle has used the whole   *)
(* archive is then a pigeonhole: the table numbers the storages from 0 on, *)
(* as many as there are buffers, and each number read was a buffer.        *)
(***************************************************************************)
EXTENDS EngineSetup, FiniteSetTheorems, FunctionTheorems, TLAPS

\* Division with remainder, and that it undoes l * N + p.
LEMMA DivMod ==
    ASSUME NEW g \in Nat, NEW N \in Nat \ {0}
    PROVE  /\ g \div N \in Nat /\ g % N \in 0 .. N - 1
           /\ g = (g \div N) * N + (g % N)
  OBVIOUS

\* Multiplication by a natural is monotone.
LEMMA TimesMonotone ==
    ASSUME NEW a \in Nat, NEW b \in Nat, NEW N \in Nat, a <= b
    PROVE  a * N \in Nat /\ b * N \in Nat /\ a * N <= b * N
  OBVIOUS

\* The layer and the place in it follow from the storage number.
LEMMA PlaceUnique ==
    ASSUME NEW N \in Nat \ {0}, NEW a \in Nat, NEW b \in 0 .. N - 1,
           NEW c \in Nat, NEW d \in 0 .. N - 1, a * N + b = c * N + d
    PROVE  a = c /\ b = d
<1>1. CASE a < c
  <2>1. (a + 1) * N <= c * N
    BY <1>1, TimesMonotone
  <2>2. (a + 1) * N = a * N + N
    OBVIOUS
  <2> QED
    BY <2>1, <2>2
<1>2. CASE c < a
  <2>1. (c + 1) * N <= a * N
    BY <1>2, TimesMonotone
  <2>2. (c + 1) * N = c * N + N
    OBVIOUS
  <2> QED
    BY <2>1, <2>2
<1> QED
  BY <1>1, <1>2

\* Division undoes l * N + p.
LEMMA PlaceOf ==
    ASSUME NEW N \in Nat \ {0}, NEW a \in Nat, NEW b \in 0 .. N - 1
    PROVE  /\ a * N + b \in Nat
           /\ (a * N + b) \div N = a /\ (a * N + b) % N = b
<1>1. a * N + b \in Nat
  BY TimesMonotone
<1> PICK g \in Nat : g = a * N + b
  BY <1>1
<1>2. g \div N \in Nat /\ g % N \in 0 .. N - 1 /\ g = (g \div N) * N + (g % N)
  BY DivMod
<1>3. g \div N = a /\ g % N = b
  BY <1>2, PlaceUnique
<1> QED
  BY <1>1, <1>3

\* The table of n storages has the places that lie below n.
LEMMA TablePlaces ==
    ASSUME NEW n \in Nat
    PROVE  /\ DOMAIN Table(n) = {p \in Nat \X Locals : p[1] * NumLocals + p[2] < n}
           /\ \A p \in DOMAIN Table(n) : Table(n)[p] = p[1] * NumLocals + p[2]
           /\ Table(n) \in [DOMAIN Table(n) -> Nat]
<1> USE PtLoaderAssumption
<1> DEFINE D == {<<g \div NumLocals, g % NumLocals>> : g \in 0 .. n - 1}
<1>1. DOMAIN Table(n) = D /\ \A p \in D : Table(n)[p] = p[1] * NumLocals + p[2]
  BY DEF Table
<1>2. ASSUME NEW p \in D
      PROVE  p \in Nat \X Locals /\ p[1] * NumLocals + p[2] < n
  <2>1. PICK g \in 0 .. n - 1 : p = <<g \div NumLocals, g % NumLocals>>
    OBVIOUS
  <2>0. g \in Nat /\ NumLocals \in Nat \ {0}
    OBVIOUS
  <2>2. /\ g \div NumLocals \in Nat /\ g % NumLocals \in 0 .. NumLocals - 1
        /\ g = (g \div NumLocals) * NumLocals + (g % NumLocals)
    BY <2>0, DivMod
  <2> QED
    BY <2>1, <2>2 DEF Locals
<1>3. ASSUME NEW p \in Nat \X Locals, p[1] * NumLocals + p[2] < n
      PROVE  p \in D
  <2>1. p[1] \in Nat /\ p[2] \in 0 .. NumLocals - 1 /\ p = <<p[1], p[2]>>
    BY DEF Locals
  <2> PICK a \in Nat, b \in 0 .. NumLocals - 1 : p[1] = a /\ p[2] = b
    BY <2>1
  <2> PICK g : g = a * NumLocals + b
    OBVIOUS
  <2>2. g \in Nat /\ g \div NumLocals = a /\ g % NumLocals = b
    BY PlaceOf
  <2>3. g \in 0 .. n - 1 /\ p = <<g \div NumLocals, g % NumLocals>>
    BY <1>3, <2>1, <2>2
  <2> QED
    BY <2>3
<1>4. \A p \in D : p[1] * NumLocals + p[2] \in Nat
  <2> SUFFICES ASSUME NEW p \in D PROVE p[1] * NumLocals + p[2] \in Nat
    OBVIOUS
  <2>1. p[1] \in Nat /\ p[2] \in 0 .. NumLocals - 1
    BY <1>2 DEF Locals
  <2> QED
    BY <2>1, PlaceOf
<1>5. Table(n) \in [D -> Nat]
  BY <1>1, <1>4 DEF Table
<1>6. D = {p \in Nat \X Locals : p[1] * NumLocals + p[2] < n}
  <2> HIDE DEF D
  <2> QED BY <1>2, <1>3
<1> QED
  BY <1>1, <1>5, <1>6

\* load() counts as many layers as the storages begin.
LEMMA LayersBegun ==
    ASSUME NEW n \in Nat
    PROVE  \E m \in Nat :
             /\ Cardinality({p \in DOMAIN Table(n) : p[2] = 0}) = m
             /\ n <= m * NumLocals
             /\ m > 0 => (m - 1) * NumLocals < n
<1> USE PtLoaderAssumption
<1> DEFINE S == {p \in DOMAIN Table(n) : p[2] = 0}
<1>1. PICK m \in Nat : n <= m * NumLocals /\ (m > 0 => (m - 1) * NumLocals < n)
  <2>1. CASE n = 0
    BY <2>1
  <2>2. CASE n > 0
    <3> PICK q : q = (n - 1) \div NumLocals
      OBVIOUS
    <3>0. n - 1 \in Nat /\ NumLocals \in Nat \ {0}
      BY <2>2
    <3>1. /\ q \in Nat /\ (n - 1) % NumLocals \in 0 .. NumLocals - 1
          /\ n - 1 = q * NumLocals + ((n - 1) % NumLocals)
      BY <3>0, DivMod
    <3>2. (q + 1) * NumLocals = q * NumLocals + NumLocals /\ (q + 1) - 1 = q
      BY <3>1
    <3>3. q * NumLocals \in Nat
      BY <3>1, TimesMonotone
    <3>4. n <= (q + 1) * NumLocals /\ ((q + 1) - 1) * NumLocals < n
      BY <3>1, <3>2, <3>3
    <3> PICK k \in Nat : k = q + 1
      BY <3>1
    <3>5. n <= k * NumLocals /\ (k - 1) * NumLocals < n
      BY <3>4
    <3> QED
      BY <3>5
  <2> QED
    BY <2>1, <2>2
<1>2. S = {p \in Nat \X Locals : p[1] * NumLocals + p[2] < n /\ p[2] = 0}
  BY TablePlaces
<1> DEFINE f == [l \in 0 .. m - 1 |-> <<l, 0>>]
<1>3. \A l \in 0 .. m - 1 : <<l, 0>> \in S
  <2> SUFFICES ASSUME NEW l \in 0 .. m - 1 PROVE <<l, 0>> \in S
    OBVIOUS
  <2>1. l * NumLocals <= (m - 1) * NumLocals
    BY TimesMonotone
  <2>2. l * NumLocals \in Nat /\ (m - 1) * NumLocals \in Nat
    BY TimesMonotone
  <2>3. l * NumLocals + 0 < n
    BY <1>1, <2>1, <2>2
  <2>4. <<l, 0>> \in Nat \X Locals
    BY DEF Locals
  <2> QED
    BY <1>2, <2>3, <2>4
<1>4. \A p \in S : p[1] \in 0 .. m - 1 /\ p = <<p[1], 0>>
  <2> SUFFICES ASSUME NEW p \in S PROVE p[1] \in 0 .. m - 1 /\ p = <<p[1], 0>>
    OBVIOUS
  <2>1. p \in Nat \X Locals /\ p[1] * NumLocals + p[2] < n /\ p[2] = 0
    BY <1>2
  <2>2. p[1] \in Nat /\ p = <<p[1], 0>> /\ p[1] * NumLocals < n
    <3>1. p[1] \in Nat /\ p = <<p[1], p[2]>>
      BY <2>1
    <3> PICK a \in Nat : a = p[1]
      BY <3>1
    <3>2. a * NumLocals \in Nat
      BY TimesMonotone
    <3> QED BY <2>1, <3>1, <3>2
  <2> PICK a \in Nat : a = p[1]
    BY <2>2
  <2>3. a < m
    <3> SUFFICES ASSUME m <= a PROVE FALSE
      OBVIOUS
    <3>1. m * NumLocals <= a * NumLocals /\ m * NumLocals \in Nat /\ a * NumLocals \in Nat
      BY TimesMonotone
    <3> QED BY <1>1, <2>2, <3>1
  <2> QED BY <2>2, <2>3
<1>5. f \in Bijection(0 .. m - 1, S)
  <2> HIDE DEF S
  <2>1. f \in [0 .. m - 1 -> S]
    BY <1>3
  <2>2. \A a, b \in 0 .. m - 1 : f[a] = f[b] => a = b
    OBVIOUS
  <2>3. \A t \in S : \E s \in 0 .. m - 1 : f[s] = t
    BY <1>4
  <2> HIDE DEF f
  <2> QED
    BY <2>1, <2>2, <2>3, Fun_IsBij
<1>6. ExistsBijection(0 .. m - 1, S)
  <2> HIDE DEF S, f
  <2> QED BY <1>5, Fun_ExistsBij
<1>7. IsFiniteSet(0 .. m - 1) /\ Cardinality(0 .. m - 1) = m
  <2>1. 0 \in Int /\ m - 1 \in Int
    OBVIOUS
  <2>2. /\ IsFiniteSet(0 .. m - 1)
        /\ Cardinality(0 .. m - 1) = IF 0 > m - 1 THEN 0 ELSE (m - 1) - 0 + 1
    BY <2>1, FS_Interval, Zenon
  <2> QED BY <2>2
<1>8. Cardinality(S) = m
  <2> HIDE DEF S, f
  <2> QED BY <1>6, <1>7, FS_Bijection
<1> QED
  BY <1>1, <1>8

(***************************************************************************)
(* The inductive invariant                                                 *)
(***************************************************************************)

\* What parse_pickle() left when it found no contradiction.
TableAgrees ==
    /\ pkl \in Pickles
    /\ tensors = Table(Cardinality(DOMAIN buffers))
    /\ \A pair \in pkl : ~Contradicts(pair, Cardinality(DOMAIN buffers))

\* The layers in front of the one load() fills are complete.
FilledBelowAt ==
    \A p \in (0 .. at - 1) \X Locals :
        Readable(p) /\ p \in DOMAIN weights /\ weights[p] = tensors[p]

LoaderInv ==
    /\ LoaderTypeOK
    /\ load_pc \in {"directory", "entries", "pickle"} => tensors = <<>>
    /\ load_pc = "pickle" => pkl # NoPickle
    /\ load_pc = "opened" => TableAgrees \/ (pkl = NoPickle /\ tensors = <<>>)
    /\ load_pc \in {"reading", "loaded"} =>
         /\ TableAgrees
         /\ num_layers = Cardinality({p \in DOMAIN tensors : p[2] = 0}) /\ num_layers > 0
         /\ FilledBelowAt
    /\ load_pc = "loaded" => at = num_layers

DeviceSide == DeviceBuffers \union {"compute_stream", "copy_stream", "host_buf"}

\* Whatever the device side still holds waits behind the arena, and while the
\* arena is held no init() reaches the device side again.
HandlesInv ==
    /\ lost = {}
    /\ held \intersect DeviceSide # {} => "arena" \in held /\ build = "cuda"
    /\ phase = "mapping" => held \intersect Shard = {}
    /\ phase \in {"stream", "buffers"} => build = "cuda"
    /\ phase = "stream" => held \intersect DeviceSide = {}
    /\ phase = "buffers" =>
         "compute_stream" \in held
           /\ held \intersect (DeviceBuffers \union {"copy_stream", "host_buf"}) = {}
    /\ phase = "prefetcher" => held \intersect {"copy_stream", "host_buf"} = {}
    /\ phase \in {"prefetcher", "ready"} /\ build = "cuda" =>
         DeviceBuffers \union {"compute_stream"} \subseteq held
    /\ phase = "ready" /\ build = "cuda" => "copy_stream" \in held
    /\ phase = "~prefetcher" => held \intersect (DeviceBuffers \union {"compute_stream"}) = {}
    /\ phase = "~cache" => held \intersect DeviceSide = {}
    /\ phase = "~mmap" => held \subseteq Shard
    /\ phase = "destroyed" => held = {}

Oracled == {"arena", "stream", "buffers", "prefetcher", "ready"}

\* What the steps behind each other in init() have left for the later ones.
StepsInv ==
    /\ phase # "oracle" => load_pc = "idle"
    /\ phase \in {"header", "resolve", "oracle"} \union Oracled => Shard \subseteq held
    /\ phase \in {"oracle"} \union Oracled => ExpertZero \in table
    /\ phase \in Oracled =>
         build # "off" /\ num_layers > 0 /\ DOMAIN weights = (0 .. num_layers - 1) \X Locals
    /\ phase \in {"stream", "buffers", "prefetcher", "ready"} => "arena" \in held

SetupInv == SetupTypeOK /\ LoaderInv /\ HandlesInv /\ StepsInv

(***************************************************************************)
(* The loader                                                              *)
(***************************************************************************)

\* There are finitely many buffers.
LEMMA BuffersCounted ==
    ASSUME LoaderTypeOK
    PROVE  IsFiniteSet(DOMAIN buffers) /\ Cardinality(DOMAIN buffers) \in Nat
<1>1. 0 \in Int /\ MaxStorage \in Int
  BY PtLoaderAssumption
<1>2. IsFiniteSet(0 .. MaxStorage)
  BY <1>1, FS_Interval, Zenon
<1>3. DOMAIN buffers \in SUBSET (0 .. MaxStorage)
  BY DEF LoaderTypeOK, Storages
<1>4. IsFiniteSet(DOMAIN buffers)
  BY <1>2, <1>3, FS_Subset
<1> QED
  BY <1>4, FS_CardinalityType

\* A fresh loader.
LEMMA LoaderInitInv == LoaderInit => LoaderInv
<1> SUFFICES ASSUME LoaderInit PROVE LoaderInv
  OBVIOUS
<1> USE PtLoaderAssumption DEF LoaderInit
<1>1. LoaderTypeOK
  <2>1. buffers \in [DOMAIN buffers -> BOOLEAN] /\ DOMAIN buffers \subseteq Storages
    OBVIOUS
  <2>2. tensors \in [DOMAIN tensors -> Nat] /\ DOMAIN tensors \subseteq Nat \X Locals
    OBVIOUS
  <2>3. DOMAIN weights \subseteq (0 .. num_layers - 1) \X Locals
    OBVIOUS
  <2> QED
    BY <2>1, <2>2, <2>3 DEF LoaderTypeOK
<1> QED
  BY <1>1 DEF LoaderInv

\* load() counts the layers of the table.
LEMMA CountOfTable ==
    ASSUME LoaderInv, load_pc = "opened"
    PROVE  LET n == Cardinality({p \in DOMAIN tensors : p[2] = 0})
           IN  /\ n \in Nat
               /\ n > 0 => TableAgrees
<1> DEFINE n == Cardinality({p \in DOMAIN tensors : p[2] = 0})
<1>1. CASE TableAgrees
  <2>1. Cardinality(DOMAIN buffers) \in Nat
    BY BuffersCounted DEF LoaderInv
  <2> PICK c \in Nat : c = Cardinality(DOMAIN buffers)
    BY <2>1
  <2>2. Cardinality({p \in DOMAIN Table(c) : p[2] = 0}) \in Nat
    BY LayersBegun
  <2> QED
    BY <1>1, <2>2 DEF TableAgrees
<1>2. CASE pkl = NoPickle /\ tensors = <<>>
  <2>1. {p \in DOMAIN tensors : p[2] = 0} = {}
    BY <1>2
  <2>2. n = 0
    BY <2>1, FS_EmptySet
  <2> QED
    BY <2>2
<1> QED
  BY <1>1, <1>2 DEF LoaderInv

\* One case for each step of PtLoader::open() and OracleScheduler::load().
LEMMA LoaderStepInv ==
    ASSUME LoaderInv, LoaderStep
    PROVE  LoaderInv'
<1> USE PtLoaderAssumption
<1> USE DEF LoaderInv
<1>1. CASE OpenArchive
  <2> USE <1>1 DEF OpenArchive, LoaderGone
  <2>1. buffers' \in [DOMAIN buffers' -> BOOLEAN] /\ DOMAIN buffers' \subseteq Storages
    OBVIOUS
  <2>2. tensors' \in [DOMAIN tensors' -> Nat] /\ DOMAIN tensors' \subseteq Nat \X Locals
    OBVIOUS
  <2>3. LoaderTypeOK'
    BY <2>1, <2>2 DEF LoaderTypeOK
  <2> QED BY <2>3
<1>2. CASE FindDirectory
  BY <1>2 DEF FindDirectory, LoaderTypeOK
<1>3. CASE StoreBuffer
  BY <1>3 DEF StoreBuffer, NextEntry, LoaderTypeOK
<1>4. CASE StorePickle
  BY <1>4 DEF StorePickle, NextEntry, LoaderTypeOK
<1>5. CASE SkipEntry
  BY <1>5 DEF SkipEntry, NextEntry, LoaderTypeOK
<1>6. CASE InflateFails
  BY <1>6 DEF InflateFails, NextEntry, LoaderTypeOK
<1>7. CASE InflateAgain
  BY <1>7 DEF InflateAgain, loaderVars, LoaderTypeOK
<1>8. CASE EndEntries
  BY <1>8 DEF EndEntries, LoaderTypeOK
<1>9. CASE ParsePickle
  <2> USE <1>9 DEF ParsePickle
  <2>1. Cardinality(DOMAIN buffers) \in Nat
    BY BuffersCounted
  <2> PICK c \in Nat : c = Cardinality(DOMAIN buffers)
    BY <2>1
  <2>2. tensors' = Table(c) /\ Cardinality(DOMAIN buffers') = c
    OBVIOUS
  <2>3. tensors' \in [DOMAIN tensors' -> Nat] /\ DOMAIN tensors' \subseteq Nat \X Locals
    BY <2>2, TablePlaces
  <2>4. LoaderTypeOK'
    BY <2>3 DEF LoaderTypeOK
  <2>5. load_pc' = "opened" => TableAgrees'
    BY <2>2 DEF TableAgrees, LoaderTypeOK
  <2>6. load_pc' \in {"opened", "failed"}
    OBVIOUS
  <2> QED
    BY <2>4, <2>5, <2>6
<1>10. CASE CountLayers
  <2> USE <1>10 DEF CountLayers
  <2> PICK n : n = Cardinality({p \in DOMAIN tensors : p[2] = 0})
    OBVIOUS
  <2>1. n \in Nat /\ (n > 0 => TableAgrees)
    BY CountOfTable
  <2>2. CASE n = 0
    BY <2>2 DEF LoaderTypeOK
  <2>3. CASE n > 0
    <3>1. /\ load_pc' = "reading" /\ num_layers' = n /\ at' = 0
          /\ DOMAIN weights' = {q \in DOMAIN weights : q[1] < n}
      BY <2>1, <2>3
    <3>2. DOMAIN weights' \subseteq (0 .. n - 1) \X Locals
      <4> SUFFICES ASSUME NEW q \in DOMAIN weights, q[1] < n
                   PROVE  q \in (0 .. n - 1) \X Locals
        BY <3>1
      <4>1. q[1] \in Nat /\ q[2] \in Locals /\ q = <<q[1], q[2]>>
        BY DEF LoaderTypeOK
      <4>2. q[1] \in 0 .. n - 1
        BY <2>1, <4>1
      <4> QED BY <4>1, <4>2
    <3>3. LoaderTypeOK'
      BY <2>1, <3>1, <3>2 DEF LoaderTypeOK
    <3>4. TableAgrees'
      BY <2>1, <2>3 DEF TableAgrees
    <3>5. FilledBelowAt'
      BY <3>1 DEF FilledBelowAt
    <3>6. num_layers' = Cardinality({p \in DOMAIN tensors' : p[2] = 0}) /\ num_layers' > 0
      BY <2>3, <3>1
    <3> QED
      BY <3>1, <3>3, <3>4, <3>5, <3>6
  <2> QED
    BY <2>1, <2>2, <2>3
<1>11. CASE ReadLayer
  <2> USE <1>11
  <2> DEFINE layer == {at} \X Locals
             got == {p \in layer : \A q \in layer : q[2] <= p[2] => Readable(q)}
  <2>1. /\ load_pc = "reading" /\ at < num_layers
        /\ weights' = [p \in DOMAIN weights \union got |->
                          IF p \in got THEN tensors[p] ELSE weights[p]]
        /\ IF got = layer THEN at' = at + 1 /\ UNCHANGED load_pc
           ELSE load_pc' = "failed" /\ UNCHANGED at
        /\ UNCHANGED <<entries, buffers, pkl, tensors, num_layers>>
    BY DEF ReadLayer
  <2>2. at \in Nat /\ num_layers \in Nat /\ got \subseteq layer
    BY DEF LoaderTypeOK
  <2>3. layer \subseteq (0 .. num_layers - 1) \X Locals
    <3>1. at \in 0 .. num_layers - 1
      BY <2>1, <2>2
    <3> QED BY <3>1
  <2>4. LoaderTypeOK'
    BY <2>1, <2>2, <2>3 DEF LoaderTypeOK
  <2>5. CASE got = layer
    <3>1. load_pc' = "reading" /\ at' = at + 1
      BY <2>1, <2>5
    <3>2. TableAgrees'
      BY <2>1 DEF TableAgrees
    <3>3. FilledBelowAt'
      <4> SUFFICES ASSUME NEW p \in (0 .. at) \X Locals
                   PROVE  Readable(p)' /\ p \in DOMAIN weights' /\ weights'[p] = tensors'[p]
        BY <2>2, <3>1 DEF FilledBelowAt
      <4>1. CASE p[1] = at
        <5>1. p \in layer
          BY <4>1
        <5>2. Readable(p)
          BY <2>5, <5>1 DEF Locals
        <5> QED
          BY <2>1, <2>5, <5>1, <5>2 DEF Readable
      <4>2. CASE p[1] # at
        <5>1. p \in (0 .. at - 1) \X Locals /\ p \notin layer
          BY <2>2, <4>2
        <5>2. Readable(p) /\ p \in DOMAIN weights /\ weights[p] = tensors[p]
          BY <2>1, <5>1 DEF FilledBelowAt
        <5> QED
          BY <2>1, <2>2, <5>1, <5>2 DEF Readable
      <4> QED BY <4>1, <4>2
    <3> QED
      BY <2>1, <2>4, <3>1, <3>2, <3>3
  <2>6. CASE got # layer
    BY <2>1, <2>4, <2>6
  <2> QED BY <2>5, <2>6
<1>12. CASE EndLoad
  <2> USE <1>12 DEF EndLoad
  <2>1. LoaderTypeOK'
    BY DEF LoaderTypeOK
  <2>2. TableAgrees' /\ FilledBelowAt'
    BY DEF TableAgrees, FilledBelowAt, Readable
  <2> QED
    BY <2>1, <2>2
<1> QED
  BY <1>1, <1>2, <1>3, <1>4, <1>5, <1>6, <1>7, <1>8, <1>9, <1>10, <1>11, <1>12 DEF LoaderStep

\* A load that ended has filled every layer, so every storage below the last
\* layer's end is there; there cannot be more, or a further layer would begin.
LEMMA WholeFromInv ==
    ASSUME LoaderInv
    PROVE  LoadedWhole
<1> USE PtLoaderAssumption
<1> SUFFICES ASSUME load_pc = "loaded"
             PROVE  /\ DOMAIN buffers = 0 .. num_layers * NumLocals - 1
                    /\ DOMAIN weights = (0 .. num_layers - 1) \X Locals
                    /\ \A p \in DOMAIN weights :
                         weights[p] = p[1] * NumLocals + p[2] /\ buffers[weights[p]]
                    /\ \A pair \in pkl : pair[2] \in DOMAIN buffers => pair[1] = pair[2] % NumLocals
  BY DEF LoadedWhole
<1>1. /\ LoaderTypeOK /\ TableAgrees /\ FilledBelowAt
      /\ num_layers = Cardinality({p \in DOMAIN tensors : p[2] = 0})
      /\ num_layers > 0 /\ at = num_layers
  BY DEF LoaderInv
<1>2. IsFiniteSet(DOMAIN buffers) /\ Cardinality(DOMAIN buffers) \in Nat
  BY <1>1, BuffersCounted
<1> PICK c \in Nat : c = Cardinality(DOMAIN buffers)
  BY <1>2
<1> PICK m \in Nat : m = num_layers
  BY <1>1 DEF LoaderTypeOK
<1>3. tensors = Table(c)
  BY <1>1 DEF TableAgrees
<1>4. c <= m * NumLocals
  <2>1. PICK k \in Nat : /\ Cardinality({p \in DOMAIN Table(c) : p[2] = 0}) = k
                         /\ c <= k * NumLocals
    BY LayersBegun
  <2>2. k = m
    BY <1>1, <1>3, <2>1
  <2> QED BY <2>1, <2>2
<1>5. \A p \in (0 .. m - 1) \X Locals :
         /\ p \in DOMAIN weights
         /\ weights[p] = p[1] * NumLocals + p[2]
         /\ weights[p] \in DOMAIN buffers /\ buffers[weights[p]]
  <2> SUFFICES ASSUME NEW p \in (0 .. m - 1) \X Locals
               PROVE  /\ p \in DOMAIN weights
                      /\ weights[p] = p[1] * NumLocals + p[2]
                      /\ weights[p] \in DOMAIN buffers /\ buffers[weights[p]]
    OBVIOUS
  <2>1. Readable(p) /\ p \in DOMAIN weights /\ weights[p] = tensors[p]
    BY <1>1 DEF FilledBelowAt
  <2>2. p \in DOMAIN tensors /\ tensors[p] \in DOMAIN buffers /\ buffers[tensors[p]]
    BY <2>1 DEF Readable
  <2>3. tensors[p] = p[1] * NumLocals + p[2]
    BY <1>3, <2>2, TablePlaces
  <2> QED BY <2>1, <2>2, <2>3
<1> PICK K : K = m * NumLocals
  OBVIOUS
<1>6. K \in Nat
  BY TimesMonotone
<1>7. 0 .. K - 1 \subseteq DOMAIN buffers
  <2> SUFFICES ASSUME NEW g \in 0 .. K - 1 PROVE g \in DOMAIN buffers
    OBVIOUS
  <2>1. g \in Nat /\ NumLocals \in Nat \ {0} /\ g < m * NumLocals
    BY <1>6
  <2> PICK q, r : q = g \div NumLocals /\ r = g % NumLocals
    OBVIOUS
  <2>2. q \in Nat /\ r \in 0 .. NumLocals - 1 /\ g = q * NumLocals + r
    BY <2>1, DivMod
  <2>3. q < m
    <3> SUFFICES ASSUME m <= q PROVE FALSE
      BY <2>2
    <3>1. m * NumLocals <= q * NumLocals /\ m * NumLocals \in Nat /\ q * NumLocals \in Nat
      BY <2>2, TimesMonotone
    <3> QED BY <2>1, <2>2, <3>1
  <2>4. <<q, r>> \in (0 .. m - 1) \X Locals
    BY <2>2, <2>3 DEF Locals
  <2>5. weights[<<q, r>>] = q * NumLocals + r /\ weights[<<q, r>>] \in DOMAIN buffers
    BY <1>5, <2>4
  <2> QED BY <2>2, <2>5
<1>8. Cardinality(0 .. K - 1) = K
  <2>1. 0 \in Int /\ K - 1 \in Int
    BY <1>6
  <2>2. Cardinality(0 .. K - 1) = IF 0 > K - 1 THEN 0 ELSE (K - 1) - 0 + 1
    BY <2>1, FS_Interval, Zenon
  <2> QED BY <1>6, <2>2
<1>9. DOMAIN buffers = 0 .. K - 1 /\ c = K
  <2>1. 0 .. K - 1 \in SUBSET DOMAIN buffers
    BY <1>7
  <2>2. /\ Cardinality(0 .. K - 1) <= Cardinality(DOMAIN buffers)
        /\ Cardinality(DOMAIN buffers) = Cardinality(0 .. K - 1) => DOMAIN buffers = 0 .. K - 1
    BY <1>2, <2>1, FS_Subset
  <2>3. K <= c
    BY <1>8, <2>2
  <2>4. c = K
    BY <1>4, <1>6, <2>3
  <2> QED BY <1>8, <2>2, <2>4
<1>10. DOMAIN weights = (0 .. m - 1) \X Locals
  BY <1>1, <1>5 DEF LoaderTypeOK
<1>11. \A pair \in pkl : pair[2] \in DOMAIN buffers => pair[1] = pair[2] % NumLocals
  BY <1>1, <1>9 DEF TableAgrees, Contradicts
<1> QED
  BY <1>5, <1>9, <1>10, <1>11

\* Of an intact archive every place of every layer can be read, and a layer
\* begins.
LEMMA IntactReadable ==
    ASSUME LoaderTypeOK, TableAgrees, Intact
    PROVE  LET n == Cardinality({p \in DOMAIN tensors : p[2] = 0})
           IN  /\ n > 0
               /\ \A p \in (0 .. n - 1) \X Locals : Readable(p)
<1> USE PtLoaderAssumption
<1>1. Cardinality(DOMAIN buffers) \in Nat
  BY BuffersCounted
<1> PICK c \in Nat : c = Cardinality(DOMAIN buffers)
  BY <1>1
<1>2. PICK k \in 1 .. MaxStorage + 1 : DOMAIN buffers = 0 .. k * NumLocals - 1
  BY DEF Intact
<1> PICK K : K = k * NumLocals
  OBVIOUS
<1>3. K \in Nat
  BY TimesMonotone
<1>4. c = K
  <2>1. 0 \in Int /\ K - 1 \in Int
    BY <1>3
  <2>2. Cardinality(0 .. K - 1) = IF 0 > K - 1 THEN 0 ELSE (K - 1) - 0 + 1
    BY <2>1, FS_Interval, Zenon
  <2> QED BY <1>2, <1>3, <2>2
<1>5. PICK m \in Nat : /\ Cardinality({p \in DOMAIN Table(c) : p[2] = 0}) = m
                       /\ c <= m * NumLocals
                       /\ m > 0 => (m - 1) * NumLocals < c
  BY LayersBegun
<1>6. m = k
  <2>1. k <= m
    <3> SUFFICES ASSUME m + 1 <= k PROVE FALSE
      OBVIOUS
    <3>1. (m + 1) * NumLocals <= k * NumLocals
      BY TimesMonotone
    <3>2. (m + 1) * NumLocals = m * NumLocals + NumLocals /\ m * NumLocals \in Nat
      BY TimesMonotone
    <3> QED BY <1>3, <1>4, <1>5, <3>1, <3>2
  <2>2. m <= k
    <3> SUFFICES ASSUME k <= m - 1 PROVE FALSE
      OBVIOUS
    <3>1. m > 0 /\ m - 1 \in Nat
      OBVIOUS
    <3>2. k * NumLocals <= (m - 1) * NumLocals /\ (m - 1) * NumLocals \in Nat
      BY <3>1, TimesMonotone
    <3> QED BY <1>3, <1>4, <1>5, <3>1, <3>2
  <2> QED BY <2>1, <2>2
<1>7. tensors = Table(c)
  BY DEF TableAgrees
<1>8. ASSUME NEW p \in (0 .. m - 1) \X Locals PROVE Readable(p)
  <2>1. p[1] \in 0 .. m - 1 /\ p[2] \in 0 .. NumLocals - 1
    BY DEF Locals
  <2> PICK a \in 0 .. m - 1, b \in 0 .. NumLocals - 1 : a = p[1] /\ b = p[2]
    BY <2>1
  <2>2. (a + 1) * NumLocals <= m * NumLocals
    BY TimesMonotone
  <2>3. (a + 1) * NumLocals = a * NumLocals + NumLocals /\ a * NumLocals \in Nat
    BY TimesMonotone
  <2>4. a * NumLocals + b \in 0 .. K - 1
    BY <1>3, <1>6, <2>2, <2>3
  <2>5. p \in DOMAIN tensors
    <3>1. p \in Nat \X Locals /\ p[1] * NumLocals + p[2] < c
      BY <1>3, <1>4, <2>4
    <3> QED BY <1>7, <3>1, TablePlaces
  <2>6. tensors[p] = a * NumLocals + b
    BY <1>7, <2>5, TablePlaces
  <2> QED
    BY <1>2, <2>4, <2>5, <2>6 DEF Readable, Intact
<1>9. Cardinality({p \in DOMAIN tensors : p[2] = 0}) = m /\ m > 0
  BY <1>5, <1>6, <1>7
<1>10. \A p \in (0 .. m - 1) \X Locals : Readable(p)
  BY <1>8
<1> QED
  BY ONLY <1>9, <1>10

\* A load of an intact archive does not fail behind the directory.
LEMMA IntactStep ==
    ASSUME LoaderInv, LoaderStep, load_pc \in {"pickle", "opened", "reading"}, load_pc' = "failed"
    PROVE  ~Intact
<1> USE PtLoaderAssumption
<1> SUFFICES ASSUME Intact PROVE FALSE
  OBVIOUS
<1>0. LoaderTypeOK
  BY DEF LoaderInv
<1>1. CASE ParsePickle
  <2> PICK c : c = Cardinality(DOMAIN buffers)
    OBVIOUS
  <2>1. PICK pair \in pkl : Contradicts(pair, c)
    BY <1>1 DEF ParsePickle
  <2>2. PICK k \in 1 .. MaxStorage + 1 : DOMAIN buffers = 0 .. k * NumLocals - 1
    BY DEF Intact
  <2> PICK K : K = k * NumLocals
    OBVIOUS
  <2>3. K \in Nat
    BY TimesMonotone
  <2>4. c = K
    <3>1. 0 \in Int /\ K - 1 \in Int
      BY <2>3
    <3>2. Cardinality(0 .. K - 1) = IF 0 > K - 1 THEN 0 ELSE (K - 1) - 0 + 1
      BY <3>1, FS_Interval, Zenon
    <3> QED BY <2>2, <2>3, <3>2
  <2> QED
    BY <2>1, <2>2, <2>4 DEF Contradicts, Intact
<1>2. CASE CountLayers
  <2>1. TableAgrees
    BY <1>2 DEF CountLayers, LoaderInv, Intact
  <2>2. Cardinality({p \in DOMAIN tensors : p[2] = 0}) > 0
    BY <1>0, <2>1, IntactReadable
  <2> QED
    BY <1>2, <2>2 DEF CountLayers
<1>3. CASE ReadLayer
  <2>1. /\ TableAgrees /\ at \in 0 .. num_layers - 1 /\ num_layers \in Nat
        /\ num_layers = Cardinality({p \in DOMAIN tensors : p[2] = 0})
    BY <1>3 DEF ReadLayer, LoaderInv, LoaderTypeOK
  <2>2. \A p \in (0 .. num_layers - 1) \X Locals : Readable(p)
    BY <1>0, <2>1, IntactReadable
  <2>3. \A p \in {at} \X Locals : Readable(p)
    BY <2>1, <2>2
  <2> QED
    BY <1>3, <2>3 DEF ReadLayer
<1> QED
  BY <1>1, <1>2, <1>3 DEF LoaderStep, OpenArchive, FindDirectory, StoreBuffer, StorePickle, SkipEntry,
        InflateFails, InflateAgain, NextEntry, EndEntries, EndLoad, loaderVars

(***************************************************************************)
(* init() and the destructors                                              *)
(***************************************************************************)

\* A new engine.
LEMMA SetupInitInv == SetupInit => SetupInv
<1> SUFFICES ASSUME SetupInit PROVE SetupInv
  OBVIOUS
<1>1. LoaderInv
  BY LoaderInitInv DEF SetupInit
<1>2. load_pc = "idle"
  BY DEF SetupInit, LoaderInit
<1>3. SetupTypeOK
  <2>1. header \in Seq(STRING) /\ table \subseteq STRING
    BY DEF SetupInit
  <2> QED
    BY <1>1, <2>1, SetupAssumption DEF SetupInit, SetupTypeOK, LoaderInv
<1>4. HandlesInv
  BY DEF SetupInit, HandlesInv
<1>5. StepsInv
  BY <1>2 DEF SetupInit, StepsInv, Oracled
<1> QED
  BY <1>1, <1>3, <1>4, <1>5 DEF SetupInv

\* A step that leaves the loader alone leaves its part of the invariant alone.
LEMMA LoaderUntouched ==
    ASSUME LoaderInv, UNCHANGED loaderVars
    PROVE  LoaderInv' /\ LoaderTypeOK'
<1> USE DEF loaderVars
<1>1. LoaderTypeOK'
  BY DEF LoaderInv, LoaderTypeOK
<1>2. (TableAgrees' <=> TableAgrees) /\ (FilledBelowAt' <=> FilledBelowAt)
  BY DEF TableAgrees, FilledBelowAt, Readable
<1> QED
  BY <1>1, <1>2 DEF LoaderInv

\* One case for each step of init() and of the destructors.
LEMMA SetupStepInv ==
    ASSUME SetupInv, [SetupNext]_vars
    PROVE  SetupInv'
<1> USE SetupAssumption DEF Go, Take
<1>0. SetupTypeOK /\ LoaderInv /\ HandlesInv /\ StepsInv
  BY DEF SetupInv
<1>a. CASE UNCHANGED loaderVars /\ SetupTypeOK' /\ HandlesInv' /\ StepsInv'
  BY <1>0, <1>a, LoaderUntouched DEF SetupInv
<1>b. ASSUME UNCHANGED loaderVars PROVE LoaderTypeOK'
  BY <1>0, <1>b, LoaderUntouched
<1>1. CASE CallInit
  <2>1. UNCHANGED loaderVars
    BY <1>1 DEF CallInit
  <2>2. SetupTypeOK'
    <3>1. header' \in Seq(STRING) /\ table' \subseteq STRING
      BY <1>1 DEF CallInit, CloseShard
    <3> QED
      BY <1>0, <1>1, <1>b, <2>1, <3>1 DEF CallInit, CloseShard, SetupTypeOK
  <2>3. HandlesInv'
    BY <1>0, <1>1 DEF CallInit, CloseShard, HandlesInv, DeviceSide, Shard, OneOfEach
  <2>4. StepsInv'
    BY <1>0, <1>1 DEF CallInit, StepsInv, Oracled, loaderVars
  <2> QED BY <1>a, <2>1, <2>2, <2>3, <2>4
<1>2. CASE MapFile
  <2>1. UNCHANGED loaderVars
    BY <1>2 DEF MapFile
  <2>2. SetupTypeOK'
    BY <1>0, <1>2, <1>b, <2>1 DEF MapFile, SetupTypeOK, Shard, Handles, OneOfEach
  <2>3. HandlesInv'
    BY <1>0, <1>2 DEF MapFile, HandlesInv, DeviceSide, Shard, OneOfEach
  <2>4. StepsInv'
    BY <1>0, <1>2 DEF MapFile, StepsInv, Oracled, loaderVars, Shard
  <2> QED BY <1>a, <2>1, <2>2, <2>3, <2>4
<1>3. CASE BadHeaderLength
  <2>1. UNCHANGED loaderVars
    BY <1>3 DEF BadHeaderLength
  <2>2. SetupTypeOK'
    BY <1>0, <1>3, <1>b, <2>1 DEF BadHeaderLength, SetupTypeOK
  <2>3. HandlesInv'
    BY <1>0, <1>3 DEF BadHeaderLength, HandlesInv
  <2>4. StepsInv'
    BY <1>0, <1>3 DEF BadHeaderLength, StepsInv, Oracled, loaderVars
  <2> QED BY <1>a, <2>1, <2>2, <2>3, <2>4
<1>4. CASE ParseHeader
  <2>1. UNCHANGED loaderVars
    BY <1>4 DEF ParseHeader
  <2>2. SetupTypeOK'
    <3>1. header' \in Seq(STRING) /\ TensorsIn(header') \subseteq STRING
      BY <1>4, HeaderAssumption DEF ParseHeader
    <3> QED
      BY <1>0, <1>4, <1>b, <2>1, <3>1 DEF ParseHeader, SetupTypeOK
  <2>3. HandlesInv'
    BY <1>0, <1>4 DEF ParseHeader, HandlesInv
  <2>4. StepsInv'
    BY <1>0, <1>4 DEF ParseHeader, StepsInv, Oracled, loaderVars
  <2> QED BY <1>a, <2>1, <2>2, <2>3, <2>4
<1>5. CASE ResolveExpert
  <2>0. load_pc = "idle" /\ phase' \in {"failed", "oracle"} /\ phase = "resolve"
    BY <1>0, <1>5 DEF ResolveExpert, StepsInv
  <2>1. CASE UNCHANGED loaderVars /\ phase' = "failed"
    <3>1. header' \in Seq(STRING)
      BY <1>5 DEF ResolveExpert
    <3>2. SetupTypeOK'
      BY <1>0, <1>5, <1>b, <2>1, <3>1 DEF ResolveExpert, SetupTypeOK
    <3>3. HandlesInv' /\ StepsInv'
      BY <1>0, <1>5, <2>0, <2>1 DEF ResolveExpert, HandlesInv, StepsInv, Oracled, loaderVars
    <3> QED BY <1>a, <2>1, <3>2, <3>3
  <2>2. CASE ~(UNCHANGED loaderVars /\ phase' = "failed")
    <3>0. /\ ExpertFound /\ phase' = "oracle" /\ load_pc' = "open"
          /\ UNCHANGED <<entries, buffers, pkl, tensors, num_layers, at, weights>>
      BY <1>5, <2>2 DEF ResolveExpert
    <3>1. header' \in Seq(STRING)
      BY <1>5 DEF ResolveExpert
    <3>2. LoaderTypeOK'
      BY <1>0, <3>0 DEF LoaderInv, LoaderTypeOK
    <3>3. LoaderInv'
      BY <3>0, <3>2 DEF LoaderInv
    <3>4. SetupTypeOK'
      BY <1>0, <1>5, <3>0, <3>1, <3>2 DEF ResolveExpert, SetupTypeOK
    <3>5. HandlesInv'
      BY <1>0, <1>5, <2>0, <3>0 DEF ResolveExpert, HandlesInv
    <3>6. StepsInv'
      BY <1>0, <1>5, <2>0, <3>0 DEF ResolveExpert, StepsInv, Oracled, ExpertFound
    <3> QED BY <3>3, <3>4, <3>5, <3>6 DEF SetupInv
  <2> QED BY <2>1, <2>2
<1>6. CASE LoadOracle
  <2>1. LoaderInv'
    BY <1>0, <1>6, LoaderStepInv DEF LoadOracle
  <2>2. SetupTypeOK'
    BY <1>0, <1>6, <2>1 DEF LoadOracle, SetupTypeOK, setupVars, LoaderInv
  <2>3. HandlesInv'
    BY <1>0, <1>6 DEF LoadOracle, HandlesInv, setupVars
  <2>4. StepsInv'
    BY <1>0, <1>6 DEF LoadOracle, StepsInv, setupVars, Oracled
  <2> QED BY <2>1, <2>2, <2>3, <2>4 DEF SetupInv
<1>7. CASE OracleLoaded
  <2>1. /\ load_pc' = "idle" /\ at' = 0 /\ LoaderGone /\ phase = "oracle"
        /\ UNCHANGED <<build, inits, held, lost, header, table, num_layers, weights>>
        /\ phase' \in {"arena", "failed"}
        /\ phase' = "arena" => load_pc = "loaded" /\ build # "off"
    BY <1>7 DEF OracleLoaded
  <2>2. buffers' \in [DOMAIN buffers' -> BOOLEAN] /\ DOMAIN buffers' \subseteq Storages
    BY <2>1 DEF LoaderGone
  <2>3. tensors' \in [DOMAIN tensors' -> Nat] /\ DOMAIN tensors' \subseteq Nat \X Locals
    BY <2>1 DEF LoaderGone
  <2>4. LoaderTypeOK'
    BY <1>0, <2>1, <2>2, <2>3, PtLoaderAssumption DEF LoaderInv, LoaderTypeOK, LoaderGone
  <2>5. LoaderInv'
    BY <2>1, <2>4 DEF LoaderInv
  <2>6. SetupTypeOK'
    BY <1>0, <2>1, <2>4 DEF SetupTypeOK
  <2>7. HandlesInv'
    BY <1>0, <2>1 DEF HandlesInv
  <2>8. load_pc = "loaded" => num_layers > 0 /\ DOMAIN weights = (0 .. num_layers - 1) \X Locals
    BY <1>0, WholeFromInv DEF LoaderInv, LoadedWhole
  <2>9. StepsInv'
    BY <1>0, <2>1, <2>8 DEF StepsInv, Oracled
  <2> QED BY <2>5, <2>6, <2>7, <2>9 DEF SetupInv
<1>8. CASE ArenaInit
  <2>1. UNCHANGED loaderVars
    BY <1>8 DEF ArenaInit
  <2>2. SetupTypeOK'
    BY <1>0, <1>8, <1>b, <2>1 DEF ArenaInit, SetupTypeOK, Handles, OneOfEach
  <2>3. HandlesInv'
    BY <1>0, <1>8 DEF ArenaInit, HandlesInv, StepsInv, Oracled, DeviceSide, Shard, OneOfEach
  <2>4. StepsInv'
    BY <1>0, <1>8 DEF ArenaInit, StepsInv, Oracled, loaderVars
  <2> QED BY <1>a, <2>1, <2>2, <2>3, <2>4
<1>9. CASE CreateStream
  <2>1. UNCHANGED loaderVars
    BY <1>9 DEF CreateStream
  <2>2. SetupTypeOK'
    BY <1>0, <1>9, <1>b, <2>1 DEF CreateStream, SetupTypeOK, Handles, OneOfEach
  <2>3. HandlesInv'
    BY <1>0, <1>9 DEF CreateStream, HandlesInv, StepsInv, Oracled, DeviceSide, Shard, OneOfEach
  <2>4. StepsInv'
    BY <1>0, <1>9 DEF CreateStream, StepsInv, Oracled, loaderVars
  <2> QED BY <1>a, <2>1, <2>2, <2>3, <2>4
<1>10. CASE AllocBuffers
  <2>1. UNCHANGED loaderVars
    BY <1>10 DEF AllocBuffers
  <2>2. SetupTypeOK'
    BY <1>0, <1>10, <1>b, <2>1 DEF AllocBuffers, SetupTypeOK, Handles
  <2>3. HandlesInv'
    BY <1>0, <1>10 DEF AllocBuffers, HandlesInv, StepsInv, Oracled, DeviceSide, Shard, OneOfEach
  <2>4. StepsInv'
    BY <1>0, <1>10 DEF AllocBuffers, StepsInv, Oracled, loaderVars
  <2> QED BY <1>a, <2>1, <2>2, <2>3, <2>4
<1>11. CASE PrefetcherInit
  <2>1. UNCHANGED loaderVars
    BY <1>11 DEF PrefetcherInit
  <2>2. SetupTypeOK'
    BY <1>0, <1>11, <1>b, <2>1 DEF PrefetcherInit, SetupTypeOK, Handles, OneOfEach
  <2>3. HandlesInv'
    <3>1. CASE UNCHANGED <<held, lost>>
      BY <1>0, <1>11, <3>1 DEF PrefetcherInit, HandlesInv, StepsInv, Oracled
    <3>2. CASE ~UNCHANGED <<held, lost>>
      <4>1. PICK hs \in {{}, {"host_buf"}} :
                /\ held' = held \union ({"copy_stream"} \union hs)
                /\ lost' = lost \union (held \intersect ({"copy_stream"} \union hs))
        BY <1>11, <3>2 DEF PrefetcherInit
      <4>2. build = "cuda" /\ phase = "prefetcher" /\ phase' = "ready" /\ UNCHANGED build
        BY <1>0, <1>11, <3>2 DEF PrefetcherInit, StepsInv, Oracled, SetupTypeOK
      <4>3. lost' = {} /\ "arena" \in held'
        BY <1>0, <4>1, <4>2 DEF HandlesInv, StepsInv
      <4> QED
        BY <1>0, <4>1, <4>2, <4>3 DEF HandlesInv
    <3> QED BY <3>1, <3>2
  <2>4. StepsInv'
    BY <1>0, <1>11 DEF PrefetcherInit, StepsInv, Oracled, loaderVars
  <2> QED BY <1>a, <2>1, <2>2, <2>3, <2>4
<1>12. CASE DestroyEngine
  <2>1. UNCHANGED loaderVars
    BY <1>12 DEF DestroyEngine
  <2>2. SetupTypeOK'
    BY <1>0, <1>12, <1>b, <2>1 DEF DestroyEngine, SetupTypeOK
  <2>3. HandlesInv'
    BY <1>0, <1>12 DEF DestroyEngine, HandlesInv, DeviceSide, OneOfEach
  <2>4. StepsInv'
    BY <1>0, <1>12 DEF DestroyEngine, StepsInv, Oracled, loaderVars
  <2> QED BY <1>a, <2>1, <2>2, <2>3, <2>4
<1>13. CASE DestroyPrefetcher
  <2>1. UNCHANGED loaderVars
    BY <1>13 DEF DestroyPrefetcher
  <2>2. SetupTypeOK'
    BY <1>0, <1>13, <1>b, <2>1 DEF DestroyPrefetcher, SetupTypeOK
  <2>3. HandlesInv'
    BY <1>0, <1>13 DEF DestroyPrefetcher, HandlesInv, DeviceSide, OneOfEach
  <2>4. StepsInv'
    BY <1>0, <1>13 DEF DestroyPrefetcher, StepsInv, Oracled, loaderVars
  <2> QED BY <1>a, <2>1, <2>2, <2>3, <2>4
<1>14. CASE DestroyCache
  <2>1. UNCHANGED loaderVars
    BY <1>14 DEF DestroyCache
  <2>2. SetupTypeOK'
    BY <1>0, <1>14, <1>b, <2>1 DEF DestroyCache, SetupTypeOK
  <2>3. HandlesInv'
    BY <1>0, <1>14 DEF DestroyCache, HandlesInv, DeviceSide, SetupTypeOK, Handles, OneOfEach
  <2>4. StepsInv'
    BY <1>0, <1>14 DEF DestroyCache, StepsInv, Oracled, loaderVars
  <2> QED BY <1>a, <2>1, <2>2, <2>3, <2>4
<1>15. CASE DestroyMmap
  <2>1. UNCHANGED loaderVars
    BY <1>15 DEF DestroyMmap
  <2>2. SetupTypeOK'
    <3>1. header' \in Seq(STRING) /\ table' \subseteq STRING
      BY <1>15 DEF DestroyMmap, CloseShard
    <3> QED
      BY <1>0, <1>15, <1>b, <2>1, <3>1 DEF DestroyMmap, CloseShard, SetupTypeOK
  <2>3. HandlesInv'
    BY <1>0, <1>15 DEF DestroyMmap, CloseShard, HandlesInv, DeviceSide
  <2>4. StepsInv'
    BY <1>0, <1>15 DEF DestroyMmap, StepsInv, Oracled, loaderVars
  <2> QED BY <1>a, <2>1, <2>2, <2>3, <2>4
<1>16. CASE UNCHANGED vars
  <2>1. UNCHANGED loaderVars
    BY <1>16 DEF vars
  <2>2. SetupTypeOK'
    BY <1>0, <1>16, <1>b, <2>1 DEF vars, setupVars, SetupTypeOK
  <2>3. HandlesInv'
    BY <1>0, <1>16 DEF vars, setupVars, HandlesInv
  <2>4. StepsInv'
    BY <1>0, <1>16 DEF vars, setupVars, StepsInv, Oracled, loaderVars
  <2> QED BY <1>a, <2>1, <2>2, <2>3, <2>4
<1> QED
  BY <1>1, <1>2, <1>3, <1>4, <1>5, <1>6, <1>7, <1>8, <1>9, <1>10, <1>11, <1>12, <1>13, <1>14,
     <1>15, <1>16 DEF SetupNext, InitStep, Destroy

\* Over any number of calls of init(), each failing at any step or not, and the
\* destructors in their order, SetupInv is kept (engine.cpp:113-209, 264-271).
THEOREM SetupInvariant == SetupSpec => []SetupInv
<1>1. SetupInit => SetupInv
  BY SetupInitInv
<1>2. SetupInv /\ [SetupNext]_vars => SetupInv'
  BY SetupStepInv
<1> QED
  BY <1>1, <1>2, PTL DEF SetupSpec

\* Every variable of the setup and of the loader stays in its range.
THEOREM SetupTypeCorrect == SetupSpec => []SetupTypeOK
<1>1. SetupInv => SetupTypeOK
  BY DEF SetupInv
<1> QED
  BY <1>1, SetupInvariant, PTL

\* For every archive, number of places in a layer and order of the entries, an
\* Oracle that was loaded has used the whole archive (pt_loader.cpp:227-254,
\* 272-298).
THEOREM OracleLoadedWhole == SetupSpec => []LoadedWhole
<1>1. SetupInv => LoadedWhole
  BY WholeFromInv DEF SetupInv
<1> QED
  BY <1>1, SetupInvariant, PTL

\* Whatever step of however many init() failed, the destructors release every
\* handle and none was overwritten (engine.cpp:113-209, 314-319).
THEOREM SetupLeaksNothing == SetupSpec => []NothingLeaks
<1>1. SetupInv => NothingLeaks
  BY DEF SetupInv, HandlesInv, NothingLeaks
<1> QED
  BY <1>1, SetupInvariant, PTL

\* An init() that returned true left everything generate() uses.
THEOREM ReadyEngineComplete == SetupSpec => []ReadyIsComplete
<1>1. SetupInv => ReadyIsComplete
  BY DEF SetupInv, HandlesInv, StepsInv, Oracled, ReadyIsComplete
<1> QED
  BY <1>1, SetupInvariant, PTL

\* Behind its directory an intact archive is never refused, whatever the order
\* of its entries.
THEOREM IntactIsLoaded == SetupSpec => IntactArchiveLoads
<1>1. SetupInv /\ [SetupNext]_vars =>
        [(load_pc \in {"pickle", "opened", "reading"} /\ load_pc' = "failed") => ~Intact]_vars
  <2> SUFFICES ASSUME SetupInv, [SetupNext]_vars,
                      load_pc \in {"pickle", "opened", "reading"}, load_pc' = "failed"
               PROVE  ~Intact
    OBVIOUS
  <2>1. phase = "oracle" /\ LoaderInv
    BY DEF SetupInv, StepsInv
  <2>2. LoadOracle
    <3>1. ~CallInit /\ ~Destroy /\ load_pc' # load_pc
      BY <2>1 DEF CallInit, Destroy, DestroyEngine, DestroyPrefetcher, DestroyCache, DestroyMmap
    <3> QED
      BY <2>1, <3>1 DEF SetupNext, InitStep, MapFile, BadHeaderLength, ParseHeader, ResolveExpert,
            OracleLoaded, ArenaInit, CreateStream, AllocBuffers, PrefetcherInit, vars, loaderVars
  <2> QED
    BY <2>1, <2>2, IntactStep DEF LoadOracle
<1> QED
  BY <1>1, SetupInvariant, PTL DEF SetupSpec, IntactArchiveLoads
====
