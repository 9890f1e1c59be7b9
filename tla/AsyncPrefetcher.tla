--------------------------- MODULE AsyncPrefetcher ---------------------------
(***************************************************************************)
(* AsyncPrefetcher (dee/async_prefetcher.{h,cpp}) on top of the cache: the  *)
(* transfers it issues, the memory they write and the waits that gate its   *)
(* readers.  With the mock backend (use_cuda = FALSE) the copies run inside  *)
(* wait(); with CUDA a copy engine performs them in submission order, on    *)
(* its own, between any two steps of the host.                              *)
(***************************************************************************)
EXTENDS VramCache, Sequences

CONSTANTS BlobSize,  \* nbytes of each key's weights
          Backends,  \* the values of use_cuda that init() may be called with
          CudaFails  \* may cudaMemcpyAsync and cudaEventCreate fail?

ASSUME PrefetcherAssumption ==
    /\ BlobSize \in [Keys -> Sizes]
    /\ Backends \subseteq BOOLEAN
    /\ CudaFails \in BOOLEAN

VARIABLES use_cuda,    \* use_cuda_, fixed by init()
          inflight,    \* inflight_
          key_to_idx,  \* key_to_idx_, a function on the keys it holds
          pstats,      \* stats_
          stream,      \* copies submitted to the CUDA stream and not yet performed
          performed,   \* how many copies the CUDA stream has performed
          mem,         \* the arena's memory: what each byte holds
          ready        \* keys wait() answered true for, while the reader may use them

pfVars == <<use_cuda, inflight, key_to_idx, pstats, stream, performed, mem, ready>>
vars == <<cacheVars, pfVars>>

NoEvent == -1  \* the transfer has no event

\* The j-th byte of a key's weights; Junk is whatever the arena held before.
Junk == <<>>
WeightBytes == {<<k, j>> : k \in Keys, j \in 0 .. Cap - 1}

Copy == [key : Keys, dst : 0 .. Cap - 1, nbytes : Sizes]
Transfer == [key : Keys, dst : 0 .. Cap - 1, nbytes : Sizes,
             done : BOOLEAN, event : Nat \cup {NoEvent}]

PrefetcherTypeOK ==
    /\ use_cuda \in Backends
    /\ inflight \in Seq(Transfer)
    /\ DOMAIN key_to_idx \subseteq Keys
    /\ \A k \in DOMAIN key_to_idx : key_to_idx[k] \in DOMAIN inflight
    /\ pstats \in [issued : Nat, waited : Nat, fallbacks : Nat]
    /\ stream \in Seq(Copy)
    /\ performed \in Nat
    /\ mem \in [0 .. Cap - 1 -> WeightBytes \cup {Junk}]
    /\ ready \subseteq Keys

PrefetcherInit ==
    /\ use_cuda \in Backends
    /\ inflight = <<>>
    /\ key_to_idx = [k \in {} |-> 0]
    /\ pstats = [issued |-> 0, waited |-> 0, fallbacks |-> 0]
    /\ stream = <<>>
    /\ performed = 0
    /\ mem = [b \in 0 .. Cap - 1 |-> Junk]
    /\ ready = {}

Init == CacheInit /\ PrefetcherInit

\* memcpy / the copy engine: nbytes of t's weights land at dst.
CopyInto(m, t) ==
    [b \in DOMAIN m |-> IF b \in Span(t.dst, t.nbytes) THEN <<t.key, b - t.dst>> ELSE m[b]]
------------------------------------------------------------------------------
\* cuda_submit: a failed copy is only logged, a transfer whose event cannot be
\* created stays without one.  An event covers every copy submitted before it.
Submit(t) ==
    \E copied, recorded \in {TRUE} \cup {~CudaFails} :
        LET queue == IF copied THEN Append(stream, t) ELSE stream
            event == IF recorded THEN performed + Len(queue) ELSE NoEvent
        IN  /\ stream' = queue
            /\ inflight' = Append(inflight, [key |-> t.key, dst |-> t.dst, nbytes |-> t.nbytes,
                                             done |-> FALSE, event |-> event])

\* prefetch() has the slot: the transfer is recorded, and submitted if there is a
\* stream.
Enqueue(t) ==
    /\ \/ use_cuda /\ Submit(t)
       \/ /\ ~use_cuda
          /\ inflight' = Append(inflight, [key |-> t.key, dst |-> t.dst, nbytes |-> t.nbytes,
                                           done |-> FALSE, event |-> NoEvent])
          /\ UNCHANGED stream
    /\ key_to_idx' = [j \in DOMAIN key_to_idx \cup {t.key} |->
                        IF j = t.key THEN Len(inflight) + 1 ELSE key_to_idx[j]]
    /\ pstats' = [pstats EXCEPT !.issued = @ + 1]

\* prefetch() always copies, also when the expert is already resident.  A reader
\* may go on using what it waited for, except what this call evicts.
Prefetch(k, p) ==
    /\ Ensure(k, BlobSize[k], p)
    /\ \/ /\ out'.ok
          /\ Enqueue([key |-> k, dst |-> blocks'[k].off, nbytes |-> BlobSize[k]])
       \/ /\ ~out'.ok
          /\ UNCHANGED <<inflight, key_to_idx, pstats, stream>>
    /\ ready' = ready \cap Resident \cap DOMAIN blocks'
    /\ UNCHANGED <<use_cuda, performed, mem>>

\* Mutant of Drained: wait() runs only the transfer it is asked for.
DrainedAlone(m, idx) ==
    IF idx = 0 \/ inflight[idx].done THEN m ELSE CopyInto(m, inflight[idx])

\* drain_until(idx): the transfers up to idx that are not done run in order, so
\* that each byte holds what the last of them into it wrote.
Drained(m, idx) ==
    [b \in DOMAIN m |->
        LET into == {i \in 1 .. idx : /\ ~inflight[i].done
                                      /\ b \in Span(inflight[i].dst, inflight[i].nbytes)}
            last == inflight[CHOOSE i \in into : \A j \in into : j <= i]
        IN  IF into = {} THEN m[b] ELSE <<last.key, b - last.dst>>]

MarkDone(S) ==
    [i \in DOMAIN inflight |-> [inflight[i] EXCEPT !.done = @ \/ i \in S]]

\* wait() for an expert that was never prefetched: a fallback, and false.
WaitUnknown(k) ==
    /\ k \notin DOMAIN key_to_idx
    /\ pstats' = [pstats EXCEPT !.waited = @ + 1, !.fallbacks = @ + 1]
    /\ UNCHANGED <<use_cuda, inflight, key_to_idx, stream, performed, mem, ready>>

WaitMock(k) ==
    /\ ~use_cuda
    /\ k \in DOMAIN key_to_idx
    /\ mem' = Drained(mem, key_to_idx[k])
    /\ inflight' = MarkDone(1 .. key_to_idx[k])
    /\ pstats' = [pstats EXCEPT !.waited = @ + 1]
    /\ ready' = ready \cup {k}
    /\ UNCHANGED <<use_cuda, key_to_idx, stream, performed>>

\* Mutant of EventReached: nothing is waited for.
EventIgnored(t) == TRUE

\* Mutant of EventReached: the wait is for one copy more than the event covers.
EventReachedLate(t) == t.event # NoEvent => performed > t.event

\* cudaEventSynchronize returns; without an event cuda_wait does not block.
EventReached(t) == t.event # NoEvent => performed >= t.event

WaitCuda(k) ==
    /\ use_cuda
    /\ k \in DOMAIN key_to_idx
    /\ EventReached(inflight[key_to_idx[k]])
    /\ inflight' = MarkDone({key_to_idx[k]})
    /\ pstats' = [pstats EXCEPT !.waited = @ + 1]
    /\ ready' = ready \cup {k}
    /\ UNCHANGED <<use_cuda, key_to_idx, stream, performed, mem>>

WaitStep(k) == WaitUnknown(k) \/ WaitMock(k) \/ WaitCuda(k)

Wait(k) == WaitStep(k) /\ UNCHANGED cacheVars

\* synchronize_all(): the mock runs every transfer, CUDA blocks until the stream
\* is empty.
SynchronizeAll ==
    /\ \/ /\ ~use_cuda
          /\ mem' = Drained(mem, Len(inflight))
          /\ inflight' = MarkDone(DOMAIN inflight)
       \/ /\ use_cuda
          /\ stream = <<>>
          /\ UNCHANGED <<mem, inflight>>
    /\ UNCHANGED <<cacheVars, use_cuda, key_to_idx, pstats, stream, performed, ready>>

\* reset() forgets the transfers.  Copies on the CUDA stream still happen, the
\* mock's do not.
Reset ==
    /\ inflight' = <<>>
    /\ key_to_idx' = [k \in {} |-> 0]
    /\ UNCHANGED <<cacheVars, use_cuda, pstats, stream, performed, mem, ready>>

\* The copy engine performs the oldest copy on the stream.
DeviceCopy ==
    /\ stream # <<>>
    /\ mem' = CopyInto(mem, Head(stream))
    /\ stream' = Tail(stream)
    /\ performed' = performed + 1
    /\ UNCHANGED <<cacheVars, use_cuda, inflight, key_to_idx, pstats, ready>>

Next ==
    \/ /\ stats.ensures < MaxCalls
       /\ \E k \in Keys, p \in Priorities : Prefetch(k, p)
    \/ /\ pstats.waited < MaxCalls
       /\ \E k \in Keys : Wait(k)
    \/ SynchronizeAll
    \/ Reset
    \/ DeviceCopy

Spec == Init /\ [][Next]_vars
------------------------------------------------------------------------------
Loaded(k) == \A b \in KeySpan(k) : mem[b] = <<k, b - blocks[k].off>>

\* The copies that have yet to write the arena.
Pending ==
    IF use_cuda THEN {stream[i] : i \in DOMAIN stream}
    ELSE {inflight[i] : i \in {j \in DOMAIN inflight : ~inflight[j].done}}

TypeOK == CacheTypeOK /\ PrefetcherTypeOK

\* What wait() is for: once it answered true for an expert, and as long as the
\* expert is resident, the arena holds that expert's weights at data(), byte for
\* byte, whatever was evicted, reloaded or submitted in between.
ReadyHoldsWeights == \A k \in ready \cap Resident : Loaded(k)

\* ... and no copy of another expert is still to come that would write there: a
\* block is handed over while older transfers into the same bytes are queued.
ReadyNotUnderCopy ==
    \A k \in ready \cap Resident, t \in Pending :
        t.key # k => Span(t.dst, t.nbytes) \cap KeySpan(k) = {}
=============================================================================
