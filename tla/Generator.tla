---- MODULE Generator ----
(***************************************************************************)
(* The second runtime: Generator::generate() (generation.cpp) over the     *)
(* slot cache (SlotCache), the OracleScheduler, an asynchronous prefetcher *)
(* and the device abstraction (cuda_device.h).                             *)
(*                                                                         *)
(* A prefetch takes a slot and queues two copies, gate_up and down, on one *)
(* stream, then records an event.  On the mock device a queued copy runs   *)
(* only when somebody synchronizes; on a CUDA device the stream runs it on *)
(* its own (DeviceCopy) and synchronizing waits.                           *)
(*                                                                         *)
(* The prefetcher class this runtime is compiled against is not in the     *)
(* repository: its part is modelled from its use in generation.cpp and     *)
(* oracle_scheduler.cpp and from tests/test_vram_prefetch.cpp.  In         *)
(* particular an expert that loses its slot is neither ready nor in        *)
(* flight any more; ptr_of() at generation.cpp:72 has no check of its own. *)
(*                                                                         *)
(* The Oracle and the router are arbitrary: each names topk experts.       *)
(***************************************************************************)
EXTENDS SlotCache, FiniteSets

CONSTANTS Experts,
          Configs,     \* the GeneratorConfigs, with the arguments of generate()
          NoExpert     \* what memory holds before the first copy

\* generate() returns at once on an empty prompt or max_new_tokens <= 0.
ASSUME GeneratorAssumption ==
    /\ IsFiniteSet(Experts)
    /\ \A c \in Configs :
         /\ c \in [num_layers : Nat \ {0}, topk : 1 .. Cardinality(Experts),
                   prompt : Nat \ {0}, max_new : Nat \ {0}]
         /\ (0 .. c.num_layers - 1) \X Experts \subseteq Keys
    /\ NoExpert \notin Keys

VARIABLES cfg,         \* cfg_, prompt.size() and max_new_tokens
          backend,     \* "mock" or "cuda": which make_cuda_device() is built in
          pending,     \* the copies the stream has not performed, oldest first
          next_seq,    \* sequence number of the next copy
          mem,         \* what each half of each slot holds
          event,       \* the watermark recorded for each expert in flight
          ready,       \* experts the prefetcher reports ready
          pc, layer, pred, predicted, route,
          fed,         \* tokens run through the layers so far
          out,         \* tokens sampled so far
          hits, misses, reactive, prediction_calls,
          computed     \* what the last evaluation read, and for whom

deviceVars == <<pending, next_seq, mem, event, ready>>
loopVars == <<pc, layer, pred, predicted, route, fed, out>>
telemetry == <<hits, misses, reactive, prediction_calls>>
config == <<cfg, backend>>
vars == <<cacheVars, deviceVars, loopVars, telemetry, config, computed>>

Parts == {"gate_up", "down"}
Copies == [slot : Slots, part : Parts, key : Keys, seq : Nat]

\* K distinct experts, best first: what the Oracle or the router answers.
Choices == {s \in [1 .. cfg.topk -> Experts] : \A i, j \in DOMAIN s : s[i] = s[j] => i = j}

GenInit ==
    /\ SlotInit
    /\ cfg \in Configs
    /\ backend \in {"mock", "cuda"}
    /\ pending = <<>> /\ next_seq = 0 /\ event = <<>> /\ ready = {}
    /\ mem = [s \in Slots |-> [p \in Parts |-> NoExpert]]
    /\ pc = "predict" /\ layer = 0 /\ fed = 0 /\ out = 0
    /\ pred = <<>> /\ predicted = {} /\ route = <<>>
    /\ hits = 0 /\ misses = 0 /\ reactive = 0 /\ prediction_calls = 0
    /\ computed = <<>>

(***************************************************************************)
(* The device                                                              *)
(***************************************************************************)

\* Memory after the copies of the sequence q have run in order.
AfterCopies(m, q) ==
    [s \in Slots |-> [p \in Parts |->
        LET into == {i \in 1 .. Len(q) : q[i].slot = s /\ q[i].part = p}
        IN  IF into = {} THEN m[s][p]
            ELSE q[CHOOSE i \in into : \A j \in into : j <= i].key]]

\* The CUDA stream performs its oldest copy.
DeviceCopy ==
    /\ backend = "cuda"
    /\ pending # <<>>
    /\ mem' = AfterCopies(mem, <<Head(pending)>>)
    /\ pending' = Tail(pending)
    /\ UNCHANGED <<cacheVars, next_seq, event, ready, loopVars, telemetry, config, computed>>

\* Mutant of EventRecord: recorded between the two copies.
EventRecordEarly(n) == n - 1

\* event_record(): the event covers every copy queued so far.
EventRecord(n) == n

\* How many copies at the front of q the loop runs: it stops at the first one
\* that is not below the watermark.
CountBefore(q, watermark) ==
    CHOOSE n \in 0 .. Len(q) :
        /\ \A i \in 1 .. n : q[i].seq < watermark
        /\ n < Len(q) => q[n + 1].seq >= watermark

\* Mutant of Before: the last copy below the watermark is left out.
BeforeOffByOne(q, watermark) == SubSeq(q, 1, CountBefore(q, watermark - 1))

Before(q, watermark) == SubSeq(q, 1, CountBefore(q, watermark))
NotBefore(q, watermark) == SubSeq(q, CountBefore(q, watermark) + 1, Len(q))

\* Mutant of EventSynchronize: the CUDA host does not wait.
EventSynchronizeNoWait(watermark) ==
    IF backend = "cuda" THEN UNCHANGED <<mem, pending>>
    ELSE /\ mem' = AfterCopies(mem, Before(pending, watermark))
         /\ pending' = NotBefore(pending, watermark)

\* Mutant of EventSynchronize: CUDA waits for one copy more than the event covers.
EventSynchronizeLate(watermark) ==
    /\ backend = "cuda" => next_seq - Len(pending) > watermark
    /\ mem' = AfterCopies(mem, Before(pending, watermark))
    /\ pending' = NotBefore(pending, watermark)

\* event_synchronize(): the mock runs the copies below the watermark, CUDA
\* returns once none of them is left.
EventSynchronize(watermark) ==
    /\ backend = "cuda" => Before(pending, watermark) = <<>>
    /\ mem' = AfterCopies(mem, Before(pending, watermark))
    /\ pending' = NotBefore(pending, watermark)

(***************************************************************************)
(* The prefetcher                                                          *)
(***************************************************************************)
IsInflight(k) == k \in DOMAIN event

\* prefetch_expert(): take a slot, queue both projections, record the event.
PrefetchExpert(k) ==
    LET gone == Evicted(k)
        copy(part, n) == [slot |-> SlotFor(k), part |-> part, key |-> k, seq |-> n]
    IN  /\ \E p \in Priorities : Acquire(k, p)
        /\ pending' = pending \o <<copy("gate_up", next_seq), copy("down", next_seq + 1)>>
        /\ next_seq' = next_seq + 2
        /\ event' = [j \in (DOMAIN event \ gone) \union {k} |->
                        IF j = k THEN EventRecord(next_seq + 2) ELSE event[j]]
        /\ ready' = ready \ (gone \union {k})
        /\ UNCHANGED mem

\* synchronize_expert(): wait for the expert's own event, then it is ready.
SynchronizeExpert(k) ==
    /\ EventSynchronize(event[k])
    /\ event' = [j \in DOMAIN event \ {k} |-> event[j]]
    /\ ready' = ready \union {k}
    /\ UNCHANGED next_seq

(***************************************************************************)
(* run_layers()                                                            *)
(***************************************************************************)

\* on_token_decoded(): ask the Oracle ...
Predict ==
    /\ pc = "predict"
    /\ \E choice \in Choices :
         /\ pred' = choice
         /\ predicted' = {choice[i] : i \in DOMAIN choice}
    /\ pc' = "schedule"
    /\ UNCHANGED <<cacheVars, deviceVars, layer, route, fed, out, telemetry, config, computed>>

\* Mutant of NeedsPrefetch: the test for residency is inverted.
NeedsPrefetchInverted(k) == Contains(k) /\ ~IsInflight(k)

\* ... and prefetch what is neither resident nor in flight.
NeedsPrefetch(k) == ~Contains(k) /\ ~IsInflight(k)

Schedule ==
    /\ pc = "schedule"
    /\ pred # <<>>
    /\ LET k == <<layer, Head(pred)>>
       IN  IF NeedsPrefetch(k) THEN PrefetchExpert(k)
           ELSE UNCHANGED <<cacheVars, deviceVars>>
    /\ pred' = Tail(pred)
    /\ UNCHANGED <<pc, layer, predicted, route, fed, out, telemetry, config, computed>>

Route ==
    /\ pc = "schedule"
    /\ pred = <<>>
    /\ prediction_calls' = prediction_calls + 1
    /\ route' \in Choices
    /\ pc' = "experts"
    /\ UNCHANGED <<cacheVars, deviceVars, layer, pred, predicted, fed, out,
                   hits, misses, reactive, config, computed>>

Current == <<layer, Head(route)>>

ReadyHit ==
    /\ pc = "experts"
    /\ route # <<>>
    /\ Current \in ready
    /\ hits' = hits + 1
    /\ pc' = "evaluate"
    /\ UNCHANGED <<cacheVars, deviceVars, layer, pred, predicted, route, fed, out,
                   misses, reactive, prediction_calls, config, computed>>

\* Not ready: fetch it now unless its copies are already on their way.
NotReady ==
    /\ pc = "experts"
    /\ route # <<>>
    /\ Current \notin ready
    /\ IF IsInflight(Current) THEN UNCHANGED <<cacheVars, deviceVars, reactive>>
       ELSE PrefetchExpert(Current) /\ reactive' = reactive + 1
    /\ pc' = "wait"
    /\ UNCHANGED <<layer, pred, predicted, route, fed, out,
                   hits, misses, prediction_calls, config, computed>>

\* Mutant of Wait: the miss is not counted.
WaitUncounted ==
    /\ pc = "wait"
    /\ SynchronizeExpert(Current)
    /\ pc' = "evaluate"
    /\ UNCHANGED <<cacheVars, layer, pred, predicted, route, fed, out, telemetry, config, computed>>

Wait ==
    /\ pc = "wait"
    /\ SynchronizeExpert(Current)
    /\ misses' = misses + 1
    /\ pc' = "evaluate"
    /\ UNCHANGED <<cacheVars, layer, pred, predicted, route, fed, out,
                   hits, reactive, prediction_calls, config, computed>>

\* touch(), then expert_mlp() on both halves of the slot ptr_of() names.  It is a
\* host function: on the mock device it reads mem, as here; a CUDA build hands it
\* a pointer from cudaMalloc (generation.cpp:72-79), so "cuda" stands for a device
\* whose memory the host can read.
Evaluate ==
    /\ pc = "evaluate"
    /\ Touch(Current)
    /\ computed' = [expert |-> Current,
                    gate_up |-> IF Contains(Current) THEN mem[cached[Current].slot]["gate_up"] ELSE NoExpert,
                    down |-> IF Contains(Current) THEN mem[cached[Current].slot]["down"] ELSE NoExpert]
    /\ route' = Tail(route)
    /\ pc' = "experts"
    /\ UNCHANGED <<deviceVars, layer, pred, predicted, fed, out, telemetry, config>>

\* Mutant of MoreLayers: one layer too many.
MoreLayersOffByOne == layer < cfg.num_layers

MoreLayers == layer + 1 < cfg.num_layers

EndLayer ==
    /\ pc = "experts"
    /\ route = <<>>
    /\ IF MoreLayers
       THEN layer' = layer + 1 /\ pc' = "predict" /\ UNCHANGED fed
       ELSE layer' = 0 /\ fed' = fed + 1
            /\ pc' = IF fed + 1 < cfg.prompt THEN "predict" ELSE "sample"
    /\ predicted' = {}
    /\ UNCHANGED <<cacheVars, deviceVars, pred, route, out, telemetry, config, computed>>

(***************************************************************************)
(* generate(): every sampled token but the end of sequence is fed back,    *)
(* the last one too.                                                       *)
(***************************************************************************)
Sample ==
    /\ pc = "sample"
    /\ out < cfg.max_new
    /\ out' = out + 1
    /\ pc' \in {"predict", "done"}        \* "done": the token is eos_token
    /\ UNCHANGED <<cacheVars, deviceVars, layer, pred, predicted, route, fed,
                   telemetry, config, computed>>

Return ==
    /\ pc = "sample"
    /\ out = cfg.max_new
    /\ pc' = "done"
    /\ UNCHANGED <<cacheVars, deviceVars, layer, pred, predicted, route, fed, out,
                   telemetry, config, computed>>

Host == \/ Predict \/ Schedule \/ Route \/ ReadyHit \/ NotReady \/ Wait
        \/ Evaluate \/ EndLayer \/ Sample \/ Return

GenNext == Host \/ DeviceCopy

\* The host thread runs until it blocks, and the stream performs its copies.
GenSpec == GenInit /\ [][GenNext]_vars /\ WF_vars(Host) /\ WF_vars(DeviceCopy)

(***************************************************************************)
(* Properties                                                              *)
(***************************************************************************)
GenTypeOK ==
    /\ SlotTypeOK
    /\ cfg \in Configs /\ backend \in {"mock", "cuda"}
    /\ pending \in Seq(Copies) /\ next_seq \in Nat
    /\ mem \in [Slots -> [Parts -> Keys \union {NoExpert}]]
    /\ DOMAIN event \subseteq Keys /\ event \in [DOMAIN event -> Nat] /\ ready \subseteq Keys
    /\ pc \in {"predict", "schedule", "experts", "wait", "evaluate", "sample", "done"}
    /\ layer \in 0 .. cfg.num_layers - 1
    /\ pred \in Seq(Experts) /\ predicted \subseteq Experts /\ route \in Seq(Experts)
    /\ fed \in 0 .. cfg.prompt + cfg.max_new /\ out \in 0 .. cfg.max_new
    /\ {hits, misses, reactive, prediction_calls} \subseteq Nat
    /\ computed # <<>> => computed \in [expert : Keys, gate_up : Keys \union {NoExpert},
                                        down : Keys \union {NoExpert}]

\* expert_mlp() computes with both projections of the expert the router named,
\* whatever was prefetched, evicted or still in the stream when it was reached
\* (generation.cpp:57-79).
EvaluatesOwnWeights ==
    computed # <<>> => computed.gate_up = computed.expert /\ computed.down = computed.expert

\* An expert reported ready is resident, its slot holds both its projections
\* and no queued copy will overwrite them: a hit may skip the event wait
\* (generation.cpp:57-58).
ReadySlotsSettled ==
    \A k \in ready :
        /\ Contains(k)
        /\ \A p \in Parts : mem[cached[k].slot][p] = k
        /\ \A i \in 1 .. Len(pending) : pending[i].slot # cached[k].slot

\* An expert in flight is resident, and once the copies below its own event
\* have run its slot holds its weights, even if the slot was reassigned while
\* copies of its previous owner were still queued
\* (cuda_backend_mock.cpp:65-84).
EventCoversCopies ==
    \A k \in DOMAIN event :
        /\ Contains(k)
        /\ \A p \in Parts :
             AfterCopies(mem, Before(pending, event[k]))[cached[k].slot][p] = k

\* Between two tokens the counters agree with the work done: one prediction
\* per layer and token (generation.h:81), one hit or miss per evaluation, and
\* a reactive prefetch only on a miss.
TelemetryAddsUp ==
    pc \in {"sample", "done"} =>
        /\ prediction_calls = fed * cfg.num_layers
        /\ hits + misses = fed * cfg.num_layers * cfg.topk
        /\ reactive <= misses

\* As long as a slot is unused, a prefetch the loop issues itself is for an
\* expert the Oracle did not predict, as generation.h:78-79 describes the
\* counter; once the cache is full it also counts predicted experts that were
\* evicted before their turn.
ReactiveMeansMispredicted ==
    [][reactive' > reactive /\ free_list # <<>> => Head(route) \notin predicted]_vars

\* generate() returns: no wait on an event lasts for ever.
GenerationEnds == <>(pc = "done")

====
