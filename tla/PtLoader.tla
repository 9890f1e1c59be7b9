---- MODULE PtLoader ----
(***************************************************************************)
(* Loading the Oracle's weights: OracleScheduler::load() (oracle.cpp) with *)
(* a fresh PtLoader (pt_loader.cpp) on a PyTorch .pt file, which is a ZIP  *)
(* archive of one pickle and one file per storage.                         *)
(*                                                                         *)
(* The archive is whatever the file system holds: every directory entry    *)
(* the loader meets is chosen when it is read, at most MaxEntries of them. *)
(* A storage is reduced to whether it is long enough for the tensor of its *)
(* place in a layer, and the pickle to the pair (tensor name, storage) its *)
(* scan finds, a name being the tensor's place in a layer.                 *)
(***************************************************************************)
EXTENDS Integers, FiniteSets

CONSTANTS NumLocals,   \* tensors per layer: 6 in kLocalNames
          MaxStorage,  \* largest storage index an archive names
          MaxEntries,  \* directory entries of an archive
          NoPickle     \* pkl_bytes_ is empty

Locals == 0 .. NumLocals - 1
Storages == 0 .. MaxStorage

\* One scanned name with the storage key found behind it, -1 if none is.
Pickles == {{}} \union {{<<local, g>>} : local \in Locals, g \in Storages \union {-1}}

ASSUME PtLoaderAssumption ==
    /\ NumLocals \in Nat \ {0} /\ MaxStorage \in Nat /\ MaxEntries \in Nat
    /\ NoPickle \notin Pickles

VARIABLES load_pc,
          entries,     \* directory entries read so far
          buffers,     \* buffers_: storage index -> is it long enough
          pkl,         \* pkl_bytes_
          tensors,     \* tensors_: <<layer, local>> -> storage
          num_layers,  \* layers_.size() of the Oracle
          at,          \* l, the layer load() is filling
          weights      \* the storage each of the Oracle's tensors came from

loaderVars == <<load_pc, entries, buffers, pkl, tensors, num_layers, at, weights>>

\* The tensor was read by an earlier load().
Earlier == -1

LoaderInit ==
    /\ load_pc = "idle" /\ entries = 0
    /\ buffers = <<>> /\ pkl = NoPickle /\ tensors = <<>>
    /\ num_layers = 0 /\ at = 0 /\ weights = <<>>

\* A PtLoader without an archive: as constructed, after close(), destroyed.
LoaderGone == entries' = 0 /\ buffers' = <<>> /\ pkl' = NoPickle /\ tensors' = <<>>

\* open(): the file is read and begins with the magic bytes, or not.
OpenArchive ==
    /\ load_pc = "open"
    /\ LoaderGone
    /\ load_pc' \in {"directory", "failed"}
    /\ UNCHANGED <<num_layers, at, weights>>

\* The end-of-central-directory record is there, or not.  The scan for one
\* that is not there also reads the 22 bytes in front of the file's copy (the
\* index wraps at 0); found there or not, the outcome is one of the two.
FindDirectory ==
    /\ load_pc = "directory"
    /\ load_pc' \in {"entries", "failed"}
    /\ UNCHANGED <<entries, buffers, pkl, tensors, num_layers, at, weights>>

NextEntry == load_pc = "entries" /\ entries < MaxEntries /\ entries' = entries + 1

\* A stored entry, or a deflated one that inflates.
StoreBuffer ==
    /\ NextEntry
    /\ \E g \in Storages, fits \in BOOLEAN :
         buffers' = [i \in DOMAIN buffers \union {g} |-> IF i = g THEN fits ELSE buffers[i]]
    /\ UNCHANGED <<load_pc, pkl, tensors, num_layers, at, weights>>

\* The pickle is kept until every buffer is there.
StorePickle ==
    /\ NextEntry
    /\ pkl' \in Pickles \union {NoPickle}       \* NoPickle: an empty file
    /\ UNCHANGED <<load_pc, buffers, tensors, num_layers, at, weights>>

\* Another name, an unknown method, or an offset outside the file: continue.
SkipEntry ==
    /\ NextEntry
    /\ UNCHANGED <<load_pc, buffers, pkl, tensors, num_layers, at, weights>>

\* A corrupt deflate stream ends the load; one that is cut short keeps
\* inflate() answering Z_BUF_ERROR, and the loop does not leave on that: each
\* further pass finds the same input and adds nothing to the output.
InflateFails ==
    /\ NextEntry
    /\ load_pc' \in {"failed", "inflating"}
    /\ UNCHANGED <<buffers, pkl, tensors, num_layers, at, weights>>

InflateAgain == load_pc = "inflating" /\ UNCHANGED loaderVars

\* The directory is exhausted, or its next entry is outside the file.
EndEntries ==
    /\ load_pc = "entries"
    /\ load_pc' = IF pkl = NoPickle THEN "opened" ELSE "pickle"
    /\ UNCHANGED <<entries, buffers, pkl, tensors, num_layers, at, weights>>

\* Mutant of Table: the places of a layer are counted from 1.
TableOneBased(n) ==
    [p \in {<<g \div NumLocals, (g % NumLocals) + 1>> : g \in 0 .. n - 1} |->
        p[1] * NumLocals + p[2] - 1]

\* The table parse_pickle() derives from the number of buffers.
Table(n) ==
    [p \in {<<g \div NumLocals, g % NumLocals>> : g \in 0 .. n - 1} |-> p[1] * NumLocals + p[2]]

\* Mutant of Contradicts: a name without a storage key is held against it.
ContradictsUnscanned(pair, n) ==
    pair[2] < n /\ pair[2] % NumLocals # pair[1]

Contradicts(pair, n) ==
    pair[2] \in 0 .. n - 1 /\ pair[2] % NumLocals # pair[1]

ParsePickle ==
    /\ load_pc = "pickle"
    /\ LET n == Cardinality(DOMAIN buffers)
       IN  /\ tensors' = Table(n)
           /\ load_pc' = IF \E pair \in pkl : Contradicts(pair, n) THEN "failed" ELSE "opened"
    /\ UNCHANGED <<entries, buffers, pkl, num_layers, at, weights>>

\* load(): probe layer after layer for its first tensor, size layers_, which
\* keeps the layers an earlier load() left in it.
CountLayers ==
    /\ load_pc = "opened"
    /\ LET n == Cardinality({p \in DOMAIN tensors : p[2] = 0})
       IN  IF n = 0 THEN load_pc' = "failed" /\ UNCHANGED <<num_layers, weights>>
           ELSE /\ load_pc' = "reading" /\ num_layers' = n
                /\ weights' = [p \in {q \in DOMAIN weights : q[1] < n} |-> Earlier]
    /\ at' = 0
    /\ UNCHANGED <<entries, buffers, pkl, tensors>>

\* Mutant of Readable: the size of the buffer is not looked at.
ReadableAnySize(p) == p \in DOMAIN tensors /\ tensors[p] \in DOMAIN buffers

\* read_tensor(): named in the table, its buffer there and long enough.
Readable(p) ==
    /\ p \in DOMAIN tensors
    /\ tensors[p] \in DOMAIN buffers
    /\ buffers[tensors[p]]

\* The tensors of one layer in their order, up to one that cannot be read.
ReadLayer ==
    /\ load_pc = "reading"
    /\ at < num_layers
    /\ LET layer == {at} \X Locals
           got == {p \in layer : \A q \in layer : q[2] <= p[2] => Readable(q)}
       IN  /\ weights' = [p \in DOMAIN weights \union got |->
                             IF p \in got THEN tensors[p] ELSE weights[p]]
           /\ IF got = layer THEN at' = at + 1 /\ UNCHANGED load_pc
              ELSE load_pc' = "failed" /\ UNCHANGED at
    /\ UNCHANGED <<entries, buffers, pkl, tensors, num_layers>>

EndLoad ==
    /\ load_pc = "reading"
    /\ at = num_layers
    /\ load_pc' = "loaded"
    /\ UNCHANGED <<entries, buffers, pkl, tensors, num_layers, at, weights>>

LoaderStep ==
    \/ OpenArchive \/ FindDirectory \/ StoreBuffer \/ StorePickle \/ SkipEntry
    \/ InflateFails \/ InflateAgain \/ EndEntries \/ ParsePickle \/ CountLayers \/ ReadLayer \/ EndLoad

LoaderTypeOK ==
    /\ load_pc \in {"idle", "open", "directory", "entries", "inflating", "pickle", "opened", "reading",
                    "loaded", "failed"}
    /\ entries \in 0 .. MaxEntries
    /\ DOMAIN buffers \subseteq Storages /\ buffers \in [DOMAIN buffers -> BOOLEAN]
    /\ pkl \in Pickles \union {NoPickle}
    /\ DOMAIN tensors \subseteq Nat \X Locals /\ tensors \in [DOMAIN tensors -> Nat]
    /\ num_layers \in Nat /\ at \in 0 .. num_layers
    /\ DOMAIN weights \subseteq (0 .. num_layers - 1) \X Locals

\* A load that succeeds has used the whole archive: its storages are exactly
\* those of num_layers full layers, each tensor was read from its own storage
\* and that storage was long enough.  The table is built from the number of
\* buffers alone (pt_loader.cpp:228), so a storage lost on the way would
\* shift nothing and must be noticed by a tensor that cannot be read.  Nor did
\* the pickle put a name at a storage of another place: "any mismatch is a
\* real format change and is reported as an error" (pt_loader.cpp:151-152).
LoadedWhole ==
    load_pc = "loaded" =>
        /\ DOMAIN buffers = 0 .. num_layers * NumLocals - 1
        /\ DOMAIN weights = (0 .. num_layers - 1) \X Locals
        /\ \A p \in DOMAIN weights :
             weights[p] = p[1] * NumLocals + p[2] /\ buffers[weights[p]]
        /\ \A pair \in pkl : pair[2] \in DOMAIN buffers => pair[1] = pair[2] % NumLocals

\* An archive of full layers whose pickle agrees loads, in whatever order its
\* entries come (pt_loader.cpp:91-93 defers the pickle for this).
Intact ==
    /\ pkl # NoPickle
    /\ \E n \in 1 .. MaxStorage + 1 : DOMAIN buffers = 0 .. n * NumLocals - 1
    /\ \A g \in DOMAIN buffers : buffers[g]
    /\ \A pair \in pkl : pair[2] \in DOMAIN buffers => pair[1] = pair[2] % NumLocals

====
