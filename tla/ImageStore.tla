----------------------------- MODULE ImageStore -----------------------------
(***************************************************************************)
(* The image store: a directory per layer, named by its digest, and a file *)
(* per image.  Pulls and imports run in worker processes, at the same time *)
(* as each other and as the daemon, which deletes, prunes and commits.     *)
(* Nothing is locked.  Every extraction of a layer goes through the same   *)
(* directory .tmp-<digest>.  The contents of a layer are two files, so     *)
(* that a part of a layer can be told from a whole one.                    *)
(***************************************************************************)
EXTENDS Naturals, Sequences, SequencesExt

CONSTANTS
    Workers,   \* pull and import processes that may run together
    Names,     \* names of images
    Digests,   \* images a registry or an archive may hold for a name
    LayersOf,  \* Digests -> sequences of layers
    Committed, \* the layer and the digest that a commit makes, and its base
    None, Torn,
    Faults     \* bound on crashes

VARIABLES
    meta,      \* the file of each image: None, Torn while it is written, or its digest
    layer,     \* what is in the directory of each layer, None: no directory
    tmp,       \* the same for .tmp-<digest>
    worker,    \* each worker
    daemon,    \* the request that the daemon serves
    excused,   \* ghost: layers extracted twice at once, or cut short in a commit or a prune
    faults

vars == <<meta, layer, tmp, worker, daemon, excused, faults>>

Whole == {1, 2}
Layers == UNION {Range(LayersOf[d]) : d \in Digests \cup {Committed}}
Idle == [at |-> "idle"]

list == {n \in Names : meta[n] \notin {None, Torn}}

\* An image's file is written in place: readers may see it torn.
PutBegin(n) == meta' = [meta EXCEPT ![n] = Torn]
PutEnd(n, d) == meta' = [meta EXCEPT ![n] = d]

-----------------------------------------------------------------------------
(* Workers: pull_and_import, import_archive                                *)

SetWorker(w, r) == worker' = [worker EXCEPT ![w] = r]
Go(w, at) == SetWorker(w, [worker[w] EXCEPT !.at = at])
Rest(w) == worker[w].rest

\* What else happens while a pull runs is noted for it.
Noted(others) == [w \in Workers |-> IF worker[w] # Idle /\ w \in others
                                    THEN [worker[w] EXCEPT !.alone = FALSE] ELSE worker[w]]

\* ensure_pulled: Missing and Never answer what is there, a torn file is an error.
\* Always resolves, and answers too when the digest and the layers are there.
Needed(n, policy, d) ==
    \/ policy = "import"
    \/ policy = "missing" /\ meta[n] = None
    \/ policy = "always" /\ ~(meta[n] = d /\ \A l \in Range(LayersOf[d]) : layer[l] # None)

Begin(w, n, policy, d) ==
    /\ worker[w] = Idle /\ Needed(n, policy, d)
    /\ worker' = [Noted(Workers) EXCEPT
                    ![w] = [at |-> "layer", name |-> n, digest |-> d, rest |-> LayersOf[d],
                            alone |-> daemon = Idle /\ \A v \in Workers : worker[v] = Idle]]
    /\ UNCHANGED <<meta, layer, tmp, daemon, excused, faults>>

\* store_layer_from_blob, for a layer that is not there.
NextLayer(w) ==
    /\ worker[w].at = "layer" /\ Rest(w) # <<>>
    /\ IF layer[Head(Rest(w))] # None
         THEN SetWorker(w, [worker[w] EXCEPT !.rest = Tail(@)]) /\ UNCHANGED <<tmp, excused>>
         ELSE /\ tmp' = [tmp EXCEPT ![Head(Rest(w))] = None]
              /\ Go(w, "open")
              /\ excused' = IF \E v \in Workers \ {w} :
                                   worker[v] # Idle /\ worker[v].at \in {"open", "first", "second", "rename"}
                                   /\ Head(Rest(v)) = Head(Rest(w))
                            THEN excused \cup {Head(Rest(w))} ELSE excused
    /\ UNCHANGED <<meta, layer, daemon, faults>>

\* extract_layer: the directory, then the entries.  One that is gone is an error.
Open(w) ==
    /\ worker[w].at = "open"
    /\ tmp' = [tmp EXCEPT ![Head(Rest(w))] = IF @ = None THEN {} ELSE @]
    /\ Go(w, "first")
    /\ UNCHANGED <<meta, layer, daemon, excused, faults>>

Extract(w, at, file, next) ==
    /\ worker[w].at = at
    /\ IF tmp[Head(Rest(w))] = None THEN Go(w, "failed") /\ UNCHANGED tmp
       ELSE tmp' = [tmp EXCEPT ![Head(Rest(w))] = @ \cup {file}] /\ Go(w, next)
    /\ UNCHANGED <<meta, layer, daemon, excused, faults>>

\* The digest is the one of the stream.  A rename needs its source, and a target
\* that is not there or empty; what it does not rename stays.
Rename(w) ==
    /\ worker[w].at = "rename"
    /\ LET l == Head(Rest(w)) IN
       IF tmp[l] = None \/ layer[l] \notin {None, {}}
         THEN SetWorker(w, Idle) /\ UNCHANGED <<layer, tmp>>
         ELSE /\ layer' = [layer EXCEPT ![l] = tmp[l]] /\ tmp' = [tmp EXCEPT ![l] = None]
              /\ SetWorker(w, [worker[w] EXCEPT !.at = "layer", !.rest = Tail(@)])
    /\ UNCHANGED <<meta, daemon, excused, faults>>

\* Errors of extract_layer (a bad entry, a full disk), and a digest that does not match,
\* remove the directory.
Fail(w) ==
    /\ worker[w].at = "failed"
    /\ tmp' = [tmp EXCEPT ![Head(Rest(w))] = None]
    /\ SetWorker(w, Idle)
    /\ UNCHANGED <<meta, layer, daemon, excused, faults>>

Errs(w) ==
    /\ worker[w].at \in {"open", "first", "second", "rename"} /\ Go(w, "failed")
    /\ UNCHANGED <<meta, layer, tmp, daemon, excused, faults>>

\* Mutant: the file is written before the layers are there.
MutPut(w) ==
    /\ worker[w].at = "layer"
    /\ PutBegin(worker[w].name) /\ Go(w, "put")
    /\ UNCHANGED <<layer, tmp, daemon, excused, faults>>

Put(w) ==
    /\ worker[w].at = "layer" /\ Rest(w) = <<>>
    /\ PutBegin(worker[w].name) /\ Go(w, "put")
    /\ UNCHANGED <<layer, tmp, daemon, excused, faults>>

Done(w) ==
    /\ worker[w].at = "put"
    /\ PutEnd(worker[w].name, worker[w].digest) /\ SetWorker(w, Idle)
    /\ UNCHANGED <<layer, tmp, daemon, excused, faults>>

\* A worker is killed; what it wrote stays.
WorkerDies(w) ==
    /\ worker[w] # Idle /\ faults < Faults /\ faults' = faults + 1
    /\ SetWorker(w, Idle)
    /\ UNCHANGED <<meta, layer, tmp, daemon, excused>>

-----------------------------------------------------------------------------
(* The daemon: handle_inline and op_commit, one request at a time          *)

Delete(n) ==
    /\ daemon = Idle /\ meta[n] # None
    /\ meta' = [meta EXCEPT ![n] = None] /\ worker' = Noted(Workers)
    /\ UNCHANGED <<layer, tmp, daemon, excused, faults>>

\* gc: the layers of the images that can be read are kept.  Reading the directory finds
\* the layers that were there, and maybe some that came since.
Prune ==
    /\ daemon = Idle
    /\ LET keep == UNION {Range(LayersOf[meta[n]]) : n \in list} IN
       daemon' = [at |-> "prune", keep |-> keep, there |-> {l \in Layers : layer[l] # None} \ keep]
    /\ worker' = Noted(Workers)
    /\ UNCHANGED <<meta, layer, tmp, excused, faults>>

PruneOne ==
    /\ daemon.at = "prune"
    /\ \/ \E l \in Layers \ daemon.keep :
            /\ layer[l] # None /\ layer' = [layer EXCEPT ![l] = None]
            /\ daemon' = [daemon EXCEPT !.there = @ \ {l}]
       \/ daemon.there = {} /\ daemon' = Idle /\ UNCHANGED layer
    /\ UNCHANGED <<meta, tmp, worker, excused, faults>>

\* commit_upper_to_store extracts in place; the daemon then writes the image's file.
Commit(n) ==
    /\ daemon = Idle
    /\ \A l \in Range(LayersOf[Committed]) : l # Last(LayersOf[Committed]) => layer[l] # None
    /\ LET l == Last(LayersOf[Committed]) IN
       IF layer[l] # None THEN daemon' = [at |-> "put", name |-> n] /\ UNCHANGED layer
       ELSE layer' = [layer EXCEPT ![l] = {1}] /\ daemon' = [at |-> "commit", name |-> n]
    /\ worker' = Noted(Workers)
    /\ UNCHANGED <<meta, tmp, excused, faults>>

CommitRest ==
    /\ daemon.at = "commit"
    /\ layer' = [layer EXCEPT ![Last(LayersOf[Committed])] = Whole]
    /\ daemon' = [daemon EXCEPT !.at = "put"]
    /\ UNCHANGED <<meta, tmp, worker, excused, faults>>

CommitPut ==
    /\ daemon.at = "put"
    /\ PutEnd(daemon.name, Committed) /\ daemon' = Idle
    /\ UNCHANGED <<layer, tmp, worker, excused, faults>>

\* A removal, an extraction or a write of the daemon ends half way, and with it the
\* request.
HalfWay ==
    /\ daemon' = Idle
    /\ \/ /\ daemon.at = "prune"
          /\ \E l \in Layers \ daemon.keep :
               layer[l] # None /\ layer' = [layer EXCEPT ![l] = {2}] /\ excused' = excused \cup {l}
          /\ UNCHANGED meta
       \/ /\ daemon.at = "commit"
          /\ excused' = excused \cup {Last(LayersOf[Committed])} /\ UNCHANGED <<layer, meta>>
       \/ daemon.at = "put" /\ PutBegin(daemon.name) /\ UNCHANGED <<layer, excused>>
    /\ UNCHANGED <<tmp, worker>>

\* The `?' of remove_dir_all in gc, of extract_maybe_gzip in commit_upper_to_store and of
\* fs::write in put: the request is answered with an error, what is there stays.
RequestFails == daemon # Idle /\ HalfWay /\ UNCHANGED faults

DaemonDies == daemon # Idle /\ faults < Faults /\ faults' = faults + 1 /\ HalfWay

-----------------------------------------------------------------------------

Init ==
    /\ meta = [n \in Names |-> None]
    /\ layer = [l \in Layers |-> None] /\ tmp = [l \in Layers |-> None]
    /\ worker = [w \in Workers |-> Idle] /\ daemon = Idle
    /\ excused = {} /\ faults = 0

Next ==
    \/ \E w \in Workers :
         \/ \E n \in Names, d \in Digests, policy \in {"missing", "always", "import"} :
              Begin(w, n, policy, d)
         \/ NextLayer(w) \/ Open(w)
         \/ Extract(w, "first", 1, "second") \/ Extract(w, "second", 2, "rename")
         \/ Rename(w) \/ Errs(w) \/ Fail(w) \/ Put(w) \/ Done(w) \/ WorkerDies(w)
    \/ \E n \in Names : Delete(n) \/ Commit(n)
    \/ Prune \/ PruneOne \/ CommitRest \/ CommitPut \/ RequestFails \/ DaemonDies

Spec == Init /\ [][Next]_vars

-----------------------------------------------------------------------------
(* Correctness.                                                            *)

\* A directory with the name of a layer holds all of it, so that the workers that
\* find it may skip the extraction: through failing and dying workers, and prunes,
\* except where two workers extracted the layer at once, or the daemon died or failed
\* half way while it committed or pruned it.  And a pull or an import that nobody else
\* disturbs leaves an image whose layers are all there, whatever was left behind before.
ImagesWhole ==
    /\ \A l \in Layers \ excused :
          \/ layer[l] \in {None, Whole}
          \/ daemon.at = "commit" /\ l = Last(LayersOf[Committed])
    /\ \A w \in Workers :
          worker[w] # Idle /\ worker[w].at = "put" /\ worker[w].alone
              => \A l \in Range(LayersOf[worker[w].digest]) : layer[l] # None
=============================================================================
