----------------------------- MODULE ModelCache -----------------------------
(***************************************************************************)
(* The cache directory of one model (embedding's resolve.rs and            *)
(* resolved_backend): files fetched once and locked by their hash on first *)
(* use, and the lockfile, both written in place.  The query lane and the   *)
(* bulk lane of a role load the same model at the same time, and so do     *)
(* other processes.                                                        *)
(*                                                                         *)
(* "config" stands for the JSON files that are parsed when they are read.  *)
(* Content is a version and whether it is whole: a prefix of a file is     *)
(* neither valid JSON nor a loadable weight file.  A hash is the content.  *)
(***************************************************************************)
EXTENDS Naturals, Sequences

CONSTANTS
    Loader,       \* threads that load the model
    Repositories, \* [pooling, weights, decoder, compatible]
    MaxVersions,  \* bound: commits of the upstream branch
    MaxLoads      \* bound: loads started

Weights == {"safetensors", "onnx"}
File == {"config", "tokenizer"} \cup Weights

ASSUME ModelCacheAssumption ==
    /\ \A r \in Repositories : r.pooling \in {"last", "mean", "undeclared"}
                                 /\ r.weights \subseteq Weights
    /\ MaxVersions \in Nat \ {0}

VARIABLES
    repository,
    upstream,   \* the version the branch is at
    cached,     \* the files of the directory
    lockfile,   \* [state, files]: absent, torn or whole
    load,       \* what each loader does
    loads,      \* how many were started
    first,      \* history: the content that first became whole in the cache
    raced       \* history: files touched during a fetch, or left by a crash

cacheVars == <<repository, upstream, cached, lockfile, load, loads, first, raced>>

Nothing == [version |-> 0, whole |-> FALSE]
Whole(v) == [version |-> v, whole |-> TRUE]
Half(c) == [c EXCEPT !.whole = FALSE]
NoFiles == [f \in File |-> Nothing]

\* at: where it is; todo: the files it still fetches; mine: its lockfile;
\* got: what it is about to write; weights: the artifact it runs.
Resting == [at |-> "rest", pass |-> "config", todo |-> <<>>, mine |-> NoFiles,
            got |-> Nothing, weights |-> "none", hash |-> Nothing, bytes |-> Nothing]

CacheInit ==
    /\ repository \in Repositories /\ upstream = 1
    /\ cached = NoFiles /\ lockfile = [state |-> "absent", files |-> NoFiles]
    /\ load = [l \in Loader |-> Resting] /\ loads = 0
    /\ first = NoFiles /\ raced = {}

Goes(l, to) == load' = [load EXCEPT ![l] = to]
GivesUp(l) == Goes(l, Resting)
Due(l) == Head(load[l].todo)
Reaching(l, at) == load[l].at = at /\ load[l].todo # <<>>

Fetching(l, f) == load[l].at \in {"fetched", "writing"} /\ Due(l) = f
Touches(l, f) ==
    raced' = IF \E k \in Loader \ {l} : Fetching(k, f) THEN raced \cup {f} ELSE raced

\* verify_or_record.
Verifies(lock, f, content) == lock[f] \in {Nothing, content}
Recorded(lock, f, content) == [lock EXCEPT ![f] = content]

\* Faulty: every load fetches again.
NeverCached(f) == FALSE

\* A file that is there is read, and never fetched again.
IsCached(f) == cached[f] # Nothing

Starts(l) ==
    /\ load[l].at \in {"rest", "loaded"} /\ loads < MaxLoads
    /\ Goes(l, [Resting EXCEPT !.at = "lock", !.todo = <<"config">>])
    /\ loads' = loads + 1
    /\ UNCHANGED <<repository, upstream, cached, lockfile, first, raced>>

\* load_lockfile.
LoadsLockfile(l) ==
    /\ load[l].at = "lock"
    /\ IF lockfile.state = "torn" THEN GivesUp(l)
       ELSE Goes(l, [load[l] EXCEPT !.at = "file", !.mine = lockfile.files])
    /\ UNCHANGED <<repository, upstream, cached, lockfile, loads, first, raced>>

\* fetch_file of a cached file, and fetch_json parses it.
ReadsCached(l) ==
    /\ Reaching(l, "file") /\ IsCached(Due(l))
    /\ LET f == Due(l) IN
       /\ IF Verifies(load[l].mine, f, cached[f]) /\ (load[l].pass = "config" => cached[f].whole)
          THEN Goes(l, [load[l] EXCEPT !.mine = Recorded(@, f, cached[f]), !.todo = Tail(@)])
          ELSE GivesUp(l)
       /\ Touches(l, f)
    /\ UNCHANGED <<repository, upstream, cached, lockfile, loads, first>>

\* fetch_file of a file that is not cached; the request may fail.
Fetches(l) ==
    /\ Reaching(l, "file") /\ ~IsCached(Due(l))
    /\ LET f == Due(l) IN
       /\ \/ GivesUp(l)
          \/ /\ Verifies(load[l].mine, f, Whole(upstream))
             /\ Goes(l, [load[l] EXCEPT !.at = "fetched", !.got = Whole(upstream),
                                        !.mine = Recorded(@, f, Whole(upstream))])
       /\ Touches(l, f)
    /\ UNCHANGED <<repository, upstream, cached, lockfile, loads, first>>

\* fs::write truncates, then writes.
BeginsWrite(l) ==
    /\ Reaching(l, "fetched")
    /\ cached' = [cached EXCEPT ![Due(l)] = Half(load[l].got)]
    /\ Goes(l, [load[l] EXCEPT !.at = "writing"])
    /\ Touches(l, Due(l))
    /\ UNCHANGED <<repository, upstream, lockfile, loads, first>>

EndsWrite(l) ==
    /\ Reaching(l, "writing")
    /\ LET f == Due(l) IN
       /\ cached' = [cached EXCEPT ![f] = load[l].got]
       /\ first' = IF first[f] = Nothing THEN [first EXCEPT ![f] = load[l].got] ELSE first
       /\ Touches(l, f)
    /\ Goes(l, [load[l] EXCEPT !.at = "file", !.todo = Tail(@)])
    /\ UNCHANGED <<repository, upstream, lockfile, loads>>

\* What the pooling runs on: candle or fastembed.
Artifact == IF repository.pooling = "last" THEN "safetensors" ELSE "onnx"

\* resolve_model once the configuration is read: a contract, or an error, and
\* the weights it finds, a failing probe being read as an absent file.
Declares(l) ==
    /\ load[l].at = "file" /\ load[l].todo = <<>> /\ load[l].pass = "config"
    /\ IF repository.pooling = "undeclared" THEN GivesUp(l)
       ELSE \E found \in SUBSET repository.weights :
              /\ {w \in Weights : IsCached(w)} \subseteq found
              /\ Goes(l, [load[l] EXCEPT
                     !.pass = "tokenizer", !.todo = <<"tokenizer">>,
                     !.weights = IF Artifact \in found
                                    /\ (Artifact = "safetensors" => repository.decoder)
                                 THEN Artifact ELSE "none"])
    /\ UNCHANGED <<repository, upstream, cached, lockfile, loads, first, raced>>

\* save_lockfile truncates, then writes.
BeginsSave(l) ==
    /\ load[l].at = "file" /\ load[l].todo = <<>> /\ load[l].pass # "config"
    /\ lockfile' = [state |-> "torn", files |-> NoFiles]
    /\ Goes(l, [load[l] EXCEPT !.at = "saving"])
    /\ UNCHANGED <<repository, upstream, cached, loads, first, raced>>

\* preflight_safetensors: the header names tensors the backend does not know.
Refused(weights) ==
    weights = "safetensors" /\ ~IsCached(weights) /\ ~repository.compatible

\* After the first save the backend is chosen and materialize_files runs; after
\* the second it is built.
EndsSave(l) ==
    /\ load[l].at = "saving"
    /\ lockfile' = [state |-> "whole", files |-> load[l].mine]
    /\ IF load[l].pass = "weights" THEN Goes(l, [load[l] EXCEPT !.at = "hash"])
       ELSE IF load[l].weights = "none" \/ Refused(load[l].weights) THEN GivesUp(l)
       ELSE Goes(l, [load[l] EXCEPT !.at = "lock", !.pass = "weights",
                         !.todo = <<load[l].weights, "tokenizer", "config">>])
    /\ UNCHANGED <<repository, upstream, cached, loads, first, raced>>

\* locked_hash.
TakesHash(l) ==
    /\ load[l].at = "hash"
    /\ Goes(l, [load[l] EXCEPT !.at = "load", !.hash = lockfile.files[load[l].weights]])
    /\ UNCHANGED <<repository, upstream, cached, lockfile, loads, first, raced>>

\* from_resolved reads the files again.
Builds(l) ==
    /\ load[l].at = "load"
    /\ LET w == load[l].weights IN
       /\ IF \A f \in {w, "tokenizer", "config"} : cached[f].whole
          THEN Goes(l, [load[l] EXCEPT !.at = "loaded", !.bytes = cached[w]])
          ELSE GivesUp(l)
       /\ Touches(l, w)
    /\ UNCHANGED <<repository, upstream, cached, lockfile, loads, first>>

Crashes(l) ==
    /\ load[l].at \notin {"rest", "loaded"}
    /\ raced' = IF load[l].at = "writing" THEN raced \cup {Due(l)} ELSE raced
    /\ GivesUp(l)
    /\ UNCHANGED <<repository, upstream, cached, lockfile, loads, first>>

\* Somebody pushes to the branch a reference without a revision follows.
Moves ==
    /\ upstream < MaxVersions /\ upstream' = upstream + 1
    /\ UNCHANGED <<repository, cached, lockfile, load, loads, first, raced>>

CacheNext ==
    \/ Moves
    \/ \E l \in Loader :
         \/ Starts(l) \/ LoadsLockfile(l) \/ ReadsCached(l) \/ Fetches(l)
         \/ BeginsWrite(l) \/ EndsWrite(l) \/ Declares(l) \/ BeginsSave(l)
         \/ EndsSave(l) \/ TakesHash(l) \/ Builds(l) \/ Crashes(l)

CacheSpec == CacheInit /\ [][CacheNext]_cacheVars

(* Properties **************************************************************)

\* Trust on first use: however the branch moves and whoever else loads,
\* saves over the lockfile or crashes, a model that loads runs on the weights
\* that were cached first, and its contract records their hash or none;
\* unless the fetch of those weights was itself interrupted or shared.
FirstUseIsTrusted ==
    \A l \in Loader :
      load[l].at = "loaded" /\ load[l].weights \notin raced =>
        /\ load[l].bytes = first[load[l].weights]
        /\ load[l].hash \in {Nothing, load[l].bytes}

=============================================================================
