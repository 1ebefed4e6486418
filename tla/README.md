# A TLA+ model of codeindex

codeindex indexes the source of a set of projects into one SQLite database and
answers searches from it. Indexing is atomic and resumable: an invocation stages
its work durably, document by document, and publishes everything in one
transaction. This directory models the parts of that design that tests hardly
reach: several invocations on one database, invocations that die or lose their
lease between two calls, sources that change while they are being indexed, what
works on the published corpus while the next publication goes on, the threads,
caches and files of the daemon; and the algorithms whose results are easy to get
almost right: identity, chunking, packing, ranking.

## The system

| component | state it keeps | operations | what makes it hard |
|---|---|---|---|
| run journal (`sqlite/index_runs.rs`) | runs, their projects and manifest digests, staged documents | create or resume, claim, heartbeat, reconcile, begin / checkpoint / fail / reset a document, ready, pause, fail, abandon, supersede, collect | concurrent owners, expired leases, death between two calls, reused row ids |
| publication (`sqlite/index_publish.rs`) | files, units, entities, usage, project rows, immutable settings, generation | `publish_run`, in one immediate transaction | decoding before the transaction, optimistic checks, path swaps, deletions |
| index runner (`indexer/run.rs`) | the manifest of the current refresh, retry counts, cancellation | `run`: refresh, process, retry, pause, ready, publish | the source changes under it; errors; takeover; convergence |
| source providers (`indexer/source.rs`, `scanner.rs`) | the files on disk, or documents in memory | `documents`, `stable_read` | reads that race writes, advisory revisions |
| unit identity and staging (`indexer/lib.rs`, `stage.rs`, `language.rs`) | entity ids of units, usage | prepare a document, assign entity identities, rebuild usage | greedy matching over a sequence of edits |
| embedding loop (`indexer/embed.rs`) | the embeddings of a space | page, pack, embed, insert, sweep orphans | races publications |
| remote embedding backend (`embedding/embed/remote/mod.rs`) | the request counter, results and retries of a batch | split, send, retry, halve, join | threads that fail while others work, servers that answer anything |
| rate gate (`embedding/embed/remote/throttle.rs`) | limit, requests in flight, global pause | acquire, report, drop a permit | a condition variable, late answers |
| embedding providers (`embedding/`) | cached model files and their lockfile | contracts, packing, fetching and locking files | files written in place by several loaders |
| daemon (`daemon/`) | project handles, jobs, cached search indexes, embedding lanes | add, reindex, remove, search, status | check-then-act across locks, stale caches, stamps of files that change |
| configuration and registry (`config/`) | registered projects on disk | register, find, remove, save | whole-file rewrites |
| snapshot and live queries (`sqlite/lib.rs`, `storage/`) | none | snapshot in a deferred read transaction | consistency with one publication |
| search, vector store, query (`search/`, `query/`) | an in-memory index | filter, rank, fuse, expand | ordering, ties, what a later list may change |
| prose chunking (`prose/`) | none | chunk Markdown and text | boundaries, overlap |
| syntax extraction (`tree-sitter/`) | none | extract units from a syntax tree | size of its data |
| language server enrichment (`lsp/`) | a child process; relations in the store | resolve references, write relations | writes after publication |
| command line (`cli/`) | none | arguments, output | |

An invocation of `index` (from the command line or a daemon job) builds a runner,
which asks the journal for a run, claims it under a random token, and then loops:
list and hash the source (a refresh), reconcile the manifest with the staged rows,
process what is pending, refresh again; when a refresh changes nothing the run
becomes ready and is published. Embedding and language server enrichment work on
the published corpus afterwards; searches read a snapshot of it.

## The modules

`AtomicCorpus` is what indexing promises to readers: the corpus changes only by
whole transactions, each over a fixed set of projects, each replacing the
generation it was begun against, with growing ids. Two open transactions never
share a project.

`RunJournal` models `index_runs.rs` and `index_publish.rs`. Every method of `Db`
is one SQLite transaction and one action; `publish_run` reads and decodes the
staged documents before it opens its transaction, so it is two
(`PreparePublication`, then `CommitPublication` or `RollBackPublication`). The
callers are the owner tokens of concurrent invocations and nothing restrains
them: any token may name any run, any manifest of `Manifests` and any payload of
`Payloads`, so the journal has to defend itself. A call that the code rejects is
a step that is not enabled: it changes nothing.

| in the model | in the code |
|---|---|
| `runs[r]` | the row of `index_runs`, `None` if there is none; `fresh` is "the heartbeat is within the lease" |
| `staged[r][p][d]` | the row of `index_run_documents`; `obs` is its path, hash and revision, `payload` what `checkpoint_document` stored |
| `digest[r][p]` | `index_run_projects.manifest_digest` |
| `publishing[t]` | the local variables of a `publish_run` between decoding and its transaction |
| `live`, `lastRun`, `locator` | `files`, `projects.last_index_run_id`, `projects.source_dir` |
| `settings`, `generation` | the immutable rows of `settings`, `index.generation` |

Three things are folded. The input fingerprint is a SHA-256 over path, language,
revision and hash, so the model uses the observation itself. The language of a
document travels with its path. Units, representations, references and usage are
part of the payload of their document. Phases, reasons, timestamps and counters
that no guard reads are left out.

`IndexRunner` EXTENDS `RunJournal`: `run` and `run_owned` of `run.rs`. A token is
one invocation, which starts once; `worker[t]` holds the local variables of
`run_owned` and where it stands. A step is one call of the journal or one read of
the source, so everything else falls between any two of them: other invocations,
edits, expiring leases, cancellation, the death of the process.

| in the model | in the code |
|---|---|
| `Start`, `StartNamed`, `Claim` | `ResumePolicy::Auto`, `New`, `Run`; `claim_run` and `validate_immutable_settings` |
| `Refresh`, `List`, `Observe`, `Reconcile`, `CountRound` | one round of `run_owned`: heartbeat, `documents`, `stable_read` or a trusted revision, `reconcile_manifest`, `increment_refresh_round` |
| `Settle` | the decision between processing, one more refresh, and `mark_run_ready` |
| `Begin`, `Read`, `Prepare`, `AllBegun` | the processing pass, with its resets, retries and checkpoints |
| `Publish`, `Commit` | the two halves of `publish_run` |
| `Refused`, `Fail`, `Pause`, `Interrupted` | a call the journal rejects, the error path of `run`, `pause`, the polls of the cancellation token |
| `Edit`, `Cancel`, `Crash`, `Overrule` | the source, the caller, the process, lapsing leases and the commands `abandon` and `supersede` |
| `seen[t]` | history: the sources there have been since the last refresh of `t` began |

The source is that of `FileSystemSource`: the id of a document is its path, its
revision (size and time of modification) is advisory unless `Trust` says
otherwise. Two contents with one revision are an edit the file system does not
show. Delays, progress and the fault hooks of the tests are left out.

`RateGate` models `throttle.rs`. Each critical section of its mutex is one action;
the notification after it is another, because `release` unlocks before it
notifies; threads waiting on the condition variable may wake for no reason. Time
is counted in ticks and a pause is what is left of it. `owed`, a history variable,
is the time the server has asked for so far.

`RemoteBackend` EXTENDS `RateGate`: one `embed` over a batch. `Requests` is
`split_requests`; `job[w]` is what a worker thread keeps while it runs
`embed_chunk`, whose recursion over halves is the sequence `calls`; `Take`, `Store`
and `Stop` are the three accesses to `next` and `results`; `Return` is what follows
the join. A server may answer with any sequence of indices (too few, too many,
twice the same, out of range), 429, "too large", a transient or a fatal error.
Every step of it is a step of the gate or leaves the gate alone.

`SearchCache` models `search_index` of the daemon's `ProjectHandle` (`state.rs`): one
handle, the searches that share it and the connections that write to its database.
The halves of `db_stamp` are two steps; from the comparison of the stamps to the
return the cache is locked, and the snapshot, the storing and the closing of the
connection are steps inside that lock. The files follow SQLite's WAL mode, which
`open_or_create` asks for: a commit goes to the WAL, a checkpoint brings the
database file up to some commit, the connection that closes last checkpoints and
deletes the WAL, a process that dies leaves both files as they are. Commits are
numbered, and a number stands for the mtime and size its writing gives a file: two
commits within the resolution of an mtime that leave the sizes alone are not told
apart by the code and are outside the model. `since` and `torn` are history: the
commits when a search began, and whether the database file changed between the
halves of its stamp.

`Daemon` models the requests that change something (`server.rs`, `state.rs`), the
registry (`config/lib.rs`) and the two commands that edit it without the daemon.
Each request has a thread; a section under a mutex is one action and everything
else falls between two of them.

| in the model | in the code |
|---|---|
| `registry`, `file`, `temp` | `DaemonState.registry`, `registry.json`, its `.json.tmp`, which all processes share |
| `handles[l]`, `jobs[l]` | the cached `ProjectHandle`, as the root and the version of the configuration it was loaded from, and the `JobStatus` of a label |
| `Registers`, `Saves`, `Removes`, `Drops`, `Forgets`, `Clears` | `register_project` and `remove_project`, with the two halves of `save_to`, which holds the registry's mutex, then handle and status |
| `Finds`, `Reresolves`, `Loads` | `resolve_project`, which reads the file again on a miss, and `project_handle` |
| `Checks`, `Invalidates`, `Queues`, `Spawns` | `job_running`, `invalidate_project`, `set_job`, and the thread that takes the handle with it |
| `Indexes`, `Succeeds`, `Errs`, `Finishes`, `Panics` | `run_job` and `finish_job` |
| `Reads`, `Writes`, `Replaces` | `add --no-daemon`, `remove` without a daemon |
| `Stops`, `Starts` | the end of the process, `DaemonState::new` |

Its history variables name what may spoil the promises: `mixed`, a command that
saved beside the daemon, or beside another command, or was saving when the daemon
started; `freed`, labels given back by a removal, or when the daemon reads again a
file that its last save had not reached; `stuck`, labels whose thread died; `raced`,
labels queued while another request was past its check.

`EmbeddingLanes` models the warm workers of one model: `cell` is the slot of the
model and the `bulk` of its embedder, both behind a mutex that is held until the
backend has loaded; `lane` are the threads with their queues. A lane may fail to be
spawned, fail to load, load for longer than its caller waits, or panic.

`LiveCorpus` models what reads and writes the published corpus of a project
besides publication: `embed_space` of `indexer/embed.rs`, `enrich_project` of
`lsp/lib.rs`, `snapshot_with_spaces` of `sqlite/lib.rs`. A publication is one action
with its deletions, its insertions under rowids that are handed out again, the
lexical rows it clears and writes and the sweep of vectors; every other action is
one statement or transaction, one look at the files, or one batch of the backend.
A text is named by its hash. `Recovered` is `recover_channel_texts`: the file as it
is now, which counts only if it still has the hash. A snapshot pins the database at
its first statement.

Pure algorithms are operators of a module of their own, with just enough state to
feed them every small input:

* `HybridSearch`: a search from the loading of a snapshot to the shaping of results.
  The scores of vectors and the hits of the lexical index are any; filters, the two
  forms of dense ranking, fusion, the adaptive weight, graph expansion and parents of
  fragments are the code's. Reciprocals of ranks are scaled to integers, exactly for the
  first four ranks and rounded below; the weights that the properties compare differ by a
  tenth of the first reciprocal, far more than an `f32` rounds. Loops that build a list
  (the vector store, the bounded top-k, the filters, the sum of a score) are recursive
  functions over their turns.
* `ProseChunks`: `chunk_ranges` over texts that grow by a character (its bytes as
  classes), `sections` and `is_container` over documents that grow by a line.
* `UnitIdentity`: documents are published again and again with any of their sources;
  `AssignIdentity` is `assign_identity`, `Caller` the attribution of a call,
  `RebuildUsage` `rebuild_usage`. An entity id is what it was minted from. Entities
  come in the order of their spans (`SortedBySpan`), as `extract_units` sorts them. Spans
  need not nest: a fragment is packed from consecutive leaves and may end inside a unit
  that begins in it.
* `BatchPacking`: one pass of `embed_space` over a store nobody publishes to, with
  `pack_batches`, the limits a backend asks for, and the pauses of `wait_for_memory`.
  `Packing` is the loop of `pack_batches` with its accumulators, item by item; the
  batches are intervals of the page, which the pass takes one after the other.
* `ModelCache`: the cache directory of a model (`resolve.rs`, `resolved_backend`)
  among loaders that fetch, lock, write and read its files at once, die, and find
  the upstream branch moved. A content is a version and whether it is whole.

`MCAlgorithms` holds these five and `SearchCache` side by side: an execution is of one
of them, its `subject`, chosen initially.

`RunJournalProofs`, `IndexRunnerProofs`, `DaemonProofs` (the daemon and the search it
runs), `LiveCorpusProofs`, `EmbeddingLanesProofs`, `RemoteBackendProofs` (the gate and
the batch) and `AlgorithmsProofs` (the identity of units, the batches, prose and the two
caches) hold theorems, `Induction` the lemmas about recursion, least elements and sorting
that they share. The `MC` modules give constants their values.
Operators marked "Faulty" are the definition after them as a plausible mistake would
have it; each is known to break the property about it on the instance that checks it.

## What is checked

| run | instance | what it shows |
|---|---|---|
| `journal_scopes` | 2 callers, 2 projects of 1 document, 2 run ids that are collected and reused | unfinished runs never overlap; the generation names an existing committed run; the journal implements `AtomicCorpus` |
| `journal_documents` | 2 callers, 2 documents, 4 manifests (new, swapped paths, touched and deleted, untouched and gone), 2 runs | the schema's CHECK is never put to the test; what a publisher decoded stays what is staged; the digest describes the rows; the corpus changes only by publishing a manifest; staged payloads survive |
| `runner_safety` | 2 mortal invocations of 1 document, one reading, one trusting revisions and pausing on change, 2 settings, 1 edit that may be hidden, 1 fault, cancellation, abandon and supersede | what is published was true after the last refresh began; a run brought to ready is publishable; staged work is kept; a run fails only after one with other settings was published, and none of those is committed |
| `runner_live` | 2 invocations, 1 document, 1 edit, 1 fault | every invocation ends, also when runs are taken over |
| `runner_livelock` | 1 invocation, trusted revisions, 1 failed read, no edit | violated: the invocation never ends |
| `remote_batch` | 2 threads, 4 inputs in 3 requests, pauses of 0, 2 or 3 ticks, 1 retry, 3 ticks of patience | a batch ends, complete and in order or as an error; permits balance; no wakeup is lost; pauses are kept |
| `daemon` | 3 requests (add, reindex, search or remove), 2 commands (add, remove), 2 nested directories with one label hint, 1 edit, 1 accident | labels and roots stay unique; a job indexes what its request named, as it was configured; a running status has a job; acknowledged projects survive; jobs double only through the races named |
| `embedding_lanes` | a search, an index job and one of either, 2 texts each, 2 accidents | a caller waits only at the one living lane of its role; every query returns |
| `corpus` | 2 documents, 2 texts, 3 generations, 2 edits, contents kept or not, 2 passes of: 2 embedders with different models, an enricher, a snapshot | vectors and lexical rows end with their units and mean their text; a finished pass is complete; a snapshot is of one generation; analysis is of its units |
| `algorithms` | 4 units and every ranking of them; every text of 7 bytes and document of 4 lines; 2 documents edited without bound, one of up to 3 units or with a fragment that overlaps a unit; stores of up to 4 texts; 2 searches and 1 writer of 3 commits; 2 loaders, 2 loads, 2 upstream versions | each algorithm against its reference; a search misses no publication unless the files changed between the halves of its stamp; a model runs on the weights first cached |
| `search_stale` | 1 search, 1 writer, 2 commits | violated: a publication whose connection closes between the halves of a stamp is missed |
| `prose_slices` | texts with a character one byte of which reads as a space | violated: a chunk begins or ends inside a character |

Bounds. `MaxRunId` bounds the ids the journal hands out. Two runs are enough for
everything that two runs can do to each other (supersede, resume, lose the race to
publish, take over an id that was collected). `MaxEdits` and
`MaxFaults` bound what the world does to a runner; the loop of the runner itself
has no bound but what the state keeps. One document per project is enough for the
loop, which treats documents one by one. A batch of three requests for two threads
has one thread take a second request, halves one request of two inputs, and has
both threads wait at a gate that allows one. The gate's own properties are proved
for any number of threads. Three requests to the daemon have two race for one label
while a third takes the label or fills the cache; two commands save beside the daemon
and beside each other. Two publications after the first let a row id return to another
document, and a deletion and a return happen behind a cursor; pages and batches of
one put a publication between any two. Seven bytes with a target of one, two or three
descend through all five levels, merge a runt and overlap. Lexical hits, of which
there are at most `MaxHits`, include one that the snapshot does not know. Three units of one
document with two symbols and two bodies are the least in which a body that several
had, a rename and a reminted id meet. Tokens of the journal and loaders, searches
and writers are symmetric. No run uses a state constraint.

Each stateful module states its type invariant (`TypeOK`, `RunnerTypeOK`, `DaemonTypeOK`
and so on). They hold on the instances above; because they say little by themselves
the runs do not spend time on them; those of the journal, the gate, the batch, the two
caches, the runner, the daemon, the live corpus and the lanes are proved.

Deadlock is checked for the journal, the batch and `search_stale`. Elsewhere the system
really stops: when every invocation, request, pass or search of the instance has ended.

Fairness. `IndexRunner` assumes that a begun invocation goes on
(`WF(Proceed(t))`): it is a thread without locks of its own, and a call of the
journal waits for SQLite at most as long as its busy timeout. Nothing obliges an
invocation to start, a lease to expire, a process to die or anyone to edit.
`RemoteBackend` assumes that threads run, that every request is answered or times
out (`timeout_global` makes that an error which is retried), and that time passes. A
thread that waits out a pause wakes up in the end, for it waits with a timeout. One that
is parked may wake up spuriously but is not obliged to (`Runs`): the condition variable
promises no more, so only a notification gets it out, and a lost one breaks `BatchEnds`.
`EmbeddingLanes` assumes that a caller that asked goes on, and that a lane for queries
loads and answers: a query is one short text. Of lanes for documents nothing is
assumed, so `QueriesReturn` holds beside a forward pass that never ends; nor does
anybody have to ask.

Three disagreements between documents and code are kept as violated runs.

* `runner_livelock`: `docs/history/atomic-resumable-indexing-plan.md:44-45` has an
  invocation continue only while the source changes. A read that fails during a
  refresh is recorded under the hash `<read-error>` (`run.rs:522`). When revisions
  are trusted, every later refresh takes that hash from the staged row, processing
  reads another one and resets the row, and the loop goes on, without a delay.
* `search_stale`: the comment of `DbStamp` (`daemon/src/state.rs:234-236`) says that
  "a missed change cannot happen because every publish rewrites the WAL". The
  database file is looked up before the WAL. When the publishing connection closes
  in between, the search sees the file before the checkpoint and no WAL: the stamp
  of the idle database before the publication, under which the old index is
  cached. Only that search is wrong: the next one sees the new database file.
* `prose_slices`: the comment of `prose/src/chunk.rs:6-7` has chunking degrade "to a
  character window without ever failing". `boundaries` asks of every byte whether it is
  a space as a character (`chunk.rs:147`); the bytes 85 and A0 are, and are also later
  bytes of longer characters (E5 85 83). Slicing at such a boundary panics.

## What is proved

For any number of callers, projects, documents, configurations and runs, from
`ConstantsAssumption` (the constants have the types their comments give) and
`NoneAssumption` (`None` is not a value):

* `TypeCorrect`, `SchemaNeverViolated`. Types alone are not inductive: a metadata
  action revises a live file with the observed revision of its row, and only the
  schema says that such a row has one. The invariant is `SchemaInv`: types, the
  schema of the staged rows, and the schema of the documents each publisher has
  decoded.
* `ScopesDisjoint`, `GenerationNewest`, `GenerationsGrow`, `FinishedStays`. They
  rest on `StepShape`, which says what one step can do to one run (leave it, move
  it while unfinished, collect it, create it) and that the corpus changes only
  with a publication. `SafetyInv` adds that no run has an empty scope: that is
  what ties the generation to a project row, whose foreign key keeps the run the
  generation names from being collected and its id from being reused.
* `PreparedCurrent`: as long as a publisher may commit, what it decoded is what
  is staged, because all that changes staged rows costs it the run.
* `ConfigurationIsOne`: the settings are fixed by the first publication, and a later one
  compares its own in the transaction that commits it.
* `DigestsDescribe`: what a refresh leaves staged has the digest of its manifest, and no
  other step changes of a row what a digest sees (`SameWork`), but for a payload that
  was extracted from another observation.
* `PayloadsAreKept`: a row with a payload is ready (the schema says so), and claiming,
  which puts rows back, leaves ready ones alone; what remains is reconciliation.
* `CorpusIsPublished`: a publication finds every row ready, so every payload that it
  writes is the fingerprint of its row and the digest is that of the rows.
* `JournalImplementsAtomicCorpus`: a step that creates a run is a `Begin`, a
  publication a `Commit`, everything else an `Abort` or a stutter.

For any number of invocations, documents, contents, configurations, edits and faults,
from the assumptions of the journal, `RunnerAssumption` (types; what the source first
holds is some content) and `CallsAssumption` (`Manifests` and `Payloads` of the journal
leave nothing out that an invocation may make):

* `RunnerTypeCorrect`, `RunnerImplementsJournal`. Each action of an invocation is one
  call of the journal, of the kind its place in the loop allows, so `RunnerSafety`
  implies the journal's `Spec` and every theorem above holds of the runner. What one
  invocation does leaves the others where they are (`Aside`): it takes no run from
  them but whole, and touches the rows of no run it does not own (`RowsAfter`).
* `ReadyRunsPublishable`, `RunnerKeepsStagedWork`, `RunnerPublishesTruth`,
  `RunnerFailsByConfiguration`, all from one invariant, `RunnerFacts`. An invocation
  works on one run of its own scope and holds no other (`WorksOnRun`). What is staged,
  live or in the source is a content of the document it is filed under (`DataInv`), and
  the action of a staged row is the one its basis calls for, for as long as the corpus
  has not moved on (`BasisInv`). While the invocation still holds its run, it knows
  (`Knows`): each entry of its manifest was witnessed in some source since its last
  refresh began, or stands under a trusted revision for the live file or for a row that
  is still staged (`Told`, `Vouched`); each project it has reconciled carries exactly
  that; in a processing pass only the document at hand is neither pending nor ready.
  Losing the run is the one way to lose this knowledge, and the journal refuses whoever
  lost it. `PublishedConfig` adds that settings and locators are those of a committed
  run, whose disagreement is then the only thing that makes an owner fail.

For any number of requests, commands, directories, labels, edits and accidents, from the
assumptions of `Daemon` (types of its constants; a directory lies below itself; the hints
for its label are distinct and as many as there are directories, so one is free):

* `DaemonTypeCorrect`. A thread comes to a section only with what the section needs
  (`Placed`): the project it found, the root, the handle.
* `ProjectsAreNamedOnce`. Registering and removing keep labels and roots apart; what a
  command is about to write is derived from a file that did (`EditsUnique`).
* `StatusIsOfAJob`. A job starts as its thread ends, and nothing outlives the daemon
  (`ThreadInv`).
* `AcknowledgedProjectsSurvive`. While no command saves beside anyone, the registry in
  memory is ahead of the file, the temporary file of the one thread that holds the lock
  is the memory, and a command that saves is alone with the file (`DiskInv`).
* `JobsIndexTheirRequests`. A label that was not given back means in every thread, handle
  and job the project the registry has under it (`NamesInv`), and a handle that the
  cache keeps past an invalidation was loaded after it (`FreshInv`).
* `JobsDoubleOnlyAfterARace`. Of the threads past their check and the jobs of a label
  that was neither raced nor given back there is one (`AloneInv`).

For any corpus, stored vectors and relations, scores, filters and depths, from
`SearchAssumption` (types):

* `RankingHolds`, from `SearchInv`. The insertion of `top_k_between` keeps the k best of
  the units seen so far (`IsBest`), an order has only one such list (`BestUnique`), and the
  first k of the sort are one (`TopKIs`, by induction over the units); that a unit is scored
  by its own vector is the store's, turn by turn (`StoreOfIs`). The lists join one at a
  time, and `ListsRight` says what each may give: the best dense hit has at least ten
  tenths of a reciprocal, a unit in no dense list none, then at most four from a lexical
  list that does not confirm the hit, then five from the graph. Nine is less than ten,
  so nothing else passes the hit (`LeadHolds`). Since the graph list holds no seed,
  the scores of the seeds stay and with them their order (`SeedsHold`); and since
  every fragment has its relation to its parent (`LinksType`), the parent of a seed is
  reached from it (`ParentsReached`). That ties leave one order needs that no place is of
  two units (`EdgesStrict`).

For any number of documents, texts, passes, publications and edits, from
`CorpusAssumption` and `NoneAssumption`, the invariant is `CorpusInv`:

* `CorpusTypeCorrect`, `NoOrphans`, `VectorsAreMeant`. Row ids are unique and handed out
  above the largest that is left (`UniqueIn`), a batch is stored only for hashes that are
  live, and a space accepts one model (`StoreInv`).
* `EmbeddingIsComplete`. Each hash that is live since the pass began lies behind its
  cursor and was seen to, or before it (`EmbedderOK`). That the cursor passes over
  nothing is a fact about the smallest elements of a set, and that an empty batch means
  an empty page one about the largest.
* `SnapshotsAreOneGeneration`. A snapshot that has begun is of one published generation
  (`ReaderOK`), and what is published under the generation is what is live.
* `AnalysisIsOfItsUnit`. An enrichment holds units of its generation by their ids
  (`EnricherOK`); as long as no publication overtakes it nobody else has these ids.

For any number of callers, calls and accidents, from `LanesAssumption` (there are as many threads as accidents and roles can need):

* `LanesTypeCorrect`, `CallersWaitAtTheirLane`, from `LanesInv`. A cell is filled once,
  under its lock, by a lane of its role; a lane that loads or serves is kept by its cell
  or by the one caller that holds the lock (`Kept`); a queue and its callers name each
  other. Every lane that came to nothing cost an accident (`FewSpent`), so that a
  thread is left for whoever spawns one.

For any number of threads, any ceiling and any delays, from `GateAssumption`:

* `GateTypeCorrect`, `PermitsAlwaysBalance`. The count of requests in flight is the
  number of threads that hold a permit, because each release is that of a thread
  which holds one; so `saturating_sub` never saturates.
* `NoLostWakeup`: whoever makes room is about to notify, and a notification leaves
  no thread parked.
* `PausesKept`, from the invariant `Remembered`: the pause the gate keeps is never
  shorter than what is still owed to the server.

For any number of threads and inputs, any sizes, limits, retries and patience, from
`GateAssumption` and `RemoteAssumption` (types; an error is no sequence of vectors):

* `BatchImplementsGate`: a worker asks, reports and drops as the gate expects of a
  thread, so the theorems above hold of `RemoteSafety`, the batch without its fairness.
* `BatchCompleteOrError`, `RemoteTypeCorrect`, `PermitsReturned`, from `BatchInv`.
  `split_requests` cuts the inputs into intervals that follow each other (`Covers`, by
  induction over the inputs). What a worker has received are the vectors from the first
  input of its request up to its first remaining call, and the remaining calls cover the
  rest, also when one is halved (`WorkIsSound`); so what it stores are the vectors of the
  request or an error. A request that is worked on has one worker and no result
  (`TakenOnce`); one that was taken has a result or a worker unless another one failed
  (`NothingIsForgotten`), and a worker ends only past the last request or after a failure
  (`EndsAreJustified`). `PlaceFitsJob` ties the two levels: a thread waits for a permit or
  holds one only while it calls. That the results of all requests, flattened, are those of
  the inputs is the second induction (`FlattenCovers`).

For any documents and any sources, from `SourceAssumption` (types; the entities of a source
with calls are in the order of their spans):

* `IdsAreCarriedOnce`, `EditsKeepEntities`, from `IdentityInv`. What an entity takes over
  is one id, of a unit with its symbol or its body, that nobody above took
  (`MatchedIs`); the ids taken over grow from entity to entity (`ConsumedGrows`), so none
  is taken twice (`TakenOnce`), and each was taken by some entity above (`TakenAbove`).
* `UsageIsCurrent`, from `UsageInv`: what the tables hold of a document is what its source
  says, so its callers and the lines of usage are the same, one by one (`LineIsOfACall`,
  `CallHasALine`). In the order of spans, no other unit around a call is inside the one
  that begins last (`CallerIsInnermost`); where units overlap without nesting, a call has
  several such units, and its caller is one of them.

For any store, any settings, any attention span and any course of the available memory,
from `PackingAssumption` (types; the pause ends above where it begins):

* `BatchesAreFair`. Before every turn of the loop the closed batches follow each other
  up to the open one, each within its limits unless it is one text and each followed by
  a text that would not have fitted, and the accumulators are what the open batch costs
  (`Loop`, by induction over the turns; `LoopStep`). The order of a page exists and names
  each of its hashes once (`ByLengthIs`; `SortedExists`, by induction over the size). The
  invariant of the pass, `PassInv`, says that what is embedded and what is left of the
  page are disjoint and together all hashes up to the cursor, which no pause changes.

For texts and documents of any length and any options, from `WellFormed` (a text is classes
of bytes in which no rest of a character comes first or after a one-byte character, what
`ProseInit` chooses):

* `NothingIsLost`. Ranges tile a span when they follow each other from its one end to its
  other, each short or around a word that cannot be cut (`Tiles`). A hard cut tiles
  (`HardCutTiles`); a level of packing does if the level below does (`PackedTiles`, by
  induction over the offsets of the span, with what lies between the last cut and the point
  looked at, `TurnsUpTo`), so all four do, one on the other (`PackTiles`). Merging small
  chunks into their neighbours keeps tiles (`MergedTiles`), the overlap only moves a start
  back (`ChunksAre`). A line of a document belongs to the heading above it and to no other
  (`OneSection`), and what is left out of a document is the first line of a container
  (`DocumentCovered`).

The library's induction theorems take an operator, which the provers cannot instantiate.
`NatUpTo` states induction over a set and is proved as a least counterexample;
`RecursionUpTo` is the existence of a function that is defined by recursion, and
`OrderExists` that of a sort.

For any number of searches, writers and commits, from `CacheAssumption`:

* `SearchTypeCorrect`, `HitsAreCurrent`, `UntornSearchesFresh`. The invariant is
  `IInv`: the two files hold every commit, an index is at least as new as anything
  its stamp shows (`CacheHonest`, `BuiltAfter`), and a stamp whose halves agree
  shows every commit from before the search (`Stamped`). `SearchesAreFresh` is what
  remains false without `torn`.

For any number of loaders, loads, versions of the branch and crashes, from
`ModelCacheAssumption`:

* `CacheTypeCorrect`, `FirstUse`. The invariant, `CacheInv`, is about the files that no
  two loaders fetched at once and no crash left half written. Such a file is fetched by
  one loader at most, which recorded what it is about to write (`Alone`); when nobody
  fetches it, it is in the cache as it first was (`Kept`); and every lockfile, the one on
  disk (`Locked`) and those in memory (`Remembers`), has that hash or none, so it does
  not matter whose copy is saved last.

Three properties of the daemon turned out to hold of the small instance only, when their
invariant would not go through: a command can save while another is saving, or while the
daemon starts, and a restart can lose a registration that memory had and the file did not.
`mixed` and `freed` now record these, and the instance has two commands.

Two properties of the runner were sharpened on the way. A run may be published by
another invocation that took it over, to which `PublishedWasTrue` then speaks; and an
invocation that trusts revisions gives up a payload of the very revision of the live
file (`StagedWorkKept`), which no instance with one invocation shows.

That chunks are large only around a long word was said of no chunk of the instance, until
a target of one byte was added, and was wrong of a word with many blanks after it: those
are not cut from it, so `Unbroken` now counts them.

That the parent of a seed's fragment comes in was true of the instance only: an entity id
that two units share names the later of them, and a seed can lead to more units than a
list holds. `FragmentsBringParents` now speaks of parents that their entity names and of
seeds that lead to no more than that.

Every safety property that a passing run checks is proved. Model-checked only are the
liveness properties (`Terminates`, `BatchEnds`, `QueriesReturn`): liveness and ENABLED are
out of the prover's reach and stay with TLC, as are the counterexamples.

## What the models say besides

Reading the code for the models turned up behaviour that no run calls an error but
that differs from a document or may surprise.

* A ready run is handed to any other caller at once: `claim_run` compares leases only
  for running runs (`index_runs.rs:414-418`), while
  `docs/history/atomic-resumable-indexing-plan.md:219-225` has takeover after expiry.
  `PreparedDocumentsCurrent` and `ReadyIsPublishable` hold all the same.
* Two concurrent runs over disjoint projects share one generation: the second to
  publish is refused.
* `JobsDoubleOnlyIfRaced` has to except the gap between `job_running` and `set_job`;
  `docs/daemon-cli-plan.md:197-198` has one writer per project database. The journal
  copes with the two writers.
* `spawn_index_job` says that the job re-resolves everything (`server.rs:250`), but it
  takes a handle with it; after a removal gave the label to another root, the job
  can index the old one (`JobIndexesItsRequest`, `freed`).
* A project added with `--no-daemon` while a daemon runs is in the file, not in its
  memory, and is erased by the daemon's next save (`AcknowledgedSurvive`, `mixed`).
* The sender of a dead lane stays cached: every later caller gets an error until the
  daemon restarts.
* An earlier unit can take the id of a later one by its body before that one matches by
  its symbol; and an id carried to a renamed unit can be minted again, so that two
  units share it (`IdsCollideOnlyByReminting`).
* A document or preamble of a single line without a heading counts as a container and is
  not indexed (`is_container`), although `prose/src/lib.rs:178-180` leaves out headings only.
* A crash in the middle of writing a model file leaves half of it; the next load locks
  the hash of the half, and every later load fails (`FirstUseIsTrusted`, `raced`).
* Lexical hits that the cached index does not know yet are dropped after the limit of
  the store was applied, so a search beside a publication can return fewer.
* When two units share an entity id, the relations of both lead to the later one
  (`by_entity`), so the other is never brought in by the graph, not even as the parent of a
  fragment (`FragmentsBringParents`).

## Plan

Done: all modules above, and a proof of every safety property that the runs check.
Next would be `similar_to_unit` and the duplicate groups of the vector store, and the
fragments of long sections.

## Not modelled

* Syntax extraction: a syntax tree has no small faithful abstraction. Which files the
  scanner selects, the parsing of configurations, the wire format of the daemon, request
  bodies and replies of providers, argument parsing and output: pure translation.
* Inference, and BM25 and vector scores: any ranking stands for them.
* In `Daemon`: the purging of a removed project's database, and the lookup of a project
  by the working directory of a request.
* In `LiveCorpus`: documents of several units; vectors of the signature channel, whose
  representations enrichment replaces. In `ModelCache`: references to local
  directories; files that exist upstream always do; after a crash one loader runs alone.
* `similar_to_unit`, search over several vectors, duplicate groups, token statistics,
  the fragments of long sections, deadlines and progress.
* In `HybridSearch`: the default instruction and the score threshold of a request. In
  `ModelCache`: an absent tokenizer, and the bytes of two saves of the lock file at once.
