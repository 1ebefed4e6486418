----------------------------- MODULE RunJournal -----------------------------
(***************************************************************************)
(* The durable index-run journal of codeindex-sqlite (index_runs.rs) and   *)
(* the publication of a run into the live corpus (index_publish.rs).       *)
(*                                                                         *)
(* Every method of Db is one SQLite transaction and so one action; the one *)
(* exception is publish_run, which reads the staged documents before it    *)
(* opens its transaction and is two actions here.  Callers are the owner   *)
(* tokens of concurrent index invocations.  Nothing constrains what a      *)
(* caller asks for: any token may name any run, any manifest and any       *)
(* payload, and the journal must defend itself.                            *)
(*                                                                         *)
(* Left out, because no guard reads them: phase, pause_reason, timestamps, *)
(* refresh_round, attempts, reused, last_error_json and stats_json.  The   *)
(* payload schema version is one constant of the build.                    *)
(***************************************************************************)
EXTENDS Naturals, FiniteSets

CONSTANTS
    Token,        \* owner tokens: one per concurrent index invocation
    Project,      \* project labels
    Doc,          \* source document ids, the same set in every project
    Path,         \* relative paths
    Hash,         \* content hashes
    Rev,          \* source revisions
    Config,       \* config fingerprints
    SettingsOf,   \* [Config -> Setting]: the immutable settings of a config
    LocatorOf,    \* [Config -> [Project -> Locator]]: its provider locators
    Manifests,    \* the manifests callers reconcile, see Manifest
    Payloads,     \* the staged payloads callers checkpoint
    MaxRunId,     \* bound: highest run id the journal hands out
    None          \* SQL NULL, or the absence of a row

Observation == [path : Path, hash : Hash, rev : Rev]
DocumentAction == {"unchanged", "metadata", "upsert", "delete"}
DocumentState == {"pending", "processing", "ready", "error"}

\* What a refresh says of a document.  The input fingerprint covers path, hash
\* and revision, so it is represented by the observation itself.
ManifestDocument == [obs : Observation, action : DocumentAction]
Manifest == [Doc -> ManifestDocument \cup {None}]

\* A row of index_run_documents; obs is None where the SQL columns are NULL.
StagedDocument == [obs : Observation \cup {None}, action : DocumentAction,
                   state : DocumentState, payload : Observation \cup {None}]
StagedDocuments == [Project -> [Doc -> StagedDocument \cup {None}]]

RunId == 1 .. MaxRunId
RunState == {"planning", "running", "ready", "committed", "paused", "failed",
             "superseded", "abandoned"}
UnfinishedState == {"planning", "running", "ready", "paused", "failed"}
ClaimableState == {"planning", "running", "ready", "paused"}
TerminalState == {"committed", "superseded", "abandoned"}

IndexRun == [status : RunState, owner : Token \cup {None}, fresh : BOOLEAN,
             base : 0 .. MaxRunId, scope : SUBSET Project, config : Config]

\* The digest column: the surviving rows of a manifest (SHA-256 is injective
\* here), None before the first refresh.
DigestRow == [path : Path, fingerprint : Observation,
              action : DocumentAction \ {"delete"}]
Digest == [Doc -> DigestRow \cup {None}]

ASSUME ConstantsAssumption ==
    /\ MaxRunId \in Nat
    /\ Manifests \subseteq Manifest
    /\ Payloads \subseteq Observation
    /\ DOMAIN SettingsOf = Config
    /\ DOMAIN LocatorOf = Config
    /\ \A c \in Config : DOMAIN LocatorOf[c] = Project

ASSUME NoneAssumption ==
    /\ None \notin Token \cup Config
    /\ None \notin Observation
    /\ None \notin ManifestDocument
    /\ None \notin StagedDocument
    /\ None \notin IndexRun
    /\ None \notin DigestRow
    /\ None \notin [run : RunId, documents : StagedDocuments]
    /\ \A c \in Config : /\ None # SettingsOf[c]
                         /\ \A p \in Project : None # LocatorOf[c][p]

VARIABLES
    runs,         \* [RunId -> IndexRun, or None for no row]
    staged,       \* [RunId -> StagedDocuments]: index_run_documents
    digest,       \* [RunId -> [Project -> Digest, or None]]: manifest_digest
    publishing,   \* [Token -> the staged documents publish_run has read]
    live,         \* [Project -> [Doc -> Observation, or None]]: files
    lastRun,      \* [Project -> last_index_run_id, 0 for no projects row]
    locator,      \* [Project -> projects.source_dir, None for no row]
    settings,     \* the immutable settings, None before the first publication
    generation    \* settings['index.generation']

journalVars == <<runs, staged, digest>>
corpusVars == <<live, lastRun, locator, settings, generation>>
vars == <<runs, staged, digest, publishing, live, lastRun, locator, settings,
          generation>>

NoDocuments == [p \in Project |-> [d \in Doc |-> None]]

Init ==
    /\ runs = [r \in RunId |-> None]
    /\ staged = [r \in RunId |-> NoDocuments]
    /\ digest = [r \in RunId |-> [p \in Project |-> None]]
    /\ publishing = [t \in Token |-> None]
    /\ live = NoDocuments
    /\ lastRun = [p \in Project |-> 0]
    /\ locator = [p \in Project |-> None]
    /\ settings = None
    /\ generation = 0

-----------------------------------------------------------------------------
(* Runs.                                                                   *)

Exists(r) == runs[r] # None
InState(r, states) == Exists(r) /\ runs[r].status \in states
Unfinished(r) == InState(r, UnfinishedState)

\* Faulty: the token is not compared and a ready run still takes work.
OwnsAnything(t, r) == InState(r, {"running", "ready"})

\* ensure_owner, and the EXISTS clause of every document checkpoint.
Owns(t, r) == InState(r, {"running"}) /\ runs[r].owner = t

\* A token stands for one thread: it makes no other call inside publish_run.
Idle(t) == publishing[t] = None

Released(run, status) ==
    [run EXCEPT !.status = status, !.owner = None, !.fresh = FALSE]

\* Faulty: only runs of exactly the requested scope are found.
SameScope(S) == {r \in RunId : Unfinished(r) /\ runs[r].scope = S}

Claimed(run, t) ==
    [run EXCEPT !.status = "running", !.owner = t, !.fresh = TRUE]

Renewed(run) == [run EXCEPT !.fresh = TRUE]

Overlapping(S) == {r \in RunId : Unfinished(r) /\ runs[r].scope \cap S # {}}

Reusable(S, c) ==
    {r \in Overlapping(S) : /\ runs[r].scope = S
                            /\ runs[r].config = c
                            /\ runs[r].status # "failed"
                            /\ runs[r].base = generation}

\* The newest reusable run, as a set of at most one.
Resumed(S, c, forceNew) ==
    IF forceNew THEN {}
    ELSE {r \in Reusable(S, c) : \A s \in Reusable(S, c) : s <= r}

\* SQLite's rowid without AUTOINCREMENT: one more than the largest in use.
NextRunId(r) ==
    /\ r \in RunId
    /\ \A s \in RunId : Exists(s) => s < r
    /\ r > 1 => Exists(r - 1)

NewRun(S, c) == [status |-> "planning", owner |-> None, fresh |-> FALSE,
                 base |-> generation, scope |-> S, config |-> c]

\* Every overlapping unfinished run but the resumed one is superseded, whoever
\* owns it.
CreateOrResumeRun(S, c, forceNew) ==
    LET kept == Resumed(S, c, forceNew)
        superseded == Overlapping(S) \ kept
        after == [r \in RunId |-> IF r \in superseded
                                  THEN Released(runs[r], "superseded")
                                  ELSE runs[r]]
    IN /\ \/ /\ kept # {}
             /\ runs' = after
          \/ /\ kept = {}
             /\ \E r \in RunId : /\ NextRunId(r)
                                 /\ runs' = [after EXCEPT ![r] = NewRun(S, c)]
       /\ UNCHANGED <<staged, digest, publishing, corpusVars>>

\* Faulty: a claim requeues finished documents too, their payloads in place.
RequeuedAll(row) ==
    IF row # None /\ row.action = "upsert"
    THEN [row EXCEPT !.state = "pending"] ELSE row

\* Faulty: a document that failed once is not tried again.
RequeuedInterrupted(row) ==
    IF row # None /\ row.state = "processing"
    THEN [row EXCEPT !.state = "pending"] ELSE row

\* Documents a lost owner left half done, or a failed one, are pending again.
Requeued(row) ==
    IF row # None /\ row.state \in {"processing", "error"}
    THEN [row EXCEPT !.state = "pending"] ELSE row

\* Only a running run is protected by its lease.
Claimable(r, t) ==
    /\ InState(r, ClaimableState)
    /\ runs[r].status = "running" /\ runs[r].owner # t => ~runs[r].fresh

ClaimRun(r, t) ==
    /\ Idle(t)
    /\ Claimable(r, t)
    /\ runs' = [runs EXCEPT ![r] = Claimed(runs[r], t)]
    /\ staged' = [staged EXCEPT ![r] = [p \in Project |->
                     [d \in Doc |-> Requeued(staged[r][p][d])]]]
    /\ UNCHANGED <<digest, publishing, corpusVars>>

\* heartbeat_run, set_run_phase and increment_refresh_round all renew the lease.
Heartbeat(r, t) ==
    /\ Idle(t)
    /\ Owns(t, r)
    /\ runs' = [runs EXCEPT ![r] = Renewed(runs[r])]
    /\ UNCHANGED <<staged, digest, publishing, corpusVars>>

\* Time passes the lease of a running run; its owner may well be alive.
LeaseExpires(r) ==
    /\ InState(r, {"running"})
    /\ runs[r].fresh
    /\ runs' = [runs EXCEPT ![r] = [runs[r] EXCEPT !.fresh = FALSE]]
    /\ UNCHANGED <<staged, digest, publishing, corpusVars>>

PauseRun(r, t) ==
    /\ Idle(t)
    /\ InState(r, {"running", "ready"})
    /\ runs[r].owner = t
    /\ runs' = [runs EXCEPT ![r] = Released(runs[r], "paused")]
    /\ UNCHANGED <<staged, digest, publishing, corpusVars>>

FailRun(r, t) ==
    /\ Idle(t)
    /\ InState(r, {"running", "ready"})
    /\ runs[r].owner = t
    /\ runs' = [runs EXCEPT ![r] = Released(runs[r], "failed")]
    /\ UNCHANGED <<staged, digest, publishing, corpusVars>>

\* abandon_run and supersede_run ask for no owner.
AbandonRun(r) ==
    /\ Unfinished(r)
    /\ runs' = [runs EXCEPT ![r] = Released(runs[r], "abandoned")]
    /\ UNCHANGED <<staged, digest, publishing, corpusVars>>

SupersedeRun(r) ==
    /\ Unfinished(r)
    /\ runs' = [runs EXCEPT ![r] = Released(runs[r], "superseded")]
    /\ UNCHANGED <<staged, digest, publishing, corpusVars>>

\* Finished runs beyond the newest keepNewest go, rows cascading; the foreign
\* key of projects.last_index_run_id fails the whole statement otherwise.
Collectable(keepNewest) ==
    LET finished == {r \in RunId : InState(r, TerminalState)}
    IN {r \in finished : Cardinality({s \in finished : s > r}) >= keepNewest}

\* Faulty: foreign keys are not enforced.
NeverReferenced(gone) == FALSE

Referenced(gone) == \E p \in Project : lastRun[p] \in gone

GcStagedRuns(keepNewest) ==
    LET gone == Collectable(keepNewest)
    IN /\ gone # {}
       /\ ~Referenced(gone)
       /\ runs' = [r \in RunId |-> IF r \in gone THEN None ELSE runs[r]]
       /\ staged' = [r \in RunId |-> IF r \in gone THEN NoDocuments
                                                   ELSE staged[r]]
       /\ digest' = [r \in RunId |-> IF r \in gone
                                     THEN [p \in Project |-> None]
                                     ELSE digest[r]]
       /\ UNCHANGED <<publishing, corpusVars>>

-----------------------------------------------------------------------------
(* Staged documents.                                                       *)

\* checkpoint_document overwrites the row's fingerprint with the payload's.
Fingerprint(row) == IF row.payload = None THEN row.obs ELSE row.payload

\* Faulty: a refresh keeps only rows that are still waiting.
KeepsPending(row, document) ==
    row # None /\ row.obs = document.obs /\ row.state = "pending"

Keeps(row, document) ==
    /\ row # None
    /\ row.obs # None
    /\ row.obs.path = document.obs.path
    /\ Fingerprint(row) = document.obs
    /\ row.action = document.action
    /\ row.state # "processing"

Restaged(document) ==
    [obs |-> document.obs, action |-> document.action, payload |-> None,
     state |-> IF document.action = "upsert" THEN "pending" ELSE "ready"]

StagedDeletion == [obs |-> None, action |-> "delete", state |-> "ready",
                   payload |-> None]

IsDeletion(row) == row.action = "delete" /\ row.state = "ready"

ReconciledRow(row, document) ==
    IF document # None
    THEN IF Keeps(row, document) THEN row ELSE Restaged(document)
    ELSE IF row = None \/ IsDeletion(row) THEN row ELSE StagedDeletion

\* Faulty: rows the manifest no longer lists are left behind.
ReconciledListed(rows, manifest) ==
    [d \in Doc |-> IF manifest[d] = None THEN rows[d]
                   ELSE ReconciledRow(rows[d], manifest[d])]

Reconciled(rows, manifest) ==
    [d \in Doc |-> ReconciledRow(rows[d], manifest[d])]

\* Faulty: the digest covers the deletions too.
ManifestDigestWithDeletions(manifest) ==
    [d \in Doc |-> IF manifest[d] = None THEN None
                   ELSE [path |-> manifest[d].obs.path,
                         fingerprint |-> manifest[d].obs,
                         action |-> manifest[d].action]]

\* manifest_digest over the documents that survive.
ManifestDigest(manifest) ==
    [d \in Doc |-> IF manifest[d] = None THEN None
                   ELSE IF manifest[d].action = "delete" THEN None
                   ELSE [path |-> manifest[d].obs.path,
                         fingerprint |-> manifest[d].obs,
                         action |-> manifest[d].action]]

\* ReconcileResult.changed.
RefreshChanges(r, p, manifest) ==
    \/ digest[r][p] # ManifestDigest(manifest)
    \/ Reconciled(staged[r][p], manifest) # staged[r][p]

ReconcileManifest(r, t, p, manifest) ==
    /\ Idle(t)
    /\ Owns(t, r)
    /\ p \in runs[r].scope
    /\ staged' = [staged EXCEPT ![r][p] = Reconciled(@, manifest)]
    /\ digest' = [digest EXCEPT ![r][p] = ManifestDigest(manifest)]
    /\ runs' = [runs EXCEPT ![r] = Renewed(runs[r])]
    /\ UNCHANGED <<publishing, corpusVars>>

\* One row of the owner's running run moves on; anything else is rejected.
Checkpoint(r, t, p, d, from, row) ==
    /\ Idle(t)
    /\ Owns(t, r)
    /\ staged[r][p][d] # None
    /\ staged[r][p][d].state = from
    /\ staged' = [staged EXCEPT ![r][p][d] = row]
    /\ UNCHANGED <<runs, digest, publishing, corpusVars>>

BeginDocument(r, t, p, d) ==
    Checkpoint(r, t, p, d, "pending",
               [staged[r][p][d] EXCEPT !.state = "processing"])

CheckpointDocument(r, t, p, d, payload) ==
    /\ staged[r][p][d] # None => staged[r][p][d].action = "upsert"
    /\ Checkpoint(r, t, p, d, "processing",
                  [staged[r][p][d] EXCEPT !.state = "ready",
                                          !.payload = payload])

CheckpointDocumentError(r, t, p, d) ==
    Checkpoint(r, t, p, d, "processing",
               [staged[r][p][d] EXCEPT !.state = "error"])

ResetDocumentPending(r, t, p, d) ==
    Checkpoint(r, t, p, d, "processing",
               [staged[r][p][d] EXCEPT !.state = "pending"])

AllReady(documents) ==
    \A p \in Project, d \in Doc :
        documents[p][d] # None => documents[p][d].state = "ready"

MarkRunReady(r, t) ==
    /\ Idle(t)
    /\ Owns(t, r)
    /\ AllReady(staged[r])
    /\ runs' = [runs EXCEPT ![r] = [Renewed(runs[r]) EXCEPT !.status = "ready"]]
    /\ UNCHANGED <<staged, digest, publishing, corpusVars>>

-----------------------------------------------------------------------------
(* publish_run.                                                            *)

\* The validation of the decoded documents, before the transaction: complete,
\* and the payload's path is the row's.
Publishable(documents) ==
    /\ AllReady(documents)
    /\ \A p \in Project, d \in Doc :
          LET row == documents[p][d]
          IN row # None =>
                /\ row.action = "upsert" => row.payload # None
                /\ row.payload # None => row.payload.path = row.obs.path

\* Any caller may start; ownership is checked inside the transaction.
PreparePublication(r, t) ==
    /\ Idle(t)
    /\ InState(r, {"ready"})
    /\ Publishable(staged[r])
    /\ publishing' = [publishing EXCEPT ![t] = [run |-> r,
                                                documents |-> staged[r]]]
    /\ UNCHANGED <<journalVars, corpusVars>>

\* publish_run of a committed run only returns the stored report.
ReportCommitted(r, t) ==
    /\ Idle(t)
    /\ InState(r, {"committed"})
    /\ UNCHANGED vars

DigestOf(rows) ==
    [d \in Doc |-> IF rows[d] = None THEN None
                   ELSE IF rows[d].action = "delete" THEN None
                   ELSE [path |-> rows[d].obs.path,
                         fingerprint |-> Fingerprint(rows[d]),
                         action |-> rows[d].action]]

StagedRows(documents) ==
    {pd \in Project \X Doc : documents[pd[1]][pd[2]] # None}

IsPublishable(row) ==
    row.state = "ready" /\ (row.action = "upsert" => row.payload # None)

PublishableRows(documents) ==
    {pd \in StagedRows(documents) : IsPublishable(documents[pd[1]][pd[2]])}

\* Faulty: the base generation is not compared.
PublishableOnAnyBase(r, t, documents) ==
    InState(r, {"ready"}) /\ runs[r].owner = t

\* The optimistic checks of the transaction.
StillPublishable(r, t, documents) ==
    /\ InState(r, {"ready"})
    /\ runs[r].owner = t
    /\ Cardinality(PublishableRows(staged[r])) = Cardinality(StagedRows(documents))
    /\ generation = runs[r].base
    /\ \A p \in runs[r].scope : /\ digest[r][p] # None
                                /\ digest[r][p] = DigestOf(staged[r][p])

\* Faulty: the settings are validated before a run only.
AcceptsAnyConfig(c, scope) == TRUE

\* Settings and locators are inserted by the first publication, then fixed.
AcceptsConfig(c, scope) ==
    /\ settings \in {None, SettingsOf[c]}
    /\ \A p \in scope : locator[p] \in {None, LocatorOf[c][p]}

\* Faulty: deletions are journaled but not applied.
LiveKeepingDeleted(files, rows) ==
    [d \in Doc |-> IF rows[d] # None /\ rows[d].action = "upsert"
                   THEN rows[d].payload ELSE files[d]]

\* Every live file being replaced is deleted before the inserts.
FileAfter(file, row) ==
    IF row.action = "upsert" THEN row.payload
    ELSE IF row.action = "delete" THEN None
    ELSE IF row.action = "metadata" THEN [file EXCEPT !.rev = row.obs.rev]
    ELSE file

LiveAfter(files, rows) ==
    [d \in Doc |-> IF rows[d] = None THEN files[d]
                                     ELSE FileAfter(files[d], rows[d])]

MetadataTargetsExist(files, rows) ==
    \A d \in Doc : rows[d] # None =>
        (rows[d].action = "metadata" => files[d] # None)

\* UNIQUE (project_id, relative_path).
UniquePaths(files) ==
    \A d, e \in Doc :
        files[d] # None /\ files[e] # None /\ files[d].path = files[e].path
            => d = e

\* Everything the transaction of run r may be refused for.
Committable(r, t, documents) ==
    /\ StillPublishable(r, t, documents)
    /\ AcceptsConfig(runs[r].config, runs[r].scope)
    /\ \A p \in runs[r].scope :
          /\ MetadataTargetsExist(live[p], documents[p])
          /\ UniquePaths(LiveAfter(live[p], documents[p]))

CommitPublication(t) ==
    LET r == publishing[t].run
        documents == publishing[t].documents
        scope == runs[r].scope
        config == runs[r].config
    IN /\ publishing[t] # None
       /\ Committable(r, t, documents)
       /\ live' = [p \in Project |-> IF p \in scope
                                     THEN LiveAfter(live[p], documents[p])
                                     ELSE live[p]]
       /\ settings' = SettingsOf[config]
       /\ locator' = [p \in Project |-> IF p \in scope THEN LocatorOf[config][p]
                                                       ELSE locator[p]]
       /\ lastRun' = [p \in Project |-> IF p \in scope THEN r ELSE lastRun[p]]
       /\ generation' = r
       /\ runs' = [runs EXCEPT ![r] = Released(runs[r], "committed")]
       /\ publishing' = [publishing EXCEPT ![t] = None]
       /\ UNCHANGED <<staged, digest>>

\* A failed check, a fault between two publish steps or the death of the
\* process: the transaction rolls back and the run stays as it is.
RollBackPublication(t) ==
    /\ publishing[t] # None
    /\ publishing' = [publishing EXCEPT ![t] = None]
    /\ UNCHANGED <<journalVars, corpusVars>>

-----------------------------------------------------------------------------

RunStep ==
    \/ \E S \in (SUBSET Project) \ {{}}, c \in Config, forceNew \in BOOLEAN :
          CreateOrResumeRun(S, c, forceNew)
    \/ \E r \in RunId : LeaseExpires(r) \/ AbandonRun(r) \/ SupersedeRun(r)
    \/ \E keepNewest \in 0 .. MaxRunId : GcStagedRuns(keepNewest)

OwnerStep(r, t) ==
    \/ ClaimRun(r, t)
    \/ Heartbeat(r, t)
    \/ PauseRun(r, t)
    \/ FailRun(r, t)
    \/ MarkRunReady(r, t)
    \/ \E p \in Project, manifest \in Manifests :
          ReconcileManifest(r, t, p, manifest)

DocumentStep(r, t, p, d) ==
    \/ BeginDocument(r, t, p, d)
    \/ \E payload \in Payloads : CheckpointDocument(r, t, p, d, payload)
    \/ CheckpointDocumentError(r, t, p, d)
    \/ ResetDocumentPending(r, t, p, d)

PublishStep(t) ==
    \/ \E r \in RunId : PreparePublication(r, t) \/ ReportCommitted(r, t)
    \/ CommitPublication(t)
    \/ RollBackPublication(t)

Next ==
    \/ RunStep
    \/ \E r \in RunId, t \in Token : OwnerStep(r, t)
    \/ \E r \in RunId, t \in Token, p \in Project, d \in Doc :
          DocumentStep(r, t, p, d)
    \/ \E t \in Token : PublishStep(t)

Spec == Init /\ [][Next]_vars
-----------------------------------------------------------------------------
(* Properties.                                                             *)

\* Every variable has its type.
TypeOK ==
    /\ runs \in [RunId -> IndexRun \cup {None}]
    /\ staged \in [RunId -> StagedDocuments]
    /\ digest \in [RunId -> [Project -> Digest \cup {None}]]
    /\ publishing \in [Token -> [run : RunId, documents : StagedDocuments]
                                    \cup {None}]
    /\ live \in [Project -> [Doc -> Observation \cup {None}]]
    /\ lastRun \in [Project -> 0 .. MaxRunId]
    /\ locator \in [Project -> {LocatorOf[c][p] : c \in Config, p \in Project}
                                    \cup {None}]
    /\ settings \in {SettingsOf[c] : c \in Config} \cup {None}
    /\ generation \in 0 .. MaxRunId

\* The CHECK of index_run_documents: no sequence of calls, including takeovers
\* between begin and checkpoint, leaves a row the schema would reject, so no
\* call depends on SQLite to refuse it.  A payload exists exactly on a ready
\* upsert, and only upserts are ever unfinished.
WellFormedRow(row) ==
    /\ row.payload # None <=> row.action = "upsert" /\ row.state = "ready"
    /\ row.state # "ready" => row.action = "upsert"
    /\ row.obs = None => row.action = "delete"

RowsSatisfySchema ==
    \A r \in RunId, p \in Project, d \in Doc :
        /\ staged[r][p][d] # None => WellFormedRow(staged[r][p][d])
        /\ staged[r][p][d] # None => Exists(r) /\ p \in runs[r].scope

\* Two unfinished runs never select the same project: whoever creates a run
\* supersedes, in the same transaction, every other claim on its projects.
UnfinishedScopesDisjoint ==
    \A r, s \in RunId :
        Unfinished(r) /\ Unfinished(s) /\ runs[r].scope \cap runs[s].scope # {}
            => r = s

\* The published generation is the id of a committed run that still exists, and
\* every unfinished run has a larger id than the generation it is based on, so
\* that publishing it moves the generation forward.  This is what makes
\* comparing generations sound although SQLite reuses the ids of deleted rows:
\* the foreign key of projects keeps the row the generation names.
GenerationIsNewestCommit ==
    /\ generation # 0 => /\ InState(generation, {"committed"})
                         /\ \E p \in Project : lastRun[p] = generation
    /\ \A r \in RunId :
          /\ InState(r, {"committed"}) => r <= generation
          /\ Unfinished(r) => runs[r].base <= generation /\ runs[r].base < r

\* While a publisher is still entitled to commit, the documents it decoded
\* before its transaction are the staged ones: taking the run over is the only
\* way to change them, and it costs the publisher its ownership.
PreparedDocumentsCurrent ==
    \A t \in Token :
        publishing[t] # None =>
            LET r == publishing[t].run
            IN InState(r, {"ready"}) /\ runs[r].owner = t
                   => publishing[t].documents = staged[r]

\* The stored digest is the digest of the staged rows for as long as every
\* payload carries the fingerprint its row was reconciled with: a takeover, a
\* retry or a partial refresh never leaves rows of another manifest behind.
DigestDescribesRows ==
    \A r \in RunId, p \in Project :
        digest[r][p] # None =>
            \/ digest[r][p] = DigestOf(staged[r][p])
            \/ \E d \in Doc : /\ staged[r][p][d] # None
                              /\ staged[r][p][d].payload \notin
                                     {None, staged[r][p][d].obs}

\* Everything live came from one set of immutable settings and, per project,
\* from one locator: no committed run disagrees with what the first one fixed.
OneConfiguration ==
    \A r \in RunId : InState(r, {"committed"}) =>
        /\ settings = SettingsOf[runs[r].config]
        /\ \A p \in runs[r].scope : locator[p] = LocatorOf[runs[r].config][p]

\* Readers see a change of the corpus exactly as one publication: a run moves
\* from ready to committed, the generation becomes its id, and each of its
\* projects holds what its last reconciled manifest names and nothing else.
Holds(file, row, before) ==
    /\ row.action = "upsert" => file = row.fingerprint
    /\ row.action = "unchanged" => file = before
    /\ row.action = "metadata" =>
          file = [before EXCEPT !.rev = row.fingerprint.rev]

PublishesManifest(r) ==
    /\ InState(r, {"ready"})
    /\ runs'[r].status = "committed"
    /\ \A p \in Project :
          IF p \in runs[r].scope
          THEN /\ lastRun'[p] = r
               /\ digest[r][p] # None
               /\ \A d \in Doc :
                     IF digest[r][p][d] # None
                     THEN Holds(live'[p][d], digest[r][p][d], live[p][d])
                     ELSE staged[r][p][d] # None => live'[p][d] = None
          ELSE live'[p] = live[p] /\ lastRun'[p] = lastRun[p]

CorpusChangesByPublication ==
    [][\E r \in RunId : r = generation' /\ PublishesManifest(r)]_corpusVars

\* Generations grow.
GenerationGrows == [][generation' > generation]_generation

\* A committed, superseded or abandoned run never becomes anything else; it can
\* only be collected.
FinishedRunsStayFinished ==
    [][\A r \in RunId : InState(r, TerminalState) => runs'[r] \in {runs[r], None}]_runs

\* Staged work survives pauses, crashes, takeovers and retries: a ready payload
\* of a run is discarded only by its owner, in a refresh whose manifest no
\* longer describes the row.
Discards(r, p, d) ==
    /\ staged[r][p][d] # None
    /\ staged[r][p][d].payload # None
    /\ staged'[r][p][d] # staged[r][p][d]

PayloadsSurvive ==
    [][\A r \in RunId, p \in Project, d \in Doc :
          Discards(r, p, d) /\ runs'[r] # None =>
              /\ InState(r, {"running"})
              /\ runs'[r].owner = runs[r].owner
              /\ digest'[r][p][d] # DigestOf(staged[r][p])[d]]_staged

\* The runs that may still publish.
OpenRuns == {[id |-> r, base |-> runs[r].base, scope |-> runs[r].scope] :
             r \in {s \in RunId : InState(s, ClaimableState)}}

Corpus == INSTANCE AtomicCorpus
    WITH corpus <- live, open <- OpenRuns, TxId <- RunId,
         Content <- [Doc -> Observation \cup {None}],
         Empty <- [d \in Doc |-> None]

\* The journal and publisher implement AtomicCorpus: whatever callers do, what
\* readers see is a sequence of first-committer-wins transactions.
ImplementsAtomicCorpus == Corpus!Spec
=============================================================================
