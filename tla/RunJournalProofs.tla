-------------------------- MODULE RunJournalProofs --------------------------
(***************************************************************************)
(* Theorems about RunJournal, for any number of callers, projects,         *)
(* documents and runs: types and the schema of staged rows; the safety of  *)
(* runs and of publication; what a digest says of the rows it was taken    *)
(* of, which payloads can be lost, what readers see of a publication; and  *)
(* that this is a sequence of first-committer-wins transactions.           *)
(***************************************************************************)
EXTENDS RunJournal, TLAPS

-----------------------------------------------------------------------------
(* What the operators on runs and rows return.                             *)

\* A transition that gives the lease up keeps everything else of the run.
LEMMA ReleasedRun ==
    ASSUME NEW run \in IndexRun, NEW status \in RunState
    PROVE  /\ Released(run, status) \in IndexRun
           /\ Released(run, status).status = status
           /\ Released(run, status).owner = None
           /\ Released(run, status).base = run.base
           /\ Released(run, status).scope = run.scope
           /\ Released(run, status).config = run.config
BY DEF Released, IndexRun

LEMMA ClaimedRun ==
    ASSUME NEW run \in IndexRun, NEW t \in Token
    PROVE  Claimed(run, t) \in IndexRun
BY DEF Claimed, IndexRun, RunState

LEMMA RenewedRun ==
    ASSUME NEW run \in IndexRun
    PROVE  /\ Renewed(run) \in IndexRun
           /\ [Renewed(run) EXCEPT !.status = "ready"] \in IndexRun
           /\ [run EXCEPT !.fresh = FALSE] \in IndexRun
BY DEF Renewed, IndexRun, RunState

LEMMA RequeuedRow ==
    ASSUME NEW row \in StagedDocument \cup {None}
    PROVE  Requeued(row) \in StagedDocument \cup {None}
BY DEF Requeued, StagedDocument, DocumentState

LEMMA RestagedRow ==
    ASSUME NEW document \in ManifestDocument
    PROVE  Restaged(document) \in StagedDocument
BY DEF Restaged, StagedDocument, ManifestDocument, DocumentState

LEMMA ReconciledRows ==
    ASSUME NEW rows \in [Doc -> StagedDocument \cup {None}],
           NEW manifest \in Manifest
    PROVE  /\ Reconciled(rows, manifest) \in [Doc -> StagedDocument \cup {None}]
           /\ ManifestDigest(manifest) \in Digest
<1>1. ASSUME NEW d \in Doc
      PROVE  ReconciledRow(rows[d], manifest[d]) \in StagedDocument \cup {None}
  <2>1. StagedDeletion \in StagedDocument
    BY DEF StagedDeletion, StagedDocument, DocumentAction, DocumentState
  <2>2. CASE manifest[d] = None
    BY <2>1, <2>2 DEF ReconciledRow
  <2>3. CASE manifest[d] # None
    <3>1. manifest[d] \in ManifestDocument
      BY <2>3 DEF Manifest
    <3>2. QED
      BY <2>3, <3>1, RestagedRow DEF ReconciledRow
  <2>4. QED
    BY <2>2, <2>3
<1>2. ASSUME NEW d \in Doc, manifest[d] # None, manifest[d].action # "delete"
      PROVE  [path |-> manifest[d].obs.path, fingerprint |-> manifest[d].obs,
              action |-> manifest[d].action] \in DigestRow
  BY <1>2 DEF Manifest, ManifestDocument, Observation, DigestRow
<1>3. QED
  BY <1>1, <1>2 DEF Reconciled, ManifestDigest, Digest

LEMMA NoDocumentsType == NoDocuments \in StagedDocuments
BY DEF NoDocuments, StagedDocuments

-----------------------------------------------------------------------------
(* Type correctness.                                                       *)

LEMMA InitTypeOK == Init => TypeOK
<1> SUFFICES ASSUME Init PROVE TypeOK
  OBVIOUS
<1>1. staged \in [RunId -> StagedDocuments]
  BY NoDocumentsType DEF Init
<1>2. QED
  BY <1>1, ConstantsAssumption DEF Init, TypeOK, NoDocuments

LEMMA CreateOrResumeTypeOK ==
    ASSUME TypeOK, NEW S \in SUBSET Project, NEW c \in Config,
           NEW forceNew \in BOOLEAN, CreateOrResumeRun(S, c, forceNew)
    PROVE  TypeOK'
<1> DEFINE superseded == Overlapping(S) \ Resumed(S, c, forceNew)
           after == [r \in RunId |-> IF r \in superseded
                                     THEN Released(runs[r], "superseded")
                                     ELSE runs[r]]
<1>1. after \in [RunId -> IndexRun \cup {None}]
  <2>1. ASSUME NEW r \in RunId, r \in superseded
        PROVE  Released(runs[r], "superseded") \in IndexRun
    <3>1. runs[r] \in IndexRun
      BY <2>1 DEF TypeOK, Overlapping, Unfinished, InState, Exists
    <3>2. QED
      BY <3>1, ReleasedRun DEF RunState
  <2>2. QED
    BY <2>1 DEF TypeOK
<1>2. NewRun(S, c) \in IndexRun
  BY DEF NewRun, IndexRun, RunState, TypeOK
<1>3. runs' \in [RunId -> IndexRun \cup {None}]
  BY <1>1, <1>2 DEF CreateOrResumeRun
<1>4. QED
  BY <1>3 DEF CreateOrResumeRun, TypeOK, corpusVars

LEMMA ClaimRunTypeOK ==
    ASSUME TypeOK, NEW r \in RunId, NEW t \in Token, ClaimRun(r, t)
    PROVE  TypeOK'
<1>1. runs' \in [RunId -> IndexRun \cup {None}]
  <2>1. runs[r] \in IndexRun
    BY DEF ClaimRun, Claimable, TypeOK, InState, Exists
  <2>2. Claimed(runs[r], t) \in IndexRun
    BY <2>1, ClaimedRun
  <2>3. QED
    BY <2>2 DEF ClaimRun, Claimable, TypeOK
<1>2. staged' \in [RunId -> StagedDocuments]
  <2>1. [p \in Project |-> [d \in Doc |-> Requeued(staged[r][p][d])]]
            \in StagedDocuments
    BY RequeuedRow DEF TypeOK, StagedDocuments
  <2>2. QED
    BY <2>1 DEF ClaimRun, Claimable, TypeOK
<1>3. QED
  BY <1>1, <1>2 DEF ClaimRun, Claimable, TypeOK, corpusVars

\* The transitions that only touch the row of the run.
LEMMA TransitionTypeOK ==
    ASSUME TypeOK, NEW r \in RunId,
           \/ LeaseExpires(r) \/ AbandonRun(r) \/ SupersedeRun(r)
           \/ \E t \in Token : \/ Heartbeat(r, t) \/ PauseRun(r, t)
                               \/ FailRun(r, t) \/ MarkRunReady(r, t)
    PROVE  TypeOK'
<1>1. runs[r] \in IndexRun
  BY DEF LeaseExpires, AbandonRun, SupersedeRun, Heartbeat, PauseRun, FailRun,
         MarkRunReady, Owns, Unfinished, InState, Exists, TypeOK
<1>2. \A status \in RunState : Released(runs[r], status) \in IndexRun
  BY <1>1, ReleasedRun
<1>3. /\ Renewed(runs[r]) \in IndexRun
      /\ [Renewed(runs[r]) EXCEPT !.status = "ready"] \in IndexRun
      /\ [runs[r] EXCEPT !.fresh = FALSE] \in IndexRun
  BY <1>1, RenewedRun
<1>4. ASSUME NEW run \in IndexRun, runs' = [runs EXCEPT ![r] = run]
      PROVE  runs' \in [RunId -> IndexRun \cup {None}]
  BY <1>4 DEF TypeOK
<1>5. runs' \in [RunId -> IndexRun \cup {None}]
  <2>1. CASE LeaseExpires(r)
    BY <2>1, <1>3, <1>4 DEF LeaseExpires
  <2>2. CASE AbandonRun(r)
    BY <2>2, <1>2, <1>4 DEF AbandonRun, RunState
  <2>3. CASE SupersedeRun(r)
    BY <2>3, <1>2, <1>4 DEF SupersedeRun, RunState
  <2>4. ASSUME NEW t \in Token, Heartbeat(r, t)
        PROVE  runs' \in [RunId -> IndexRun \cup {None}]
    BY <2>4, <1>3, <1>4 DEF Heartbeat
  <2>5. ASSUME NEW t \in Token, PauseRun(r, t)
        PROVE  runs' \in [RunId -> IndexRun \cup {None}]
    BY <2>5, <1>2, <1>4 DEF PauseRun, RunState
  <2>6. ASSUME NEW t \in Token, FailRun(r, t)
        PROVE  runs' \in [RunId -> IndexRun \cup {None}]
    BY <2>6, <1>2, <1>4 DEF FailRun, RunState
  <2>7. ASSUME NEW t \in Token, MarkRunReady(r, t)
        PROVE  runs' \in [RunId -> IndexRun \cup {None}]
    BY <2>7, <1>3, <1>4 DEF MarkRunReady
  <2>8. QED
    BY <2>1, <2>2, <2>3, <2>4, <2>5, <2>6, <2>7
<1>6. UNCHANGED <<staged, digest, publishing, corpusVars>>
  BY DEF LeaseExpires, AbandonRun, SupersedeRun, Heartbeat, PauseRun, FailRun,
         MarkRunReady
<1>7. QED
  BY <1>5, <1>6 DEF TypeOK, corpusVars

LEMMA GcTypeOK ==
    ASSUME TypeOK, NEW keepNewest \in Nat, GcStagedRuns(keepNewest)
    PROVE  TypeOK'
<1>1. /\ runs' \in [RunId -> IndexRun \cup {None}]
      /\ digest' \in [RunId -> [Project -> Digest \cup {None}]]
  BY DEF GcStagedRuns, TypeOK
<1>2. staged' \in [RunId -> StagedDocuments]
  BY NoDocumentsType DEF GcStagedRuns, TypeOK
<1>3. QED
  BY <1>1, <1>2 DEF GcStagedRuns, TypeOK, corpusVars

LEMMA ReconcileTypeOK ==
    ASSUME TypeOK, NEW r \in RunId, NEW t \in Token, NEW p \in Project,
           NEW manifest \in Manifest, ReconcileManifest(r, t, p, manifest)
    PROVE  TypeOK'
<1>1. staged[r][p] \in [Doc -> StagedDocument \cup {None}]
  BY DEF TypeOK, StagedDocuments
<1>2. /\ Reconciled(staged[r][p], manifest)
             \in [Doc -> StagedDocument \cup {None}]
      /\ ManifestDigest(manifest) \in Digest
  BY <1>1, ReconciledRows
<1>3. staged' \in [RunId -> StagedDocuments]
  BY <1>2 DEF ReconcileManifest, TypeOK, StagedDocuments
<1>4. digest' \in [RunId -> [Project -> Digest \cup {None}]]
  BY <1>2 DEF ReconcileManifest, TypeOK
<1>5. runs' \in [RunId -> IndexRun \cup {None}]
  <2>1. runs[r] \in IndexRun
    BY DEF ReconcileManifest, Owns, InState, Exists, TypeOK
  <2>2. Renewed(runs[r]) \in IndexRun
    BY <2>1 DEF Renewed, IndexRun
  <2>3. QED
    BY <2>2 DEF ReconcileManifest, TypeOK
<1>6. QED
  BY <1>3, <1>4, <1>5 DEF ReconcileManifest, TypeOK, corpusVars

LEMMA CheckpointTypeOK ==
    ASSUME TypeOK, NEW r \in RunId, NEW t \in Token, NEW p \in Project,
           NEW d \in Doc, NEW from \in DocumentState, NEW row \in StagedDocument,
           Checkpoint(r, t, p, d, from, row)
    PROVE  TypeOK'
<1>1. staged' \in [RunId -> StagedDocuments]
  BY DEF Checkpoint, TypeOK, StagedDocuments
<1>2. QED
  BY <1>1 DEF Checkpoint, TypeOK, corpusVars

LEMMA DocumentStepTypeOK ==
    ASSUME TypeOK, NEW r \in RunId, NEW t \in Token, NEW p \in Project,
           NEW d \in Doc, DocumentStep(r, t, p, d)
    PROVE  TypeOK'
<1>1. staged[r][p][d] \in StagedDocument
  <2>1. staged[r][p][d] # None
    BY DEF DocumentStep, BeginDocument, CheckpointDocument,
           CheckpointDocumentError, ResetDocumentPending, Checkpoint
  <2>2. QED
    BY <2>1 DEF TypeOK, StagedDocuments
<1> USE DEF DocumentState, StagedDocument
<1>2. CASE BeginDocument(r, t, p, d)
  BY <1>1, <1>2, CheckpointTypeOK DEF BeginDocument
<1>3. CASE \E payload \in Payloads : CheckpointDocument(r, t, p, d, payload)
  BY <1>1, <1>3, CheckpointTypeOK, ConstantsAssumption DEF CheckpointDocument
<1>4. CASE CheckpointDocumentError(r, t, p, d)
  BY <1>1, <1>4, CheckpointTypeOK DEF CheckpointDocumentError
<1>5. CASE ResetDocumentPending(r, t, p, d)
  BY <1>1, <1>5, CheckpointTypeOK DEF ResetDocumentPending
<1>6. QED
  BY <1>2, <1>3, <1>4, <1>5 DEF DocumentStep

\* Every decoded document waiting in a publish_run is one the schema accepts.
PreparedSatisfySchema ==
    \A t \in Token, p \in Project, d \in Doc :
        publishing[t] # None =>
            LET row == publishing[t].documents[p][d]
            IN row # None => WellFormedRow(row)

\* A publication leaves files in every project it covers.
LEMMA FilesAfter ==
    ASSUME NEW files \in [Doc -> Observation \cup {None}],
           NEW rows \in [Doc -> StagedDocument \cup {None}],
           \A d \in Doc : rows[d] # None => WellFormedRow(rows[d]),
           MetadataTargetsExist(files, rows)
    PROVE  LiveAfter(files, rows) \in [Doc -> Observation \cup {None}]
<1>1. ASSUME NEW d \in Doc, rows[d] # None
      PROVE  FileAfter(files[d], rows[d]) \in Observation \cup {None}
  <2>1. rows[d] \in StagedDocument
    BY <1>1
  <2>2. CASE rows[d].action = "metadata"
    <3>1. files[d] \in Observation /\ rows[d].obs \in Observation
      BY <1>1, <2>1, <2>2
         DEF MetadataTargetsExist, WellFormedRow, StagedDocument
    <3>2. QED
      BY <2>2, <3>1 DEF FileAfter, Observation
  <2>3. CASE rows[d].action # "metadata"
    BY <2>1, <2>3 DEF FileAfter, StagedDocument
  <2>4. QED
    BY <2>2, <2>3
<1>2. QED
  BY <1>1 DEF LiveAfter

LEMMA CommitTypeOK ==
    ASSUME TypeOK, PreparedSatisfySchema, NEW t \in Token, CommitPublication(t)
    PROVE  TypeOK'
<1> DEFINE r == publishing[t].run
           documents == publishing[t].documents
<1>1. /\ r \in RunId
      /\ documents \in StagedDocuments
      /\ runs[r] \in IndexRun
  BY DEF CommitPublication, Committable, StillPublishable, InState, Exists, TypeOK
<1>2. live' \in [Project -> [Doc -> Observation \cup {None}]]
  <2>1. ASSUME NEW p \in runs[r].scope, p \in Project
        PROVE  LiveAfter(live[p], documents[p])
                   \in [Doc -> Observation \cup {None}]
    <3>1. /\ documents[p] \in [Doc -> StagedDocument \cup {None}]
          /\ live[p] \in [Doc -> Observation \cup {None}]
      BY <1>1, <2>1 DEF TypeOK, StagedDocuments
    <3>2. /\ publishing[t] # None
          /\ MetadataTargetsExist(live[p], documents[p])
      BY <2>1 DEF CommitPublication, Committable
    <3>3. \A d \in Doc : documents[p][d] # None => WellFormedRow(documents[p][d])
      BY <2>1, <3>2 DEF PreparedSatisfySchema
    <3>4. QED
      BY <3>1, <3>2, <3>3, FilesAfter
  <2>2. live' = [p \in Project |-> IF p \in runs[r].scope
                                   THEN LiveAfter(live[p], documents[p])
                                   ELSE live[p]]
    BY DEF CommitPublication
  <2>3. QED
    BY <2>1, <2>2 DEF TypeOK
<1>3. runs' \in [RunId -> IndexRun \cup {None}]
  <2>1. Released(runs[r], "committed") \in IndexRun
    BY <1>1, ReleasedRun DEF RunState
  <2>2. QED
    BY <2>1 DEF CommitPublication, TypeOK
<1>4. runs[r].config \in Config
  BY <1>1 DEF IndexRun
<1>5. /\ lastRun' \in [Project -> 0 .. MaxRunId]
      /\ generation' \in 0 .. MaxRunId
  BY <1>1 DEF CommitPublication, TypeOK, RunId
<1>6. /\ locator' \in [Project -> {LocatorOf[c][p] : c \in Config, p \in Project}
                                     \cup {None}]
      /\ settings' \in {SettingsOf[c] : c \in Config} \cup {None}
  <2>1. \A p \in Project :
           LocatorOf[runs[r].config][p]
               \in {LocatorOf[c][q] : c \in Config, q \in Project}
    BY <1>4
  <2>2. SettingsOf[runs[r].config] \in {SettingsOf[c] : c \in Config}
    BY <1>4
  <2>3. /\ locator' = [p \in Project |-> IF p \in runs[r].scope
                                         THEN LocatorOf[runs[r].config][p]
                                         ELSE locator[p]]
        /\ settings' = SettingsOf[runs[r].config]
    BY DEF CommitPublication
  <2>4. QED
    BY <2>1, <2>2, <2>3 DEF TypeOK
<1>7. publishing' \in [Token -> [run : RunId, documents : StagedDocuments]
                                     \cup {None}]
  BY DEF CommitPublication, TypeOK
<1>8. staged' = staged /\ digest' = digest
  BY DEF CommitPublication
<1>9. QED
  BY <1>2, <1>3, <1>5, <1>6, <1>7, <1>8 DEF TypeOK

LEMMA PublishStepTypeOK ==
    ASSUME TypeOK, PreparedSatisfySchema, NEW t \in Token, PublishStep(t)
    PROVE  TypeOK'
<1>1. ASSUME NEW r \in RunId, PreparePublication(r, t) PROVE TypeOK'
  BY <1>1 DEF PreparePublication, TypeOK, journalVars, corpusVars
<1>2. ASSUME NEW r \in RunId, ReportCommitted(r, t) PROVE TypeOK'
  BY <1>2 DEF ReportCommitted, TypeOK, vars
<1>3. CASE CommitPublication(t)
  BY <1>3, CommitTypeOK
<1>4. CASE RollBackPublication(t)
  BY <1>4 DEF RollBackPublication, TypeOK, journalVars, corpusVars
<1>5. QED
  BY <1>1, <1>2, <1>3, <1>4 DEF PublishStep

LEMMA NextTypeOK ==
    ASSUME TypeOK, PreparedSatisfySchema, [Next]_vars
    PROVE  TypeOK'
<1>1. CASE RunStep
  <2>1. ASSUME NEW keepNewest \in 0 .. MaxRunId, GcStagedRuns(keepNewest)
        PROVE  TypeOK'
    BY <2>1, GcTypeOK, ConstantsAssumption
  <2>2. QED
    BY <1>1, <2>1, CreateOrResumeTypeOK, TransitionTypeOK DEF RunStep
<1>2. ASSUME NEW r \in RunId, NEW t \in Token, OwnerStep(r, t)
      PROVE  TypeOK'
  <2>1. ASSUME NEW p \in Project, NEW manifest \in Manifests,
               ReconcileManifest(r, t, p, manifest)
        PROVE  TypeOK'
    BY <2>1, ReconcileTypeOK, ConstantsAssumption
  <2>2. CASE ClaimRun(r, t)
    BY <2>2, ClaimRunTypeOK
  <2>3. CASE \/ Heartbeat(r, t) \/ PauseRun(r, t)
             \/ FailRun(r, t) \/ MarkRunReady(r, t)
    BY <2>3, TransitionTypeOK
  <2>4. QED
    BY <1>2, <2>1, <2>2, <2>3 DEF OwnerStep
<1>3. CASE UNCHANGED vars
  BY <1>3 DEF TypeOK, vars
<1>4. QED
  BY <1>1, <1>2, <1>3, DocumentStepTypeOK, PublishStepTypeOK DEF Next

-----------------------------------------------------------------------------
(* The schema of index_run_documents is never put to the test.             *)

LEMMA InitSchema == Init => RowsSatisfySchema /\ PreparedSatisfySchema
BY DEF Init, RowsSatisfySchema, PreparedSatisfySchema, NoDocuments

LEMMA RequeuedWellFormed ==
    ASSUME NEW row \in StagedDocument \cup {None},
           row # None => WellFormedRow(row), Requeued(row) # None
    PROVE  row # None /\ WellFormedRow(Requeued(row))
BY DEF Requeued, WellFormedRow, StagedDocument, DocumentState

LEMMA ReconciledWellFormed ==
    ASSUME NEW row \in StagedDocument \cup {None},
           row # None => WellFormedRow(row),
           NEW document \in ManifestDocument \cup {None},
           ReconciledRow(row, document) # None
    PROVE  WellFormedRow(ReconciledRow(row, document))
<1>1. ASSUME document # None
      PROVE  WellFormedRow(Restaged(document))
  <2>1. document \in ManifestDocument /\ document.obs # None
    BY <1>1, NoneAssumption DEF ManifestDocument
  <2>2. QED
    BY <2>1 DEF WellFormedRow, Restaged
<1>2. WellFormedRow(StagedDeletion)
  BY DEF WellFormedRow, StagedDeletion
<1>3. QED
  BY <1>1, <1>2 DEF ReconciledRow

\* Rows that do not change stay good while their run keeps its scope.
LEMMA SchemaKept ==
    ASSUME RowsSatisfySchema, staged' = staged,
           \A r \in RunId : runs[r] # None =>
               runs'[r] # None /\ runs'[r].scope = runs[r].scope
    PROVE  RowsSatisfySchema'
BY DEF RowsSatisfySchema, Exists

\* A step on one document of an existing run.
LEMMA SchemaCheckpoint ==
    ASSUME TypeOK, RowsSatisfySchema, NEW r \in RunId, NEW t \in Token,
           NEW p \in Project, NEW d \in Doc, NEW from, NEW row,
           Checkpoint(r, t, p, d, from, row), WellFormedRow(row)
    PROVE  RowsSatisfySchema'
<1>1. /\ runs' = runs
      /\ staged' = [staged EXCEPT ![r][p][d] = row]
      /\ staged[r][p][d] # None
  BY DEF Checkpoint
<1>2. QED
  BY <1>1 DEF RowsSatisfySchema, TypeOK, StagedDocuments, Exists

LEMMA DocumentStepSchema ==
    ASSUME TypeOK, RowsSatisfySchema, NEW r \in RunId, NEW t \in Token,
           NEW p \in Project, NEW d \in Doc, DocumentStep(r, t, p, d)
    PROVE  RowsSatisfySchema'
<1>1. staged[r][p][d] # None
  BY DEF DocumentStep, BeginDocument, CheckpointDocument,
         CheckpointDocumentError, ResetDocumentPending, Checkpoint
<1>2. staged[r][p][d] \in StagedDocument /\ WellFormedRow(staged[r][p][d])
  BY <1>1 DEF TypeOK, StagedDocuments, RowsSatisfySchema
<1> USE DEF StagedDocument, WellFormedRow
<1>3. CASE BeginDocument(r, t, p, d)
  <2>1. staged[r][p][d].state = "pending"
    BY <1>3 DEF BeginDocument, Checkpoint
  <2>2. QED
    BY <1>2, <1>3, <2>1, SchemaCheckpoint DEF BeginDocument
<1>4. ASSUME NEW payload \in Payloads, CheckpointDocument(r, t, p, d, payload)
      PROVE  RowsSatisfySchema'
  <2>1. payload # None /\ staged[r][p][d].action = "upsert"
    BY <1>1, <1>4, ConstantsAssumption, NoneAssumption DEF CheckpointDocument
  <2>2. QED
    BY <1>2, <1>4, <2>1, SchemaCheckpoint DEF CheckpointDocument
<1>5. CASE CheckpointDocumentError(r, t, p, d)
  <2>1. staged[r][p][d].state = "processing"
    BY <1>5 DEF CheckpointDocumentError, Checkpoint
  <2>2. QED
    BY <1>2, <1>5, <2>1, SchemaCheckpoint DEF CheckpointDocumentError
<1>6. CASE ResetDocumentPending(r, t, p, d)
  <2>1. staged[r][p][d].state = "processing"
    BY <1>6 DEF ResetDocumentPending, Checkpoint
  <2>2. QED
    BY <1>2, <1>6, <2>1, SchemaCheckpoint DEF ResetDocumentPending
<1>7. QED
  BY <1>3, <1>4, <1>5, <1>6 DEF DocumentStep

LEMMA ClaimRunSchema ==
    ASSUME TypeOK, RowsSatisfySchema, NEW r \in RunId, NEW t \in Token,
           ClaimRun(r, t)
    PROVE  RowsSatisfySchema'
<1>1. /\ Claimed(runs[r], t).scope = runs[r].scope
      /\ Claimed(runs[r], t) # None
  <2>1. runs[r] \in IndexRun
    BY DEF ClaimRun, Claimable, InState, Exists, TypeOK
  <2>2. QED
    BY <2>1, ClaimedRun, NoneAssumption DEF Claimed, IndexRun
<1>2. \A s \in RunId : runs[s] # None =>
          runs'[s] # None /\ runs'[s].scope = runs[s].scope
  BY <1>1 DEF ClaimRun, Claimable, TypeOK
<1>3. ASSUME NEW p \in Project, NEW d \in Doc, Requeued(staged[r][p][d]) # None
      PROVE  /\ staged[r][p][d] # None
             /\ WellFormedRow(Requeued(staged[r][p][d]))
  <2>1. staged[r][p][d] \in StagedDocument \cup {None}
    BY DEF TypeOK, StagedDocuments
  <2>2. staged[r][p][d] # None => WellFormedRow(staged[r][p][d])
    BY DEF RowsSatisfySchema
  <2>3. QED
    BY <1>3, <2>1, <2>2, RequeuedWellFormed
<1>4. staged' = [staged EXCEPT ![r] = [p \in Project |->
                    [d \in Doc |-> Requeued(staged[r][p][d])]]]
  BY DEF ClaimRun, Claimable
<1>5. \A s \in RunId, p \in Project, d \in Doc :
          staged'[s][p][d] = IF s = r THEN Requeued(staged[r][p][d])
                                      ELSE staged[s][p][d]
  BY <1>4 DEF TypeOK
<1>6. ASSUME NEW s \in RunId, NEW p \in Project, NEW d \in Doc,
             staged'[s][p][d] # None
      PROVE  WellFormedRow(staged'[s][p][d]) /\ staged[s][p][d] # None
  BY <1>3, <1>5, <1>6 DEF RowsSatisfySchema
<1>7. QED
  BY <1>2, <1>6 DEF RowsSatisfySchema, Exists

LEMMA ReconcileSchema ==
    ASSUME TypeOK, RowsSatisfySchema, NEW r \in RunId, NEW t \in Token,
           NEW p \in Project, NEW manifest \in Manifest,
           ReconcileManifest(r, t, p, manifest)
    PROVE  RowsSatisfySchema'
<1>1. Renewed(runs[r]).scope = runs[r].scope /\ Renewed(runs[r]) # None
  <2>1. runs[r] \in IndexRun
    BY DEF ReconcileManifest, Owns, InState, Exists, TypeOK
  <2>2. QED
    BY <2>1, RenewedRun, NoneAssumption DEF Renewed, IndexRun
<1>2. \A s \in RunId : runs[s] # None =>
          runs'[s] # None /\ runs'[s].scope = runs[s].scope
  BY <1>1 DEF ReconcileManifest, TypeOK
<1>3. ASSUME NEW d \in Doc, ReconciledRow(staged[r][p][d], manifest[d]) # None
      PROVE  WellFormedRow(ReconciledRow(staged[r][p][d], manifest[d]))
  <2>1. /\ staged[r][p][d] \in StagedDocument \cup {None}
        /\ manifest[d] \in ManifestDocument \cup {None}
    BY DEF TypeOK, StagedDocuments, Manifest
  <2>2. staged[r][p][d] # None => WellFormedRow(staged[r][p][d])
    BY DEF RowsSatisfySchema
  <2>3. QED
    BY <1>3, <2>1, <2>2, ReconciledWellFormed
<1>4. /\ staged' = [staged EXCEPT ![r][p] = Reconciled(staged[r][p], manifest)]
      /\ p \in runs[r].scope
      /\ runs[r] # None
  BY DEF ReconcileManifest, Owns, InState, Exists
<1>5. QED
  BY <1>2, <1>3, <1>4
     DEF RowsSatisfySchema, TypeOK, StagedDocuments, Exists, Reconciled

LEMMA RunStepSchema ==
    ASSUME TypeOK, RowsSatisfySchema, RunStep
    PROVE  RowsSatisfySchema'
<1>1. ASSUME NEW r \in RunId, NEW status \in RunState, runs[r] # None
      PROVE  /\ Released(runs[r], status) # None
             /\ Released(runs[r], status).scope = runs[r].scope
  <2>1. runs[r] \in IndexRun
    BY <1>1 DEF TypeOK
  <2>2. QED
    BY <2>1, ReleasedRun, NoneAssumption
<1>2. ASSUME NEW S \in SUBSET Project, NEW c \in Config,
             NEW forceNew \in BOOLEAN, CreateOrResumeRun(S, c, forceNew)
      PROVE  RowsSatisfySchema'
  <2>1. ASSUME NEW r \in RunId, NextRunId(r) PROVE runs[r] = None
    BY <2>1 DEF NextRunId, Exists, RunId
  <2>2. \A r \in RunId : runs[r] # None =>
            runs'[r] # None /\ runs'[r].scope = runs[r].scope
    BY <1>1, <1>2, <2>1
       DEF CreateOrResumeRun, TypeOK, RunState
  <2>3. QED
    BY <1>2, <2>2, SchemaKept DEF CreateOrResumeRun
<1>3. ASSUME NEW r \in RunId, LeaseExpires(r) \/ AbandonRun(r) \/ SupersedeRun(r)
      PROVE  RowsSatisfySchema'
  <2>1. runs[r] # None /\ runs[r] \in IndexRun
    BY <1>3 DEF LeaseExpires, AbandonRun, SupersedeRun, Unfinished, InState,
                Exists, TypeOK
  <2>2. ASSUME NEW run, run # None, run.scope = runs[r].scope,
               runs' = [runs EXCEPT ![r] = run], staged' = staged
        PROVE  RowsSatisfySchema'
    BY <2>1, <2>2, SchemaKept DEF TypeOK
  <2>3. CASE LeaseExpires(r)
    <3>1. /\ [runs[r] EXCEPT !.fresh = FALSE] # None
          /\ [runs[r] EXCEPT !.fresh = FALSE].scope = runs[r].scope
      BY <2>1, RenewedRun, NoneAssumption DEF IndexRun
    <3>2. QED
      BY <2>2, <2>3, <3>1 DEF LeaseExpires
  <2>4. CASE AbandonRun(r)
    BY <1>1, <2>1, <2>2, <2>4 DEF AbandonRun, RunState
  <2>5. CASE SupersedeRun(r)
    BY <1>1, <2>1, <2>2, <2>5 DEF SupersedeRun, RunState
  <2>6. QED
    BY <1>3, <2>3, <2>4, <2>5
<1>4. ASSUME NEW keepNewest \in 0 .. MaxRunId, GcStagedRuns(keepNewest)
      PROVE  RowsSatisfySchema'
  BY <1>4 DEF GcStagedRuns, RowsSatisfySchema, NoDocuments, TypeOK, Exists
<1>5. QED
  BY <1>2, <1>3, <1>4 DEF RunStep

LEMMA NextSchema ==
    ASSUME TypeOK, RowsSatisfySchema, [Next]_vars
    PROVE  RowsSatisfySchema'
<1>1. ASSUME NEW r \in RunId, NEW t \in Token, OwnerStep(r, t)
      PROVE  RowsSatisfySchema'
  <2>1. ASSUME NEW run \in IndexRun, runs[r] # None, run.scope = runs[r].scope,
               runs' = [runs EXCEPT ![r] = run], staged' = staged
        PROVE  RowsSatisfySchema'
    <3>1. run # None
      BY NoneAssumption
    <3>2. QED
      BY <2>1, <3>1, SchemaKept DEF TypeOK
  <2>2. ASSUME runs[r] # None
        PROVE  /\ Renewed(runs[r]) \in IndexRun
               /\ Renewed(runs[r]).scope = runs[r].scope
               /\ [Renewed(runs[r]) EXCEPT !.status = "ready"] \in IndexRun
               /\ [Renewed(runs[r]) EXCEPT !.status = "ready"].scope
                      = runs[r].scope
    <3>1. runs[r] \in IndexRun
      BY <2>2 DEF TypeOK
    <3>2. QED
      BY <3>1, RenewedRun DEF Renewed, IndexRun
  <2>3. ASSUME runs[r] # None, NEW status \in RunState
        PROVE  /\ Released(runs[r], status) \in IndexRun
               /\ Released(runs[r], status).scope = runs[r].scope
    BY <2>3, ReleasedRun DEF TypeOK
  <2>4. CASE ClaimRun(r, t)
    BY <2>4, ClaimRunSchema
  <2>5. CASE Heartbeat(r, t)
    BY <2>5, <2>1, <2>2 DEF Heartbeat, Owns, InState, Exists
  <2>6. CASE PauseRun(r, t)
    BY <2>6, <2>1, <2>3 DEF PauseRun, InState, Exists, RunState
  <2>7. CASE FailRun(r, t)
    BY <2>7, <2>1, <2>3 DEF FailRun, InState, Exists, RunState
  <2>8. CASE MarkRunReady(r, t)
    BY <2>8, <2>1, <2>2 DEF MarkRunReady, Owns, InState, Exists
  <2>9. ASSUME NEW p \in Project, NEW manifest \in Manifests,
               ReconcileManifest(r, t, p, manifest)
        PROVE  RowsSatisfySchema'
    BY <2>9, ReconcileSchema, ConstantsAssumption
  <2>10. QED
    BY <1>1, <2>4, <2>5, <2>6, <2>7, <2>8, <2>9 DEF OwnerStep
<1>2. ASSUME NEW t \in Token, PublishStep(t)
      PROVE  RowsSatisfySchema'
  <2>1. CASE CommitPublication(t)
    <3> DEFINE r == publishing[t].run
    <3>1. runs[r] \in IndexRun /\ r \in RunId
      BY <2>1 DEF CommitPublication, Committable, StillPublishable, InState, Exists, TypeOK
    <3>2. /\ Released(runs[r], "committed") # None
          /\ Released(runs[r], "committed").scope = runs[r].scope
      BY <3>1, ReleasedRun, NoneAssumption DEF RunState
    <3>3. /\ runs' = [runs EXCEPT ![r] = Released(runs[r], "committed")]
          /\ staged' = staged
      BY <2>1 DEF CommitPublication
    <3>4. QED
      BY <3>1, <3>2, <3>3, SchemaKept DEF TypeOK
  <2>2. CASE UNCHANGED <<runs, staged>>
    BY <2>2, SchemaKept
  <2>3. QED
    BY <1>2, <2>1, <2>2
       DEF PublishStep, PreparePublication, ReportCommitted,
           RollBackPublication, journalVars, vars
<1>3. CASE UNCHANGED vars
  BY <1>3, SchemaKept DEF vars
<1>4. QED
  BY <1>1, <1>2, <1>3, RunStepSchema, DocumentStepSchema DEF Next

LEMMA NextPreparedSchema ==
    ASSUME RowsSatisfySchema, PreparedSatisfySchema, TypeOK, [Next]_vars
    PROVE  PreparedSatisfySchema'
<1>1. ASSUME NEW t \in Token, NEW r \in RunId, PreparePublication(r, t)
      PROVE  PreparedSatisfySchema'
  BY <1>1 DEF PreparePublication, PreparedSatisfySchema, RowsSatisfySchema, TypeOK
<1>2. ASSUME NEW t \in Token, publishing' = [publishing EXCEPT ![t] = None]
      PROVE  PreparedSatisfySchema'
  BY <1>2 DEF PreparedSatisfySchema, TypeOK
<1>3. CASE publishing' = publishing
  BY <1>3 DEF PreparedSatisfySchema
<1>4. CASE RunStep
  BY <1>3, <1>4 DEF RunStep, CreateOrResumeRun, LeaseExpires, AbandonRun,
                    SupersedeRun, GcStagedRuns
<1>5. ASSUME NEW r \in RunId, NEW t \in Token, OwnerStep(r, t)
      PROVE  PreparedSatisfySchema'
  BY <1>3, <1>5 DEF OwnerStep, ClaimRun, Claimable, Heartbeat, PauseRun, FailRun,
                    MarkRunReady, ReconcileManifest
<1>6. ASSUME NEW r \in RunId, NEW t \in Token, NEW p \in Project, NEW d \in Doc,
             DocumentStep(r, t, p, d)
      PROVE  PreparedSatisfySchema'
  BY <1>3, <1>6
     DEF DocumentStep, BeginDocument, CheckpointDocument,
         CheckpointDocumentError, ResetDocumentPending, Checkpoint
<1>7. ASSUME NEW t \in Token, PublishStep(t)
      PROVE  PreparedSatisfySchema'
  BY <1>1, <1>2, <1>3, <1>7
     DEF PublishStep, CommitPublication, RollBackPublication, ReportCommitted,
         vars
<1>8. QED
  BY <1>3, <1>4, <1>5, <1>6, <1>7 DEF Next, vars

\* Types alone are not inductive: revising the row of a live file needs an
\* observed revision, which only the schema promises of a metadata row.
SchemaInv == TypeOK /\ RowsSatisfySchema /\ PreparedSatisfySchema

LEMMA SchemaInvariant == Spec => []SchemaInv
<1>1. Init => SchemaInv
  BY InitTypeOK, InitSchema DEF SchemaInv
<1>2. SchemaInv /\ [Next]_vars => SchemaInv'
  BY NextTypeOK, NextSchema, NextPreparedSchema DEF SchemaInv
<1>3. QED
  BY <1>1, <1>2, PTL DEF Spec

\* Every variable of the journal always has its type, whatever callers do.
THEOREM TypeCorrect == Spec => []TypeOK
<1>1. SchemaInv => TypeOK
  BY DEF SchemaInv
<1>2. QED
  BY <1>1, SchemaInvariant, PTL

\* No sequence of calls, from any number of owners, brings a staged document
\* into a shape that the CHECK of index_run_documents would reject.
THEOREM SchemaNeverViolated == Spec => []RowsSatisfySchema
<1>1. SchemaInv => RowsSatisfySchema
  BY DEF SchemaInv
<1>2. QED
  BY <1>1, SchemaInvariant, PTL

-----------------------------------------------------------------------------
(* What one step can do to one run, and to the corpus.                     *)

\* Publication of run r.
Publishes(r) ==
    /\ InState(r, {"ready"})
    /\ runs[r].base = generation
    /\ generation' = r
    /\ runs' = [runs EXCEPT ![r] = Released(runs[r], "committed")]
    /\ \A p \in Project : IF p \in runs[r].scope THEN lastRun'[p] = r
                          ELSE lastRun'[p] = lastRun[p] /\ live'[p] = live[p]
    /\ \E t \in Token : r = publishing[t].run /\ CommitPublication(t)

Moved(r) ==
    /\ Unfinished(r)
    /\ runs'[r] \in IndexRun
    /\ runs'[r].base = runs[r].base
    /\ runs'[r].scope = runs[r].scope
    /\ runs'[r].status = "committed" => Publishes(r)
    /\ runs'[r].status \in ClaimableState => runs[r].status \in ClaimableState

Collected(r) ==
    /\ InState(r, TerminalState)
    /\ runs'[r] = None
    /\ \A p \in Project : lastRun[p] # r

Created(r) ==
    /\ NextRunId(r)
    /\ \E S \in (SUBSET Project) \ {{}}, c \in Config :
          /\ runs'[r] = NewRun(S, c)
          /\ \A s \in Overlapping(S) : runs'[s].status = "superseded"

Changes(r) == runs'[r] = runs[r] \/ Moved(r) \/ Collected(r) \/ Created(r)

LEMMA CreateChanges ==
    ASSUME TypeOK, NEW S \in (SUBSET Project) \ {{}}, NEW c \in Config,
           NEW forceNew \in BOOLEAN, CreateOrResumeRun(S, c, forceNew)
    PROVE  \A r \in RunId : Changes(r)
<1> DEFINE kept == Resumed(S, c, forceNew)
           superseded == Overlapping(S) \ kept
           after == [r \in RunId |-> IF r \in superseded
                                     THEN Released(runs[r], "superseded")
                                     ELSE runs[r]]
<1>1. ASSUME NEW r \in superseded, runs'[r] = after[r]
      PROVE  Moved(r)
  <2>1. r \in RunId /\ Unfinished(r) /\ runs[r] \in IndexRun
    BY DEF Overlapping, Unfinished, InState, Exists, TypeOK
  <2>2. runs'[r] = Released(runs[r], "superseded")
    BY <1>1, <2>1
  <2>3. QED
    BY <2>1, <2>2, ReleasedRun DEF Moved, RunState, ClaimableState
<1>2. CASE runs' = after
  BY <1>1, <1>2 DEF Changes
<1>3. ASSUME kept = {}, NEW n \in RunId, NextRunId(n),
             runs' = [after EXCEPT ![n] = NewRun(S, c)]
      PROVE  \A r \in RunId : Changes(r)
  <2>1. ~Exists(n)
    BY <1>3 DEF NextRunId, RunId
  <2>2. \A s \in Overlapping(S) : s # n /\ runs'[s] = Released(runs[s], "superseded")
    BY <1>3, <2>1 DEF Overlapping, Unfinished, InState
  <2>3. \A s \in Overlapping(S) : Released(runs[s], "superseded").status = "superseded"
    BY ReleasedRun DEF Overlapping, Unfinished, InState, Exists, TypeOK, RunState
  <2>4. runs'[n] = NewRun(S, c)
    BY <1>3
  <2>5. Created(n)
    BY <1>3, <2>2, <2>3, <2>4 DEF Created
  <2>6. \A r \in RunId \ {n} : runs'[r] = after[r]
    BY <1>3
  <2>7. QED
    BY <1>1, <2>5, <2>6 DEF Changes
<1>4. QED
  BY <1>2, <1>3 DEF CreateOrResumeRun

LEMMA CommitPublishes ==
    ASSUME TypeOK, NEW t \in Token, CommitPublication(t)
    PROVE  /\ publishing[t].run \in RunId
           /\ Publishes(publishing[t].run)
           /\ \A r \in RunId : Changes(r)
<1> DEFINE n == publishing[t].run
<1>1. n \in RunId /\ InState(n, {"ready"}) /\ runs[n] \in IndexRun
  BY DEF CommitPublication, Committable, StillPublishable, InState, Exists, TypeOK
<1>2. /\ runs[n].base = generation
      /\ generation' = n
      /\ runs' = [runs EXCEPT ![n] = Released(runs[n], "committed")]
  BY DEF CommitPublication, Committable, StillPublishable
<1>3. \A p \in Project : IF p \in runs[n].scope THEN lastRun'[p] = n
                         ELSE lastRun'[p] = lastRun[p] /\ live'[p] = live[p]
  BY DEF CommitPublication
<1>4. Publishes(n)
  BY <1>1, <1>2, <1>3 DEF Publishes
<1>5. runs'[n] = Released(runs[n], "committed")
  BY <1>1, <1>2 DEF TypeOK
<1>6. Moved(n)
  BY <1>1, <1>4, <1>5, ReleasedRun
     DEF Moved, Unfinished, UnfinishedState, InState, RunState, ClaimableState
<1>7. \A r \in RunId \ {n} : runs'[r] = runs[r]
  BY <1>2 DEF TypeOK
<1>8. QED
  BY <1>1, <1>4, <1>6, <1>7 DEF Changes

\* Every step moves, collects or creates runs as above; the corpus changes
\* only when a run is published.
LEMMA StepShape ==
    ASSUME TypeOK, [Next]_vars
    PROVE  /\ \A r \in RunId : Changes(r)
           /\ UNCHANGED corpusVars \/ \E r \in RunId : Publishes(r)
<1>1. ASSUME NEW r \in RunId, NEW run \in IndexRun, Unfinished(r),
             run.base = runs[r].base, run.scope = runs[r].scope,
             run.status # "committed",
             run.status \in ClaimableState => runs[r].status \in ClaimableState,
             runs' = [runs EXCEPT ![r] = run]
      PROVE  \A s \in RunId : Changes(s)
  <2>1. Moved(r)
    <3>1. runs'[r] = run
      BY <1>1 DEF TypeOK
    <3>2. QED
      BY <1>1, <3>1 DEF Moved
  <2>2. \A s \in RunId \ {r} : runs'[s] = runs[s]
    BY <1>1 DEF TypeOK
  <2>3. QED
    BY <2>1, <2>2 DEF Changes
<1>2. ASSUME runs' = runs
      PROVE  \A r \in RunId : Changes(r)
  BY <1>2 DEF Changes
<1>3. ASSUME NEW r \in RunId, LeaseExpires(r) \/ AbandonRun(r) \/ SupersedeRun(r)
      PROVE  \A s \in RunId : Changes(s)
  <2>1. Unfinished(r) /\ runs[r] \in IndexRun
    BY <1>3 DEF LeaseExpires, AbandonRun, SupersedeRun, Unfinished, InState,
                Exists, TypeOK, UnfinishedState
  <2>2. CASE LeaseExpires(r)
    <3> DEFINE run == [runs[r] EXCEPT !.fresh = FALSE]
    <3>1. run \in IndexRun
      BY <2>1, RenewedRun
    <3>2. /\ run.base = runs[r].base
          /\ run.scope = runs[r].scope
          /\ run.status = runs[r].status
      BY <2>1 DEF IndexRun
    <3>3. run.status # "committed"
      BY <2>1, <3>2 DEF Unfinished, InState, UnfinishedState
    <3>4. QED
      BY <1>1, <2>1, <2>2, <3>1, <3>2, <3>3 DEF LeaseExpires
  <2>3. CASE AbandonRun(r)
    BY <1>1, <2>1, <2>3, ReleasedRun DEF AbandonRun, RunState, ClaimableState
  <2>4. CASE SupersedeRun(r)
    BY <1>1, <2>1, <2>4, ReleasedRun DEF SupersedeRun, RunState, ClaimableState
  <2>5. QED
    BY <1>3, <2>2, <2>3, <2>4
<1>4. ASSUME NEW keepNewest \in 0 .. MaxRunId, GcStagedRuns(keepNewest)
      PROVE  \A r \in RunId : Changes(r)
  <2>1. \A r \in Collectable(keepNewest) :
            InState(r, TerminalState) /\ \A p \in Project : lastRun[p] # r
    BY <1>4 DEF GcStagedRuns, Collectable, Referenced
  <2>2. \A r \in RunId : runs'[r] = IF r \in Collectable(keepNewest)
                                    THEN None ELSE runs[r]
    BY <1>4 DEF GcStagedRuns
  <2>3. QED
    BY <2>1, <2>2 DEF Changes, Collected
<1>5. ASSUME NEW r \in RunId, NEW t \in Token, OwnerStep(r, t)
      PROVE  \A s \in RunId : Changes(s)
  <2>1. Unfinished(r) /\ runs[r] \in IndexRun /\ runs[r].status \in ClaimableState
    BY <1>5 DEF OwnerStep, ClaimRun, Claimable, Heartbeat, PauseRun, FailRun, MarkRunReady,
                ReconcileManifest, Owns, Unfinished, InState, Exists, TypeOK,
                UnfinishedState, ClaimableState
  <2>2. /\ Renewed(runs[r]).base = runs[r].base
        /\ Renewed(runs[r]).scope = runs[r].scope
        /\ Renewed(runs[r]).status = runs[r].status
        /\ Renewed(runs[r]) \in IndexRun
    BY <2>1 DEF Renewed, IndexRun
  <2>3. CASE ClaimRun(r, t)
    <3>1. /\ Claimed(runs[r], t) \in IndexRun
          /\ Claimed(runs[r], t).base = runs[r].base
          /\ Claimed(runs[r], t).scope = runs[r].scope
          /\ Claimed(runs[r], t).status = "running"
      BY <2>1, ClaimedRun DEF Claimed, IndexRun
    <3>2. QED
      BY <1>1, <2>1, <2>3, <3>1 DEF ClaimRun, Claimable
  <2>4. CASE Heartbeat(r, t) \/ \E p \in Project, manifest \in Manifests :
                                   ReconcileManifest(r, t, p, manifest)
    <3>1. runs' = [runs EXCEPT ![r] = Renewed(runs[r])]
      BY <2>4 DEF Heartbeat, ReconcileManifest
    <3>2. Renewed(runs[r]).status # "committed"
      BY <2>1, <2>2 DEF ClaimableState
    <3>3. QED
      BY <1>1, <2>1, <2>2, <3>1, <3>2
  <2>5. CASE PauseRun(r, t)
    BY <1>1, <2>1, <2>5, ReleasedRun DEF PauseRun, RunState
  <2>6. CASE FailRun(r, t)
    BY <1>1, <2>1, <2>6, ReleasedRun DEF FailRun, RunState
  <2>7. CASE MarkRunReady(r, t)
    <3> DEFINE run == [Renewed(runs[r]) EXCEPT !.status = "ready"]
    <3>1. run \in IndexRun
      BY <2>1, RenewedRun
    <3>2. /\ run.base = runs[r].base
          /\ run.scope = runs[r].scope
          /\ run.status = "ready"
      BY <2>2 DEF IndexRun
    <3>3. QED
      BY <1>1, <2>1, <2>7, <3>1, <3>2 DEF MarkRunReady
  <2>8. QED
    BY <1>5, <2>3, <2>4, <2>5, <2>6, <2>7 DEF OwnerStep
<1>6. ASSUME NEW t \in Token, PublishStep(t)
      PROVE  /\ \A r \in RunId : Changes(r)
             /\ UNCHANGED corpusVars \/ \E r \in RunId : Publishes(r)
  <2>1. CASE CommitPublication(t)
    BY <2>1, CommitPublishes
  <2>2. CASE ~CommitPublication(t)
    BY <1>2, <1>6, <2>2
       DEF PublishStep, PreparePublication, ReportCommitted,
           RollBackPublication, journalVars, corpusVars, vars
  <2>3. QED
    BY <2>1, <2>2
<1>7. CASE RunStep
  <2>1. UNCHANGED corpusVars
    BY <1>7 DEF RunStep, CreateOrResumeRun, LeaseExpires, AbandonRun,
                SupersedeRun, GcStagedRuns
  <2>2. QED
    BY <1>3, <1>4, <1>7, <2>1, CreateChanges DEF RunStep
<1>8. ASSUME NEW r \in RunId, NEW t \in Token, OwnerStep(r, t)
      PROVE  UNCHANGED corpusVars
  BY <1>8 DEF OwnerStep, ClaimRun, Claimable, Heartbeat, PauseRun, FailRun, MarkRunReady,
              ReconcileManifest
<1>9. ASSUME NEW r \in RunId, NEW t \in Token, NEW p \in Project, NEW d \in Doc,
             DocumentStep(r, t, p, d)
      PROVE  runs' = runs /\ UNCHANGED corpusVars
  BY <1>9 DEF DocumentStep, BeginDocument, CheckpointDocument,
              CheckpointDocumentError, ResetDocumentPending, Checkpoint
<1>10. CASE UNCHANGED vars
  BY <1>2, <1>10 DEF vars, corpusVars
<1>11. QED
  BY <1>2, <1>5, <1>6, <1>7, <1>8, <1>9, <1>10 DEF Next

-----------------------------------------------------------------------------
(* The invariant.                                                          *)

\* No run is about nothing.
ScopesNonEmpty == \A r \in RunId : Exists(r) => runs[r].scope # {}

SafetyInv ==
    /\ TypeOK
    /\ ScopesNonEmpty
    /\ UnfinishedScopesDisjoint
    /\ GenerationIsNewestCommit

\* The journal hands out one id at a time.
LEMMA OneNextRunId ==
    ASSUME NEW r \in RunId, NEW s \in RunId, NextRunId(r), NextRunId(s)
    PROVE  r = s
<1>1. r \in Nat /\ s \in Nat /\ r >= 1 /\ s >= 1
  BY ConstantsAssumption DEF RunId
<1>2. r > 1 => r - 1 < s
  BY <1>1, ConstantsAssumption DEF NextRunId, RunId
<1>3. s > 1 => s - 1 < r
  BY <1>1, ConstantsAssumption DEF NextRunId, RunId
<1>4. QED
  BY <1>1, <1>2, <1>3

LEMMA NewRunFields ==
    ASSUME NEW S \in SUBSET Project, NEW c \in Config, generation \in 0 .. MaxRunId
    PROVE  /\ NewRun(S, c) \in IndexRun
           /\ NewRun(S, c).status = "planning"
           /\ NewRun(S, c).base = generation
           /\ NewRun(S, c).scope = S
BY DEF NewRun, IndexRun, RunState

LEMMA ScopesStayNonEmpty ==
    ASSUME TypeOK, ScopesNonEmpty, \A r \in RunId : Changes(r)
    PROVE  ScopesNonEmpty'
<1>1. ASSUME NEW r \in RunId, runs'[r] # None
      PROVE  runs'[r].scope # {}
  <2>1. CASE Created(r)
    <3>1. PICK S \in (SUBSET Project) \ {{}}, c \in Config : runs'[r] = NewRun(S, c)
      BY <2>1 DEF Created
    <3>2. NewRun(S, c).scope = S
      BY DEF NewRun
    <3>3. QED
      BY <3>1, <3>2
  <2>2. CASE ~Created(r)
    BY <1>1, <2>2 DEF Changes, Moved, Collected, ScopesNonEmpty, Unfinished,
                      InState, Exists
  <2>3. QED
    BY <2>1, <2>2
<1>2. QED
  BY <1>1 DEF ScopesNonEmpty, Exists

LEMMA ScopesStayDisjoint ==
    ASSUME TypeOK, UnfinishedScopesDisjoint, \A r \in RunId : Changes(r)
    PROVE  UnfinishedScopesDisjoint'
\* A run unfinished after the step was so before it, with the same scope, or is
\* the one created, and then every run it overlaps is superseded.
<1>1. ASSUME NEW r \in RunId, ~Created(r), Unfinished(r)'
      PROVE  Unfinished(r) /\ runs'[r].scope = runs[r].scope
  BY <1>1 DEF Changes, Moved, Collected, Unfinished, InState, Exists
<1>2. ASSUME NEW r \in RunId, NEW s \in RunId, Created(r), ~Created(s),
             Unfinished(s)'
      PROVE  runs'[r].scope \cap runs'[s].scope = {}
  <2>1. PICK S \in (SUBSET Project) \ {{}}, c \in Config :
            /\ runs'[r] = NewRun(S, c)
            /\ \A x \in Overlapping(S) : runs'[x].status = "superseded"
    BY <1>2 DEF Created
  <2>2. runs'[r].scope = S
    BY <2>1, NewRunFields DEF TypeOK
  <2>3. s \notin Overlapping(S)
    BY <1>2, <2>1 DEF Unfinished, InState, UnfinishedState
  <2>4. QED
    BY <1>1, <1>2, <2>2, <2>3 DEF Overlapping
<1>3. ASSUME NEW r \in RunId, NEW s \in RunId, Unfinished(r)', Unfinished(s)',
             runs'[r].scope \cap runs'[s].scope # {}
      PROVE  r = s
  <2>1. CASE Created(r) /\ Created(s)
    BY <2>1, OneNextRunId DEF Created
  <2>2. CASE Created(r) /\ ~Created(s)
    BY <1>2, <1>3, <2>2
  <2>3. CASE ~Created(r) /\ Created(s)
    BY <1>2, <1>3, <2>3
  <2>4. CASE ~Created(r) /\ ~Created(s)
    BY <1>1, <1>3, <2>4 DEF UnfinishedScopesDisjoint
  <2>5. QED
    BY <2>1, <2>2, <2>3, <2>4
<1>4. QED
  BY <1>3 DEF UnfinishedScopesDisjoint

\* Publishing moves the generation to a larger id, that of the run.
LEMMA PublishingGrows ==
    ASSUME TypeOK, GenerationIsNewestCommit, NEW r \in RunId, Publishes(r)
    PROVE  /\ generation' = r
           /\ generation < generation'
BY DEF Publishes, GenerationIsNewestCommit, Unfinished, InState, UnfinishedState

LEMMA GenerationStaysNewest ==
    ASSUME TypeOK, ScopesNonEmpty, GenerationIsNewestCommit,
           \A r \in RunId : Changes(r),
           UNCHANGED corpusVars \/ \E r \in RunId : Publishes(r)
    PROVE  GenerationIsNewestCommit'
<1>1. generation \in Nat /\ generation' \in Nat /\ generation <= generation'
  BY PublishingGrows, ConstantsAssumption DEF corpusVars, TypeOK, RunId
<1>2. ASSUME NEW r \in RunId, NextRunId(r)
      PROVE  generation < r
  <2>1. CASE generation = 0
    BY <2>1, ConstantsAssumption DEF RunId
  <2>2. CASE generation # 0
    <3>1. Exists(generation) /\ generation \in RunId
      BY <2>2, ConstantsAssumption
         DEF GenerationIsNewestCommit, InState, TypeOK, RunId
    <3>2. QED
      BY <1>2, <3>1 DEF NextRunId
  <2>3. QED
    BY <2>1, <2>2
<1>3. ASSUME NEW r \in RunId, Created(r)
      PROVE  /\ ~InState(r, {"committed"})'
             /\ runs'[r].base = generation
             /\ generation < r
  BY <1>2, <1>3, NewRunFields DEF Created, InState, TypeOK
<1>4. ASSUME NEW r \in RunId, InState(r, {"committed"})'
      PROVE  r <= generation'
  <2>1. ~Created(r)
    BY <1>3, <1>4
  <2>2. CASE runs'[r] = runs[r]
    <3>1. r <= generation
      BY <1>4, <2>2 DEF GenerationIsNewestCommit, InState, Exists
    <3>2. QED
      BY <1>1, <3>1 DEF RunId
  <2>3. CASE Moved(r)
    <3>1. generation' = r
      BY <1>4, <2>3 DEF Moved, Publishes, InState
    <3>2. QED
      BY <3>1 DEF RunId
  <2>4. QED
    BY <1>4, <2>1, <2>2, <2>3 DEF Changes, Collected, InState, Exists
<1>5. ASSUME NEW r \in RunId, Unfinished(r)'
      PROVE  runs'[r].base <= generation' /\ runs'[r].base < r
  <2>1. CASE Created(r)
    BY <1>1, <1>3, <2>1
  <2>2. CASE ~Created(r)
    <3>1. Unfinished(r) /\ runs'[r].base = runs[r].base
      BY <1>5, <2>2 DEF Changes, Moved, Collected, Unfinished, InState, Exists
    <3>2. runs[r].base \in Nat
      BY <3>1, ConstantsAssumption
         DEF Unfinished, InState, Exists, TypeOK, IndexRun
    <3>3. runs[r].base <= generation /\ runs[r].base < r
      BY <3>1 DEF GenerationIsNewestCommit
    <3>4. QED
      BY <1>1, <3>1, <3>2, <3>3
  <2>3. QED
    BY <2>1, <2>2
<1>6. ASSUME generation' # 0
      PROVE  /\ InState(generation, {"committed"})'
             /\ \E p \in Project : lastRun'[p] = generation'
  <2>1. ASSUME NEW r \in RunId, Publishes(r)
        PROVE  /\ InState(generation, {"committed"})'
               /\ \E p \in Project : lastRun'[p] = generation'
    <3>1. runs[r] \in IndexRun /\ runs[r].scope # {}
      BY <2>1 DEF Publishes, InState, Exists, TypeOK, ScopesNonEmpty
    <3>2. runs'[r] = Released(runs[r], "committed")
      BY <2>1 DEF Publishes, TypeOK
    <3>3. runs'[r] # None /\ runs'[r].status = "committed"
      BY <3>1, <3>2, ReleasedRun, NoneAssumption DEF RunState
    <3>4. \E p \in Project : p \in runs[r].scope
      BY <3>1 DEF IndexRun
    <3>5. QED
      BY <2>1, <3>3, <3>4 DEF Publishes, InState, Exists
  <2>2. CASE UNCHANGED corpusVars
    <3>1. /\ generation \in RunId
          /\ InState(generation, {"committed"})
          /\ \E p \in Project : lastRun[p] = generation
      BY <1>6, <2>2, ConstantsAssumption
         DEF corpusVars, GenerationIsNewestCommit, TypeOK, RunId
    <3>2. ~Moved(generation) /\ ~Collected(generation) /\ ~Created(generation)
      BY <1>2, <3>1, ConstantsAssumption
         DEF Moved, Collected, Created, Unfinished, InState, UnfinishedState,
             RunId
    <3>3. runs'[generation] = runs[generation]
      BY <3>1, <3>2 DEF Changes
    <3>4. QED
      BY <2>2, <3>1, <3>3 DEF corpusVars, InState, Exists
  <2>3. QED
    BY <2>1, <2>2
<1>7. QED
  BY <1>4, <1>5, <1>6 DEF GenerationIsNewestCommit

LEMMA SafetyInvariant == Spec => [](SchemaInv /\ SafetyInv)
<1>1. Init => SafetyInv
  BY InitTypeOK DEF Init, SafetyInv, ScopesNonEmpty, UnfinishedScopesDisjoint,
                    GenerationIsNewestCommit, Exists, Unfinished, InState
<1>2. SchemaInv /\ SafetyInv /\ [Next]_vars => SafetyInv'
  BY NextTypeOK, StepShape, ScopesStayNonEmpty, ScopesStayDisjoint,
     GenerationStaysNewest DEF SafetyInv, SchemaInv
<1>3. QED
  BY <1>1, <1>2, SchemaInvariant, PTL DEF Spec

\* Two unfinished runs never select the same project.
THEOREM ScopesDisjoint == Spec => []UnfinishedScopesDisjoint
<1>1. SafetyInv => UnfinishedScopesDisjoint
  BY DEF SafetyInv
<1>2. QED
  BY <1>1, SafetyInvariant, PTL

\* The generation is the id of a committed run that still exists, and whatever
\* can still be published has a larger one, though ids are reused.
THEOREM GenerationNewest == Spec => []GenerationIsNewestCommit
<1>1. SafetyInv => GenerationIsNewestCommit
  BY DEF SafetyInv
<1>2. QED
  BY <1>1, SafetyInvariant, PTL

\* No publication moves the generation backwards or leaves it in place.
THEOREM GenerationsGrow == Spec => GenerationGrows
<1>1. SafetyInv /\ [Next]_vars => [generation' > generation]_generation
  <2> SUFFICES ASSUME SafetyInv, [Next]_vars, generation' # generation
               PROVE  generation' > generation
    OBVIOUS
  <2>1. PICK r \in RunId : Publishes(r)
    BY StepShape DEF SafetyInv, corpusVars
  <2>2. generation < generation' /\ generation \in Nat /\ generation' \in Nat
    BY <2>1, PublishingGrows, ConstantsAssumption DEF SafetyInv, TypeOK, RunId
  <2>3. QED
    BY <2>2
<1>2. QED
  BY <1>1, SafetyInvariant, PTL DEF Spec, GenerationGrows

\* A finished run is left alone until it is collected.
THEOREM FinishedStays == Spec => FinishedRunsStayFinished
<1>1. SafetyInv /\ [Next]_vars =>
          [\A r \in RunId : InState(r, TerminalState)
                                => runs'[r] \in {runs[r], None}]_runs
  <2> SUFFICES ASSUME SafetyInv, [Next]_vars, NEW r \in RunId,
                      InState(r, TerminalState)
               PROVE  runs'[r] \in {runs[r], None}
    OBVIOUS
  <2>1. Changes(r)
    BY StepShape DEF SafetyInv
  <2>2. ~Moved(r)
    BY DEF Moved, Unfinished, InState, UnfinishedState, TerminalState
  <2>3. ~Created(r)
    BY DEF Created, NextRunId, InState, RunId
  <2>4. QED
    BY <2>1, <2>2, <2>3 DEF Changes, Collected
<1>2. QED
  BY <1>1, SafetyInvariant, PTL DEF Spec, FinishedRunsStayFinished

-----------------------------------------------------------------------------
(* What a publisher read before its transaction.                           *)

\* t may publish r.
Entitled(r, t) == InState(r, {"ready"}) /\ runs[r].owner = t

\* Whoever is entitled after a step was so before it, over the same staged
\* rows, unless it made the step itself.
StaysEntitled(r) ==
    \A t \in Token :
        Entitled(r, t)' => \/ Idle(t)
                           \/ Entitled(r, t) /\ staged'[r] = staged[r]

LEMMA StaysEntitledIf ==
    ASSUME NEW r \in RunId,
           \/ runs'[r] = runs[r] /\ staged'[r] = staged[r]
           \/ runs'[r] = None
           \/ runs'[r].status # "ready"
    PROVE  StaysEntitled(r)
BY DEF StaysEntitled, Entitled, InState, Exists

LEMMA OwnerStepEntitled ==
    ASSUME TypeOK, NEW r \in RunId, NEW t \in Token, OwnerStep(r, t)
    PROVE  StaysEntitled(r)
<1>1. runs[r] \in IndexRun
  BY DEF OwnerStep, ClaimRun, Claimable, Heartbeat, PauseRun, FailRun, MarkRunReady,
         ReconcileManifest, Owns, InState, Exists, TypeOK
<1>2. CASE ClaimRun(r, t)
  <2>1. runs'[r] = Claimed(runs[r], t)
    BY <1>2 DEF ClaimRun, Claimable, TypeOK
  <2>2. Claimed(runs[r], t).status = "running"
    BY <1>1 DEF Claimed, IndexRun
  <2>3. QED
    BY <2>1, <2>2, StaysEntitledIf
<1>3. CASE Heartbeat(r, t) \/ \E p \in Project, manifest \in Manifests :
                                 ReconcileManifest(r, t, p, manifest)
  <2>1. runs'[r] = Renewed(runs[r]) /\ runs[r].status = "running"
    BY <1>3 DEF Heartbeat, ReconcileManifest, Owns, InState, TypeOK
  <2>2. Renewed(runs[r]).status = runs[r].status
    BY <1>1 DEF Renewed, IndexRun
  <2>3. QED
    BY <2>1, <2>2, StaysEntitledIf
<1>4. CASE PauseRun(r, t) \/ FailRun(r, t)
  <2>1. runs'[r] \in {Released(runs[r], "paused"), Released(runs[r], "failed")}
    BY <1>4 DEF PauseRun, FailRun, TypeOK
  <2>2. runs'[r].status \in {"paused", "failed"}
    BY <1>1, <2>1, ReleasedRun DEF RunState
  <2>3. QED
    BY <2>2, StaysEntitledIf
<1>5. CASE MarkRunReady(r, t)
  <2>1. /\ runs'[r] = [Renewed(runs[r]) EXCEPT !.status = "ready"]
        /\ runs[r].owner = t
        /\ Idle(t)
    BY <1>5 DEF MarkRunReady, Owns, TypeOK
  <2>2. [Renewed(runs[r]) EXCEPT !.status = "ready"].owner = runs[r].owner
    BY <1>1 DEF Renewed, IndexRun
  <2>3. runs'[r].owner = t
    BY <2>1, <2>2
  <2>4. QED
    BY <2>1, <2>3 DEF StaysEntitled, Entitled
<1>6. QED
  BY <1>2, <1>3, <1>4, <1>5 DEF OwnerStep

LEMMA EntitlementKept ==
    ASSUME TypeOK, [Next]_vars
    PROVE  \A r \in RunId : StaysEntitled(r)
<1>1. ASSUME NEW S \in SUBSET Project, NEW c \in Config,
             NEW forceNew \in BOOLEAN, CreateOrResumeRun(S, c, forceNew),
             NEW r \in RunId
      PROVE  StaysEntitled(r)
  <2>1. \/ runs'[r] = runs[r]
        \/ r \in Overlapping(S) /\ runs'[r] = Released(runs[r], "superseded")
        \/ runs'[r] = NewRun(S, c)
    BY <1>1 DEF CreateOrResumeRun
  <2>2. r \in Overlapping(S) => Released(runs[r], "superseded").status # "ready"
    BY ReleasedRun DEF Overlapping, Unfinished, InState, Exists, TypeOK, RunState
  <2>3. NewRun(S, c).status # "ready"
    BY DEF NewRun
  <2>4. staged' = staged
    BY <1>1 DEF CreateOrResumeRun
  <2>5. QED
    BY <2>1, <2>2, <2>3, <2>4, StaysEntitledIf
<1>2. ASSUME NEW r \in RunId, LeaseExpires(r) \/ AbandonRun(r) \/ SupersedeRun(r)
      PROVE  StaysEntitled(r)
  <2>1. runs[r] \in IndexRun
    BY <1>2 DEF LeaseExpires, AbandonRun, SupersedeRun, Unfinished, InState,
                Exists, TypeOK
  <2>2. CASE LeaseExpires(r)
    <3>1. /\ runs[r].status = "running"
          /\ runs'[r] = [runs[r] EXCEPT !.fresh = FALSE]
      BY <2>2 DEF LeaseExpires, InState, TypeOK
    <3>2. runs'[r].status # "ready"
      BY <2>1, <3>1 DEF IndexRun
    <3>3. QED
      BY <3>2, StaysEntitledIf
  <2>3. CASE AbandonRun(r) \/ SupersedeRun(r)
    <3>1. runs'[r] \in {Released(runs[r], "abandoned"),
                        Released(runs[r], "superseded")}
      BY <2>3 DEF AbandonRun, SupersedeRun, TypeOK
    <3>2. runs'[r].status # "ready"
      BY <2>1, <3>1, ReleasedRun DEF RunState
    <3>3. QED
      BY <3>2, StaysEntitledIf
  <2>4. QED
    BY <1>2, <2>2, <2>3
<1>3. ASSUME NEW r \in RunId, NEW s \in RunId \ {r},
             \/ LeaseExpires(r) \/ AbandonRun(r) \/ SupersedeRun(r)
             \/ \E t \in Token : OwnerStep(r, t)
      PROVE  StaysEntitled(s)
  <2>1. runs'[s] = runs[s] /\ staged'[s] = staged[s]
    BY <1>3 DEF LeaseExpires, AbandonRun, SupersedeRun, OwnerStep, ClaimRun, Claimable,
                Heartbeat, PauseRun, FailRun, MarkRunReady, ReconcileManifest,
                TypeOK
  <2>2. QED
    BY <2>1, StaysEntitledIf
<1>4. ASSUME NEW keepNewest \in 0 .. MaxRunId, GcStagedRuns(keepNewest),
             NEW r \in RunId
      PROVE  StaysEntitled(r)
  BY <1>4, StaysEntitledIf DEF GcStagedRuns
<1>5. ASSUME NEW r \in RunId, NEW t \in Token, NEW p \in Project, NEW d \in Doc,
             DocumentStep(r, t, p, d), NEW s \in RunId
      PROVE  StaysEntitled(s)
  <2>1. PICK from, row : Checkpoint(r, t, p, d, from, row)
    BY <1>5 DEF DocumentStep, BeginDocument, CheckpointDocument,
                CheckpointDocumentError, ResetDocumentPending
  <2>2. /\ runs' = runs
        /\ runs[r].status = "running"
        /\ s # r => staged'[s] = staged[s]
    BY <2>1 DEF Checkpoint, Owns, InState, TypeOK
  <2>3. QED
    BY <2>2, StaysEntitledIf
<1>6. ASSUME NEW t \in Token, CommitPublication(t), NEW s \in RunId
      PROVE  StaysEntitled(s)
  <2> DEFINE r == publishing[t].run
  <2>1. r \in RunId /\ runs[r] \in IndexRun
    BY <1>6 DEF CommitPublication, Committable, StillPublishable, InState, Exists, TypeOK
  <2>2. /\ runs' = [runs EXCEPT ![r] = Released(runs[r], "committed")]
        /\ staged' = staged
    BY <1>6 DEF CommitPublication
  <2>3. runs'[r].status # "ready"
    BY <2>1, <2>2, ReleasedRun DEF RunState, TypeOK
  <2>4. s # r => runs'[s] = runs[s]
    BY <2>2 DEF TypeOK
  <2>5. QED
    BY <2>2, <2>3, <2>4, StaysEntitledIf
<1>7. ASSUME runs' = runs, staged' = staged
      PROVE  \A r \in RunId : StaysEntitled(r)
  BY <1>7, StaysEntitledIf
<1>8. CASE RunStep
  BY <1>1, <1>2, <1>3, <1>4, <1>8 DEF RunStep
<1>9. CASE \E r \in RunId, t \in Token : OwnerStep(r, t)
  BY <1>3, <1>9, OwnerStepEntitled
<1>10. CASE \E t \in Token : PublishStep(t)
  BY <1>6, <1>7, <1>10
     DEF PublishStep, PreparePublication, ReportCommitted, RollBackPublication,
         journalVars, vars
<1>11. QED
  BY <1>5, <1>7, <1>8, <1>9, <1>10 DEF Next, vars

\* What one step can do to a call of publish_run.
LEMMA PublishingChanges ==
    ASSUME TypeOK, [Next]_vars, NEW t \in Token
    PROVE  \/ publishing'[t] = publishing[t]
           \/ publishing'[t] = None
           \/ /\ staged' = staged
              /\ publishing'[t].documents = staged[publishing'[t].run]
<1>1. ASSUME NEW u \in Token, NEW r \in RunId, PreparePublication(r, u), t = u
      PROVE  /\ staged' = staged
             /\ publishing'[t].documents = staged[publishing'[t].run]
  BY <1>1 DEF PreparePublication, journalVars, TypeOK
<1>2. ASSUME NEW u \in Token, NEW r \in RunId, PreparePublication(r, u), t # u
      PROVE  publishing'[t] = publishing[t]
  BY <1>2 DEF PreparePublication, TypeOK
<1>3. ASSUME NEW u \in Token, CommitPublication(u) \/ RollBackPublication(u)
      PROVE  publishing'[t] = publishing[t] \/ publishing'[t] = None
  BY <1>3 DEF CommitPublication, RollBackPublication, TypeOK
<1>4. CASE RunStep
  BY <1>4 DEF RunStep, CreateOrResumeRun, LeaseExpires, AbandonRun,
              SupersedeRun, GcStagedRuns
<1>5. ASSUME NEW r \in RunId, NEW u \in Token, OwnerStep(r, u)
      PROVE  publishing'[t] = publishing[t]
  BY <1>5 DEF OwnerStep, ClaimRun, Claimable, Heartbeat, PauseRun, FailRun,
              MarkRunReady, ReconcileManifest
<1>6. ASSUME NEW r \in RunId, NEW u \in Token, NEW p \in Project, NEW d \in Doc,
             DocumentStep(r, u, p, d)
      PROVE  publishing'[t] = publishing[t]
  BY <1>6 DEF DocumentStep, BeginDocument, CheckpointDocument,
              CheckpointDocumentError, ResetDocumentPending, Checkpoint
<1>7. QED
  BY <1>1, <1>2, <1>3, <1>4, <1>5, <1>6
     DEF Next, PublishStep, ReportCommitted, vars

LEMMA PreparedStaysCurrent ==
    ASSUME TypeOK, PreparedDocumentsCurrent, [Next]_vars
    PROVE  PreparedDocumentsCurrent'
<1> SUFFICES ASSUME NEW t \in Token, NEW r, publishing'[t] # None,
                    r = publishing'[t].run, Entitled(r, t)'
             PROVE  publishing'[t].documents = staged'[r]
  BY DEF PreparedDocumentsCurrent, Entitled
<1>1. CASE publishing'[t] = publishing[t]
  <2>1. ~Idle(t) /\ r \in RunId
    BY <1>1 DEF Idle, TypeOK
  <2>2. Entitled(r, t) /\ staged'[r] = staged[r]
    BY <2>1, EntitlementKept DEF StaysEntitled
  <2>3. QED
    BY <1>1, <2>2 DEF PreparedDocumentsCurrent, Entitled
<1>2. QED
  BY <1>1, PublishingChanges

\* As long as a publisher may still commit, the documents it decoded before its
\* transaction are the staged ones, whatever other callers did in between.
THEOREM PreparedCurrent == Spec => []PreparedDocumentsCurrent
<1>1. Init => PreparedDocumentsCurrent
  BY DEF Init, PreparedDocumentsCurrent
<1>2. SchemaInv /\ PreparedDocumentsCurrent /\ [Next]_vars
          => PreparedDocumentsCurrent'
  BY PreparedStaysCurrent DEF SchemaInv
<1>3. QED
  BY <1>1, <1>2, SchemaInvariant, PTL DEF Spec


-----------------------------------------------------------------------------
(* One configuration for everything live.                                  *)

LEMMA OneConfigurationStays ==
    ASSUME SafetyInv, OneConfiguration, [Next]_vars
    PROVE  OneConfiguration'
<1> USE DEF SafetyInv
<1>1. ASSUME NEW r \in RunId, InState(r, {"committed"})', ~Publishes(r)
      PROVE  /\ InState(r, {"committed"})
             /\ runs'[r] = runs[r]
  <2>1. Changes(r)
    BY StepShape
  <2>2. ~Moved(r)
    BY <1>1 DEF Moved, InState
  <2>3. ~Created(r)
    BY <1>1, NewRunFields DEF Created, InState, TypeOK
  <2>4. ~Collected(r)
    BY <1>1 DEF Collected, InState, Exists
  <2>5. QED
    BY <1>1, <2>1, <2>2, <2>3, <2>4 DEF Changes, InState, Exists
<1>2. CASE UNCHANGED corpusVars
  <2>1. \A r \in RunId : ~Publishes(r)
    BY <1>2, PublishingGrows, ConstantsAssumption DEF corpusVars, TypeOK, RunId
  <2>2. QED
    BY <1>1, <1>2, <2>1 DEF corpusVars, OneConfiguration
<1>3. ASSUME NEW n \in RunId, Publishes(n)
      PROVE  OneConfiguration'
  <2> DEFINE c == runs[n].config
             scope == runs[n].scope
  <2>1. runs[n] \in IndexRun /\ c \in Config /\ scope \subseteq Project
    BY <1>3 DEF Publishes, InState, Exists, TypeOK, IndexRun
  <2>2. /\ AcceptsConfig(c, scope)
        /\ settings' = SettingsOf[c]
        /\ locator' = [p \in Project |-> IF p \in scope THEN LocatorOf[c][p]
                                                        ELSE locator[p]]
    BY <1>3 DEF Publishes, CommitPublication, Committable
  <2>3. runs'[n].config = c /\ runs'[n].scope = scope
    <3>1. runs'[n] = Released(runs[n], "committed")
      BY <1>3 DEF Publishes, TypeOK
    <3>2. QED
      BY <2>1, <3>1, ReleasedRun DEF RunState
  <2>4. ASSUME NEW r \in RunId, r # n, InState(r, {"committed"})'
        PROVE  /\ settings' = SettingsOf[runs'[r].config]
               /\ \A p \in runs'[r].scope :
                      locator'[p] = LocatorOf[runs'[r].config][p]
    <3>1. ~Publishes(r)
      BY <1>3, <2>4 DEF Publishes
    <3>2. /\ InState(r, {"committed"})
          /\ runs'[r] = runs[r]
      BY <1>1, <2>4, <3>1
    <3>3. /\ runs[r] \in IndexRun
          /\ runs[r].config \in Config
          /\ runs[r].scope \subseteq Project
      BY <3>2 DEF InState, Exists, TypeOK, IndexRun
    <3>4. /\ settings = SettingsOf[runs[r].config]
          /\ \A p \in runs[r].scope : locator[p] = LocatorOf[runs[r].config][p]
      BY <3>2 DEF OneConfiguration
    <3>5. settings # None /\ \A p \in runs[r].scope : locator[p] # None
      BY <3>3, <3>4, NoneAssumption
    <3>6. settings' = settings /\ \A p \in runs[r].scope : locator'[p] = locator[p]
      BY <2>2, <3>3, <3>5 DEF AcceptsConfig
    <3>7. QED
      BY <3>2, <3>4, <3>6
  <2>5. QED
    BY <2>1, <2>2, <2>3, <2>4 DEF OneConfiguration
<1>4. QED
  BY <1>2, <1>3, StepShape

\* No committed run disagrees with the settings and locators that the first
\* publication fixed, whatever configurations callers run with.
THEOREM ConfigurationIsOne == Spec => []OneConfiguration
<1>1. Init => OneConfiguration
  BY DEF Init, OneConfiguration, InState, Exists
<1>2. SafetyInv /\ OneConfiguration /\ [Next]_vars => OneConfiguration'
  BY OneConfigurationStays
<1>3. QED
  BY <1>1, <1>2, SafetyInvariant, PTL DEF Spec

-----------------------------------------------------------------------------
(* Digests and the rows they describe.                                     *)

\* What a digest sees of a row.
SameWork(row, other) ==
    /\ row = None <=> other = None
    /\ row # None => /\ other.obs = row.obs
                     /\ other.action = row.action
                     /\ other.payload = row.payload

LEMMA SameDigest ==
    ASSUME NEW rows, NEW others, \A d \in Doc : SameWork(rows[d], others[d])
    PROVE  DigestOf(others) = DigestOf(rows)
BY DEF SameWork, DigestOf, Fingerprint

\* A takeover changes no row in a way that a digest could tell.
LEMMA RequeuedIsSameWork ==
    ASSUME NEW row \in StagedDocument \cup {None}
    PROVE  SameWork(row, Requeued(row))
<1>1. CASE row # None /\ row.state \in {"processing", "error"}
  <2>1. Requeued(row) = [row EXCEPT !.state = "pending"]
    BY <1>1 DEF Requeued
  <2>2. Requeued(row) \in StagedDocument
    BY <1>1, <2>1 DEF StagedDocument, DocumentState
  <2>3. /\ Requeued(row).obs = row.obs
        /\ Requeued(row).action = row.action
        /\ Requeued(row).payload = row.payload
    BY <1>1, <2>1 DEF StagedDocument
  <2>4. QED
    BY <1>1, <2>2, <2>3, NoneAssumption DEF SameWork
<1>2. CASE ~(row # None /\ row.state \in {"processing", "error"})
  BY <1>2 DEF Requeued, SameWork
<1>3. QED
  BY <1>1, <1>2

\* What a refresh leaves staged is what the digest of its manifest says.
LEMMA DigestOfReconciled ==
    ASSUME NEW rows, NEW manifest \in Manifest
    PROVE  DigestOf(Reconciled(rows, manifest)) = ManifestDigest(manifest)
<1> DEFINE after == Reconciled(rows, manifest)
<1>1. \A d \in Doc : after[d] = ReconciledRow(rows[d], manifest[d])
  BY DEF Reconciled
<1>2. ASSUME NEW d \in Doc, manifest[d] = None
      PROVE  after[d] = None \/ after[d].action = "delete"
  BY <1>1, <1>2 DEF ReconciledRow, IsDeletion, StagedDeletion
<1>3. ASSUME NEW d \in Doc, manifest[d] # None
      PROVE  /\ after[d] # None
             /\ after[d].action = manifest[d].action
             /\ after[d].obs.path = manifest[d].obs.path
             /\ Fingerprint(after[d]) = manifest[d].obs
  <2>1. manifest[d] \in ManifestDocument
    BY <1>3 DEF Manifest
  <2>2. Restaged(manifest[d]) # None
    BY <2>1, RestagedRow, NoneAssumption
  <2>3. CASE Keeps(rows[d], manifest[d])
    BY <1>1, <1>3, <2>3 DEF ReconciledRow, Keeps
  <2>4. CASE ~Keeps(rows[d], manifest[d])
    <3>1. after[d] = Restaged(manifest[d])
      BY <1>1, <1>3, <2>4 DEF ReconciledRow
    <3>2. QED
      BY <2>2, <3>1 DEF Restaged, Fingerprint
  <2>5. QED
    BY <2>3, <2>4
<1>4. QED
  BY <1>2, <1>3 DEF DigestOf, ManifestDigest

\* Some row carries a payload that was extracted from another observation.
Overtaken(rows) ==
    \E d \in Doc : rows[d] # None /\ rows[d].payload \notin {None, rows[d].obs}

Described(r, p) ==
    digest[r][p] # None =>
        digest[r][p] = DigestOf(staged[r][p]) \/ Overtaken(staged[r][p])

LEMMA StagedIsNested ==
    TypeOK => staged \in [RunId -> [Project -> [Doc -> StagedDocument \cup {None}]]]
BY DEF TypeOK, StagedDocuments

LEMMA DescribedIsDigest == DigestDescribesRows <=> \A r \in RunId, p \in Project : Described(r, p)
BY DEF DigestDescribesRows, Described, Overtaken

LEMMA SameWorkDescribed ==
    ASSUME NEW r \in RunId, NEW p \in Project, Described(r, p),
           digest'[r][p] = digest[r][p],
           \A d \in Doc : SameWork(staged[r][p][d], staged'[r][p][d])
    PROVE  Described(r, p)'
<1>1. DigestOf(staged'[r][p]) = DigestOf(staged[r][p])
  BY SameDigest
<1>2. Overtaken(staged[r][p]) => Overtaken(staged'[r][p])
  BY DEF Overtaken, SameWork
<1>3. QED
  BY <1>1, <1>2 DEF Described

LEMMA CheckpointDescribed ==
    ASSUME SchemaInv, NEW r \in RunId, NEW t \in Token, NEW p \in Project,
           NEW d \in Doc, Described(r, p), DocumentStep(r, t, p, d)
    PROVE  Described(r, p)'
<1> USE DEF SchemaInv
<1> DEFINE row == staged[r][p][d]
<1>1. /\ row # None
      /\ row \in StagedDocument
      /\ row.state \in {"pending", "processing"}
      /\ digest' = digest
  <2>1. /\ row # None
        /\ row.state \in {"pending", "processing"}
        /\ digest' = digest
    BY DEF DocumentStep, BeginDocument, CheckpointDocument,
           CheckpointDocumentError, ResetDocumentPending, Checkpoint
  <2>2. row \in StagedDocument
    BY <2>1 DEF TypeOK, StagedDocuments
  <2>3. QED
    BY <2>1, <2>2
<1>2. row.payload = None
  BY <1>1 DEF RowsSatisfySchema, WellFormedRow
<1>3. ASSUME NEW next \in StagedDocument, next.obs = row.obs, next.action = row.action,
             staged' = [staged EXCEPT ![r][p][d] = next],
             next.payload # None => next.payload = row.obs
      PROVE  Described(r, p)'
  <2>1. staged'[r][p] = [staged[r][p] EXCEPT ![d] = next]
    BY <1>3, StagedIsNested
  <2>2. next # None
    BY NoneAssumption
  <2>3. DigestOf(staged'[r][p]) = DigestOf(staged[r][p])
    BY <1>1, <1>2, <1>3, <2>1, <2>2 DEF DigestOf, Fingerprint, TypeOK, StagedDocuments
  <2>4. Overtaken(staged[r][p]) => Overtaken(staged'[r][p])
    BY <1>2, <2>1 DEF Overtaken, TypeOK, StagedDocuments
  <2>5. QED
    BY <1>1, <2>3, <2>4 DEF Described
<1>4. ASSUME NEW state \in DocumentState,
             staged' = [staged EXCEPT ![r][p][d] = [row EXCEPT !.state = state]]
      PROVE  Described(r, p)'
  <2>1. /\ [row EXCEPT !.state = state] \in StagedDocument
        /\ [row EXCEPT !.state = state].obs = row.obs
        /\ [row EXCEPT !.state = state].action = row.action
        /\ [row EXCEPT !.state = state].payload = None
    BY <1>1, <1>2 DEF StagedDocument
  <2>2. QED
    BY <1>3, <1>4, <2>1
<1>5. ASSUME NEW payload \in Payloads, CheckpointDocument(r, t, p, d, payload)
      PROVE  Described(r, p)'
  <2> DEFINE next == [row EXCEPT !.state = "ready", !.payload = payload]
  <2>1. payload \in Observation /\ payload # None
    BY ConstantsAssumption, NoneAssumption
  <2>2. /\ next \in StagedDocument
        /\ next.obs = row.obs
        /\ next.action = row.action
        /\ next.payload = payload
    BY <1>1, <2>1 DEF StagedDocument, DocumentState
  <2>3. staged' = [staged EXCEPT ![r][p][d] = next]
    BY <1>5 DEF CheckpointDocument, Checkpoint
  <2>4. CASE payload = row.obs
    BY <1>3, <2>2, <2>3, <2>4
  <2>5. CASE payload # row.obs
    <3>1. staged'[r][p][d] = next
      BY <2>3, StagedIsNested
    <3>2. Overtaken(staged'[r][p])
      BY <2>1, <2>2, <2>5, <3>1, NoneAssumption DEF Overtaken
    <3>3. QED
      BY <3>2 DEF Described
  <2>6. QED
    BY <2>4, <2>5
<1>6. QED
  BY <1>4, <1>5 DEF DocumentStep, BeginDocument, CheckpointDocumentError,
                    ResetDocumentPending, Checkpoint, DocumentState

LEMMA DigestStaysTrue ==
    ASSUME SchemaInv, DigestDescribesRows, [Next]_vars
    PROVE  DigestDescribesRows'
<1> USE DEF SchemaInv
<1>1. \A r \in RunId, p \in Project : Described(r, p)
  BY DescribedIsDigest
<1>2. ASSUME NEW r \in RunId, NEW p \in Project, staged'[r][p] = staged[r][p],
             digest'[r][p] = digest[r][p]
      PROVE  Described(r, p)'
  BY <1>1, <1>2, SameWorkDescribed DEF SameWork
<1>3. ASSUME NEW r \in RunId, NEW t \in Token, ClaimRun(r, t),
             NEW s \in RunId, NEW p \in Project
      PROVE  Described(s, p)'
  <2>1. /\ digest' = digest
        /\ \A d \in Doc : staged'[s][p][d] = IF s = r THEN Requeued(staged[s][p][d])
                                                      ELSE staged[s][p][d]
    BY <1>3, StagedIsNested DEF ClaimRun
  <2>2. \A d \in Doc : SameWork(staged[s][p][d], staged'[s][p][d])
    BY <2>1, RequeuedIsSameWork, StagedIsNested DEF SameWork
  <2>3. QED
    BY <1>1, <2>1, <2>2, SameWorkDescribed
<1>4. ASSUME NEW r \in RunId, NEW t \in Token, NEW p \in Project,
             NEW manifest \in Manifests, ReconcileManifest(r, t, p, manifest),
             NEW s \in RunId, NEW q \in Project
      PROVE  Described(s, q)'
  <2>1. CASE s = r /\ q = p
    <3>1. /\ staged'[s][q] = Reconciled(staged[s][q], manifest)
          /\ digest'[s][q] = ManifestDigest(manifest)
      BY <1>4, <2>1, StagedIsNested DEF ReconcileManifest, TypeOK
    <3>2. manifest \in Manifest
      BY ConstantsAssumption
    <3>3. QED
      BY <3>1, <3>2, DigestOfReconciled DEF Described
  <2>2. CASE ~(s = r /\ q = p)
    <3>1. staged'[s][q] = staged[s][q] /\ digest'[s][q] = digest[s][q]
      BY <1>4, <2>2, StagedIsNested DEF ReconcileManifest, TypeOK
    <3>2. QED
      BY <1>2, <3>1
  <2>3. QED
    BY <2>1, <2>2
<1>5. ASSUME NEW keepNewest \in 0 .. MaxRunId, GcStagedRuns(keepNewest),
             NEW r \in RunId, NEW p \in Project
      PROVE  Described(r, p)'
  <2>1. CASE r \in Collectable(keepNewest)
    BY <1>5, <2>1 DEF GcStagedRuns, Described
  <2>2. CASE r \notin Collectable(keepNewest)
    BY <1>2, <1>5, <2>2 DEF GcStagedRuns
  <2>3. QED
    BY <2>1, <2>2
<1>6. ASSUME NEW r \in RunId, NEW t \in Token, NEW p \in Project, NEW d \in Doc,
             DocumentStep(r, t, p, d), NEW s \in RunId, NEW q \in Project
      PROVE  Described(s, q)'
  <2>1. CASE s = r /\ q = p
    BY <1>1, <1>6, <2>1, CheckpointDescribed
  <2>2. CASE ~(s = r /\ q = p)
    <3>1. PICK from, row : Checkpoint(r, t, p, d, from, row)
      BY <1>6 DEF DocumentStep, BeginDocument, CheckpointDocument,
                  CheckpointDocumentError, ResetDocumentPending
    <3>2. QED
      BY <1>2, <2>2, <3>1 DEF Checkpoint, TypeOK, StagedDocuments
  <2>3. QED
    BY <2>1, <2>2
<1>7. ASSUME UNCHANGED <<staged, digest>>, NEW r \in RunId, NEW p \in Project
      PROVE  Described(r, p)'
  BY <1>2, <1>7
<1>8. CASE RunStep
  BY <1>5, <1>7, <1>8, DescribedIsDigest
     DEF RunStep, CreateOrResumeRun, LeaseExpires, AbandonRun, SupersedeRun,
         DigestDescribesRows, Described, Overtaken
<1>9. CASE \E r \in RunId, t \in Token : OwnerStep(r, t)
  BY <1>3, <1>4, <1>7, <1>9
     DEF OwnerStep, Heartbeat, PauseRun, FailRun, MarkRunReady,
         DigestDescribesRows, Described, Overtaken
<1>10. CASE \E t \in Token : PublishStep(t)
  BY <1>7, <1>10
     DEF PublishStep, PreparePublication, ReportCommitted, CommitPublication,
         RollBackPublication, journalVars, vars,
         DigestDescribesRows, Described, Overtaken
<1>11. CASE UNCHANGED vars
  BY <1>7, <1>11 DEF vars, DigestDescribesRows, Described, Overtaken
<1>12. QED
  BY <1>6, <1>8, <1>9, <1>10, <1>11
     DEF Next, DigestDescribesRows, Described, Overtaken

\* As long as every payload is of the observation its row was reconciled with,
\* the stored digest is that of the staged rows: no takeover, retry or partial
\* refresh leaves rows of another manifest behind.
THEOREM DigestsDescribe == Spec => []DigestDescribesRows
<1>1. Init => DigestDescribesRows
  BY DEF Init, DigestDescribesRows
<1>2. SchemaInv /\ DigestDescribesRows /\ [Next]_vars => DigestDescribesRows'
  BY DigestStaysTrue
<1>3. QED
  BY <1>1, <1>2, SchemaInvariant, PTL DEF Spec

-----------------------------------------------------------------------------
(* Staged work is not lost.                                                *)

\* A row that survives has a digest.
LEMMA DigestRowOfRow ==
    ASSUME NEW row \in StagedDocument, WellFormedRow(row), row.action # "delete"
    PROVE  [path |-> row.obs.path, fingerprint |-> Fingerprint(row),
            action |-> row.action] # None
<1>1. row.obs \in Observation /\ Fingerprint(row) \in Observation
  BY DEF WellFormedRow, Fingerprint, StagedDocument
<1>2. [path |-> row.obs.path, fingerprint |-> Fingerprint(row),
       action |-> row.action] \in DigestRow
  BY <1>1 DEF DigestRow, StagedDocument, Observation
<1>3. QED
  BY <1>2, NoneAssumption

\* A refresh replaces a finished payload only if the manifest says something
\* else of the row than the payload does.
LEMMA DiscardedIsOutdated ==
    ASSUME NEW rows, NEW manifest \in Manifest, NEW d \in Doc,
           rows[d] \in StagedDocument, rows[d] # None, WellFormedRow(rows[d]),
           rows[d].payload # None,
           Reconciled(rows, manifest)[d] # rows[d]
    PROVE  ManifestDigest(manifest)[d] # DigestOf(rows)[d]
<1> DEFINE row == rows[d]
           document == manifest[d]
           work == [path |-> row.obs.path, fingerprint |-> Fingerprint(row),
                    action |-> row.action]
<1>1. row.action = "upsert" /\ row.state = "ready" /\ row.obs # None
  BY DEF WellFormedRow, StagedDocument
<1>2. DigestOf(rows)[d] = work
  BY <1>1 DEF DigestOf
<1>3. work # None
  BY <1>1, DigestRowOfRow
<1>4. CASE document = None
  BY <1>2, <1>3, <1>4 DEF ManifestDigest
<1>5. CASE document # None
  <2>1. ~Keeps(row, document)
    BY <1>5 DEF Reconciled, ReconciledRow
  <2>2. CASE document.action = "delete"
    BY <1>2, <1>3, <1>5, <2>2 DEF ManifestDigest
  <2>3. CASE document.action # "delete"
    <3> DEFINE said == [path |-> document.obs.path, fingerprint |-> document.obs,
                        action |-> document.action]
    <3>1. ManifestDigest(manifest)[d] = said
      BY <1>5, <2>3 DEF ManifestDigest
    <3>2. \/ row.obs.path # document.obs.path
          \/ Fingerprint(row) # document.obs
          \/ row.action # document.action
      BY <1>1, <2>1, NoneAssumption DEF Keeps
    <3>3. said # work
      <4>1. said.path # work.path \/ said.fingerprint # work.fingerprint
                \/ said.action # work.action
        BY <3>2
      <4>2. QED
        BY <4>1
    <3>4. QED
      BY <1>2, <3>1, <3>3
  <2>4. QED
    BY <2>2, <2>3
<1>6. QED
  BY <1>4, <1>5

\* What a step that discards a payload has to be.
Justified(r, p, d) ==
    Discards(r, p, d) /\ runs'[r] # None =>
        /\ InState(r, {"running"})
        /\ runs'[r].owner = runs[r].owner
        /\ digest'[r][p][d] # DigestOf(staged[r][p])[d]

LEMMA PayloadsKept ==
    ASSUME SchemaInv, [Next]_vars, NEW r \in RunId, NEW p \in Project, NEW d \in Doc
    PROVE  Justified(r, p, d)
<1> USE DEF SchemaInv
<1> DEFINE row == staged[r][p][d]
<1> SUFFICES ASSUME row # None, row.payload # None, staged'[r][p][d] # row,
                    runs'[r] # None
             PROVE  /\ InState(r, {"running"})
                    /\ runs'[r].owner = runs[r].owner
                    /\ digest'[r][p][d] # DigestOf(staged[r][p])[d]
  BY DEF Justified, Discards
<1>1. row \in StagedDocument /\ WellFormedRow(row) /\ row.state = "ready"
  BY DEF TypeOK, StagedDocuments, RowsSatisfySchema, WellFormedRow
<1>2. ASSUME NEW s \in RunId, NEW t \in Token, ClaimRun(s, t)
      PROVE  FALSE
  <2>1. staged'[r][p][d] = IF r = s THEN Requeued(row) ELSE row
    BY <1>2, StagedIsNested DEF ClaimRun
  <2>2. QED
    BY <1>1, <2>1 DEF Requeued
<1>3. ASSUME NEW s \in RunId, NEW t \in Token, NEW q \in Project,
             NEW manifest \in Manifests, ReconcileManifest(s, t, q, manifest)
      PROVE  /\ InState(r, {"running"})
             /\ runs'[r].owner = runs[r].owner
             /\ digest'[r][p][d] # DigestOf(staged[r][p])[d]
  <2>1. r = s /\ p = q
    BY <1>3, StagedIsNested DEF ReconcileManifest
  <2>2. InState(r, {"running"}) /\ runs[r] \in IndexRun
    BY <1>3, <2>1 DEF ReconcileManifest, Owns, InState, Exists, TypeOK
  <2>3. runs'[r].owner = runs[r].owner
    <3>1. runs'[r] = Renewed(runs[r])
      BY <1>3, <2>1 DEF ReconcileManifest, TypeOK
    <3>2. Renewed(runs[r]).owner = runs[r].owner
      BY <2>2 DEF Renewed, IndexRun
    <3>3. QED
      BY <3>1, <3>2
  <2>4. digest'[r][p][d] = ManifestDigest(manifest)[d]
    BY <1>3, <2>1 DEF ReconcileManifest, TypeOK
  <2>5. staged'[r][p][d] = Reconciled(staged[r][p], manifest)[d]
    BY <1>3, <2>1, StagedIsNested DEF ReconcileManifest
  <2>6. manifest \in Manifest
    BY ConstantsAssumption
  <2>7. QED
    BY <1>1, <2>2, <2>3, <2>4, <2>5, <2>6, DiscardedIsOutdated
<1>4. ASSUME NEW keepNewest \in 0 .. MaxRunId, GcStagedRuns(keepNewest)
      PROVE  FALSE
  BY <1>4 DEF GcStagedRuns
<1>5. ASSUME NEW s \in RunId, NEW t \in Token, NEW q \in Project, NEW e \in Doc,
             DocumentStep(s, t, q, e)
      PROVE  FALSE
  <2>1. staged[s][q][e].state \in {"pending", "processing"}
    BY <1>5 DEF DocumentStep, BeginDocument, CheckpointDocument,
                CheckpointDocumentError, ResetDocumentPending, Checkpoint
  <2>2. r = s /\ p = q /\ d = e
    <3>1. ASSUME NEW from, NEW next, Checkpoint(s, t, q, e, from, next)
          PROVE  r = s /\ p = q /\ d = e
      BY <3>1, StagedIsNested DEF Checkpoint
    <3>2. QED
      BY <1>5, <3>1 DEF DocumentStep, BeginDocument, CheckpointDocument,
                        CheckpointDocumentError, ResetDocumentPending
  <2>3. QED
    BY <1>1, <2>1, <2>2
<1>6. staged' # staged
  OBVIOUS
<1>7. CASE RunStep
  BY <1>4, <1>6, <1>7 DEF RunStep, CreateOrResumeRun, LeaseExpires, AbandonRun,
                          SupersedeRun
<1>8. CASE \E s \in RunId, t \in Token : OwnerStep(s, t)
  BY <1>2, <1>3, <1>6, <1>8
     DEF OwnerStep, Heartbeat, PauseRun, FailRun, MarkRunReady
<1>9. CASE \E t \in Token : PublishStep(t)
  BY <1>6, <1>9 DEF PublishStep, PreparePublication, ReportCommitted,
                    CommitPublication, RollBackPublication, journalVars, vars
<1>10. QED
  BY <1>5, <1>6, <1>7, <1>8, <1>9 DEF Next, vars

\* Only its owner discards a finished payload of a run, and only in a refresh
\* whose manifest says something else of the document.
THEOREM PayloadsAreKept == Spec => PayloadsSurvive
<1>1. SchemaInv /\ [Next]_vars =>
          [\A r \in RunId, p \in Project, d \in Doc :
              Discards(r, p, d) /\ runs'[r] # None =>
                  /\ InState(r, {"running"})
                  /\ runs'[r].owner = runs[r].owner
                  /\ digest'[r][p][d] # DigestOf(staged[r][p])[d]]_staged
  BY PayloadsKept DEF Justified
<1>2. QED
  BY <1>1, SchemaInvariant, PTL DEF Spec, PayloadsSurvive

-----------------------------------------------------------------------------
(* What readers see of a publication.                                      *)

\* What publish_run decoded has passed its validation.
PreparedIsPublishable ==
    \A t \in Token :
        publishing[t] # None => Publishable(publishing[t].documents)

LEMMA PreparedStaysPublishable ==
    ASSUME TypeOK, PreparedIsPublishable, [Next]_vars
    PROVE  PreparedIsPublishable'
<1>1. ASSUME NEW t \in Token, NEW r \in RunId, PreparePublication(r, t)
      PROVE  PreparedIsPublishable'
  <2>1. ASSUME NEW u \in Token, u # t
        PROVE  publishing'[u] = publishing[u]
    BY <1>1, <2>1 DEF PreparePublication, TypeOK
  <2>2. publishing'[t].documents = staged[r] /\ Publishable(staged[r])
    BY <1>1 DEF PreparePublication, TypeOK
  <2>3. QED
    BY <2>1, <2>2 DEF PreparedIsPublishable, Publishable, AllReady
<1>2. ASSUME \A t \in Token : publishing'[t] \in {publishing[t], None}
      PROVE  PreparedIsPublishable'
  BY <1>2 DEF PreparedIsPublishable, Publishable, AllReady
<1>3. CASE RunStep
  BY <1>2, <1>3 DEF RunStep, CreateOrResumeRun, LeaseExpires, AbandonRun,
                    SupersedeRun, GcStagedRuns
<1>4. ASSUME NEW r \in RunId, NEW t \in Token, OwnerStep(r, t)
      PROVE  PreparedIsPublishable'
  BY <1>2, <1>4 DEF OwnerStep, ClaimRun, Heartbeat, PauseRun, FailRun,
                    MarkRunReady, ReconcileManifest
<1>5. ASSUME NEW r \in RunId, NEW t \in Token, NEW p \in Project, NEW d \in Doc,
             DocumentStep(r, t, p, d)
      PROVE  PreparedIsPublishable'
  BY <1>2, <1>5 DEF DocumentStep, BeginDocument, CheckpointDocument,
                    CheckpointDocumentError, ResetDocumentPending, Checkpoint
<1>6. ASSUME NEW t \in Token, CommitPublication(t) \/ RollBackPublication(t)
      PROVE  PreparedIsPublishable'
  BY <1>2, <1>6 DEF CommitPublication, RollBackPublication, TypeOK
<1>7. QED
  BY <1>1, <1>2, <1>3, <1>4, <1>5, <1>6 DEF Next, PublishStep, ReportCommitted, vars

\* The row of a validated document does to its file what the digest says.
LEMMA FileFollowsDigest ==
    ASSUME NEW row \in StagedDocument, row # None, WellFormedRow(row),
           row.state = "ready", NEW file
    PROVE  IF row.action = "delete" THEN FileAfter(file, row) = None
           ELSE Holds(FileAfter(file, row),
                      [path |-> row.obs.path, fingerprint |-> Fingerprint(row),
                       action |-> row.action], file)
BY DEF WellFormedRow, FileAfter, Holds, Fingerprint

LEMMA PublicationPublishes ==
    ASSUME SchemaInv, PreparedDocumentsCurrent, PreparedIsPublishable,
           NEW r \in RunId, Publishes(r)
    PROVE  PublishesManifest(r)
<1> USE DEF SchemaInv
<1>1. PICK t \in Token : r = publishing[t].run /\ CommitPublication(t)
  BY DEF Publishes
<1> DEFINE documents == publishing[t].documents
<1>2. /\ InState(r, {"ready"})
      /\ runs[r].owner = t
      /\ publishing[t] # None
      /\ runs[r] \in IndexRun
  BY <1>1 DEF CommitPublication, Committable, StillPublishable, InState, Exists, TypeOK
<1>3. documents = staged[r] /\ AllReady(staged[r])
  BY <1>1, <1>2
     DEF PreparedDocumentsCurrent, PreparedIsPublishable, Publishable
<1>4. runs'[r].status = "committed"
  <2>1. runs'[r] = Released(runs[r], "committed")
    BY DEF Publishes, TypeOK
  <2>2. QED
    BY <1>2, <2>1, ReleasedRun DEF RunState
<1>5. ASSUME NEW p \in Project, p \in runs[r].scope
      PROVE  /\ lastRun'[p] = r
             /\ digest[r][p] # None
             /\ \A d \in Doc :
                   IF digest[r][p][d] # None
                   THEN Holds(live'[p][d], digest[r][p][d], live[p][d])
                   ELSE staged[r][p][d] # None => live'[p][d] = None
  <2>1. /\ lastRun'[p] = r
        /\ digest[r][p] # None
        /\ digest[r][p] = DigestOf(staged[r][p])
        /\ live'[p] = LiveAfter(live[p], staged[r][p])
    BY <1>1, <1>3, <1>5
       DEF CommitPublication, Committable, StillPublishable
  <2>2. ASSUME NEW d \in Doc
        PROVE  IF digest[r][p][d] # None
               THEN Holds(live'[p][d], digest[r][p][d], live[p][d])
               ELSE staged[r][p][d] # None => live'[p][d] = None
    <3> DEFINE row == staged[r][p][d]
    <3>1. digest[r][p][d] = IF row = None THEN None
                            ELSE IF row.action = "delete" THEN None
                            ELSE [path |-> row.obs.path,
                                  fingerprint |-> Fingerprint(row),
                                  action |-> row.action]
      BY <2>1 DEF DigestOf
    <3>2. CASE row = None
      BY <3>1, <3>2
    <3>3. CASE row # None
      <4>1. row \in StagedDocument /\ WellFormedRow(row) /\ row.state = "ready"
        BY <1>3, <3>3 DEF TypeOK, StagedDocuments, RowsSatisfySchema, AllReady
      <4>2. live'[p][d] = FileAfter(live[p][d], row)
        BY <2>1, <3>3 DEF LiveAfter
      <4>3. CASE row.action = "delete"
        BY <3>1, <3>3, <4>1, <4>2, <4>3, FileFollowsDigest
      <4>4. CASE row.action # "delete"
        BY <3>1, <3>3, <4>1, <4>2, <4>4, FileFollowsDigest, DigestRowOfRow
      <4>5. QED
        BY <4>3, <4>4
    <3>4. QED
      BY <3>2, <3>3
  <2>3. QED
    BY <2>1, <2>2
<1>6. \A p \in Project : p \notin runs[r].scope =>
          live'[p] = live[p] /\ lastRun'[p] = lastRun[p]
  BY DEF Publishes
<1>7. QED
  BY <1>2, <1>4, <1>5, <1>6 DEF PublishesManifest

\* The corpus only changes when a ready run commits: the generation becomes its
\* id, and each of its projects holds what the manifest that its digest was
\* taken of names, and no other project changes.
THEOREM CorpusIsPublished == Spec => CorpusChangesByPublication
<1>1. Init => PreparedIsPublishable
  BY DEF Init, PreparedIsPublishable
<1>2. SchemaInv /\ PreparedIsPublishable /\ [Next]_vars => PreparedIsPublishable'
  BY PreparedStaysPublishable DEF SchemaInv
<1>3. SchemaInv /\ PreparedDocumentsCurrent /\ PreparedIsPublishable /\ [Next]_vars =>
          [\E r \in RunId : r = generation' /\ PublishesManifest(r)]_corpusVars
  <2> SUFFICES ASSUME SchemaInv, PreparedDocumentsCurrent, PreparedIsPublishable,
                      [Next]_vars, ~UNCHANGED corpusVars
               PROVE  \E r \in RunId : r = generation' /\ PublishesManifest(r)
    OBVIOUS
  <2>1. PICK r \in RunId : Publishes(r)
    BY StepShape DEF SchemaInv
  <2>2. r = generation' /\ PublishesManifest(r)
    BY <2>1, PublicationPublishes DEF Publishes
  <2>3. QED
    BY <2>2
<1>4. QED
  BY <1>1, <1>2, <1>3, SchemaInvariant, PreparedCurrent, PTL
     DEF Spec, CorpusChangesByPublication

-----------------------------------------------------------------------------
(* The journal and the publisher implement AtomicCorpus: initial states    *)
(* map to initial states, and a step that creates a run is a Begin, a      *)
(* publication is a Commit and everything else is an Abort or a stutter.   *)

\* Run r as a transaction of AtomicCorpus.
Tx(r) == [id |-> r, base |-> runs[r].base, scope |-> runs[r].scope]
Open(r) == InState(r, ClaimableState)

LEMMA OpenRunsAreTx ==
    /\ \A r \in RunId : Open(r) => Tx(r) \in OpenRuns
    /\ \A x \in OpenRuns : x.id \in RunId /\ Open(x.id) /\ x = Tx(x.id)
BY DEF OpenRuns, Tx, Open

LEMMA OpenRunsAreTxNext ==
    /\ \A r \in RunId : Open(r)' => Tx(r)' \in OpenRuns'
    /\ \A x \in OpenRuns' :
          x.id \in RunId /\ \E r \in RunId : r = x.id /\ Open(r)' /\ x = Tx(r)'
BY DEF OpenRuns, Tx, Open

\* A transaction that stays open does not change.
LEMMA OpenStays ==
    ASSUME NEW r \in RunId, Changes(r), ~Created(r), Open(r)'
    PROVE  Open(r) /\ Tx(r)' = Tx(r)
BY DEF Changes, Moved, Collected, Open, Tx, InState, Exists, Unfinished

LEMMA AbortStep ==
    ASSUME \A r \in RunId : Changes(r) /\ ~Created(r), UNCHANGED corpusVars
    PROVE  Corpus!Next
<1> DEFINE lost == OpenRuns \ OpenRuns'
<1>1. OpenRuns' \subseteq OpenRuns
  BY OpenStays, OpenRunsAreTx, OpenRunsAreTxNext
<1>2. OpenRuns' = OpenRuns \ lost
  BY <1>1
<1>3. live' = live /\ generation' = generation
  BY DEF corpusVars
<1>4. lost \in SUBSET OpenRuns
  OBVIOUS
<1>5. Corpus!Abort(lost)
  BY <1>2, <1>3 DEF Corpus!Abort
<1>6. QED
  BY <1>4, <1>5 DEF Corpus!Next

LEMMA BeginStep ==
    ASSUME TypeOK, GenerationIsNewestCommit, \A r \in RunId : Changes(r),
           NEW n \in RunId, Created(n), UNCHANGED corpusVars
    PROVE  Corpus!Next
<1>1. PICK S \in (SUBSET Project) \ {{}}, c \in Config :
          /\ runs'[n] = NewRun(S, c)
          /\ \A s \in Overlapping(S) : runs'[s].status = "superseded"
  BY DEF Created
<1> DEFINE displaced == OpenRuns \ OpenRuns'
           new == [id |-> n, base |-> generation, scope |-> S]
<1>2. Open(n)' /\ Tx(n)' = new
  <2>1. NewRun(S, c) # None
    BY NewRunFields, NoneAssumption DEF TypeOK
  <2>2. QED
    BY <1>1, <2>1 DEF NewRun, Open, Tx, InState, Exists, ClaimableState
<1>3. \A r \in RunId \ {n} : ~Created(r)
  BY OneNextRunId DEF Created
<1>4. OpenRuns' \subseteq OpenRuns \cup {new}
  BY <1>2, <1>3, OpenStays, OpenRunsAreTx, OpenRunsAreTxNext
<1>5. new \in OpenRuns'
  BY <1>2, OpenRunsAreTxNext
<1>6. OpenRuns' = (OpenRuns \ displaced) \cup {new}
  BY <1>4, <1>5
<1>7. n > generation
  <2>1. CASE generation = 0
    BY <2>1, ConstantsAssumption DEF RunId
  <2>2. CASE generation # 0
    <3>1. Exists(generation) /\ generation \in RunId
      BY <2>2, ConstantsAssumption
         DEF GenerationIsNewestCommit, InState, TypeOK, RunId
    <3>2. generation < n /\ generation \in Nat /\ n \in Nat
      BY <3>1, ConstantsAssumption DEF Created, NextRunId, RunId
    <3>3. QED
      BY <3>2
  <2>3. QED
    BY <2>1, <2>2
<1>8. ASSUME NEW x \in OpenRuns \ displaced
      PROVE  x.id # n /\ x.scope \cap S = {}
  <2>1. PICK r \in RunId : r = x.id /\ Open(r) /\ x = Tx(r)
    BY OpenRunsAreTx
  <2>2. r # n
    BY <2>1, ConstantsAssumption DEF Created, NextRunId, Open, InState, RunId
  <2>3. Open(r)'
    BY <2>1, OpenRunsAreTxNext
  <2>4. r \notin Overlapping(S)
    BY <1>1, <2>3 DEF Open, InState, ClaimableState
  <2>5. Unfinished(r)
    BY <2>1 DEF Open, Unfinished, InState, ClaimableState, UnfinishedState
  <2>6. x.scope = runs[r].scope
    BY <2>1 DEF Tx
  <2>7. QED
    BY <2>1, <2>2, <2>4, <2>5, <2>6 DEF Overlapping
<1>9. live' = live /\ generation' = generation
  BY DEF corpusVars
<1>10. Corpus!Begin(n, S, displaced)
  BY <1>6, <1>7, <1>8, <1>9 DEF Corpus!Begin
<1>11. displaced \in SUBSET OpenRuns /\ S \in SUBSET Project
  OBVIOUS
<1>12. QED
  BY <1>10, <1>11 DEF Corpus!Next

LEMMA CommitStep ==
    ASSUME TypeOK, TypeOK', \A r \in RunId : Changes(r),
           NEW n \in RunId, Publishes(n)
    PROVE  Corpus!Next
<1>1. runs[n] \in IndexRun /\ Open(n)
  BY DEF Publishes, InState, Exists, TypeOK, Open, ClaimableState
<1>2. runs' = [runs EXCEPT ![n] = Released(runs[n], "committed")]
  BY DEF Publishes
<1>3. ~Open(n)'
  BY <1>1, <1>2, ReleasedRun DEF Open, InState, TypeOK, RunState, ClaimableState
<1>4. ASSUME NEW r \in RunId \ {n}
      PROVE  (Open(r)' <=> Open(r)) /\ Tx(r)' = Tx(r)
  BY <1>2 DEF TypeOK, Open, Tx, InState, Exists
<1>5. OpenRuns' = OpenRuns \ {Tx(n)}
  <2>1. ASSUME NEW x \in OpenRuns'
        PROVE  x \in OpenRuns /\ x # Tx(n)
    <3>1. PICK r \in RunId : r = x.id /\ Open(r)' /\ x = Tx(r)'
      BY OpenRunsAreTxNext
    <3>2. r # n
      BY <1>3, <3>1
    <3>3. Tx(n).id = n
      BY DEF Tx
    <3>4. QED
      BY <1>4, <3>1, <3>2, <3>3, OpenRunsAreTx
  <2>2. ASSUME NEW x \in OpenRuns, x # Tx(n)
        PROVE  x \in OpenRuns'
    <3>1. PICK r \in RunId : r = x.id /\ Open(r) /\ x = Tx(r)
      BY OpenRunsAreTx
    <3>2. QED
      BY <1>4, <2>2, <3>1, OpenRunsAreTxNext
  <2>3. QED
    BY <2>1, <2>2
<1>6. Tx(n) \in OpenRuns
  BY <1>1, OpenRunsAreTx
<1>7. /\ Tx(n).base = generation
      /\ Tx(n).id = n
      /\ Tx(n).scope = runs[n].scope
      /\ generation' = n
  BY DEF Publishes, Tx
<1>8. live' \in [Project -> [Doc -> Observation \cup {None}]]
  BY DEF TypeOK
<1>9. \A p \in Project \ Tx(n).scope : live'[p] = live[p]
  BY <1>7 DEF Publishes
<1>10. Corpus!Commit(Tx(n))
  BY <1>5, <1>7, <1>8, <1>9 DEF Corpus!Commit
<1>11. QED
  BY <1>6, <1>10 DEF Corpus!Next

LEMMA StepsRefine ==
    ASSUME SchemaInv, SafetyInv, [Next]_vars
    PROVE  [Corpus!Next]_(Corpus!corpusState)
<1>1. /\ \A r \in RunId : Changes(r)
      /\ UNCHANGED corpusVars \/ \E r \in RunId : Publishes(r)
  BY StepShape DEF SafetyInv
<1>2. TypeOK'
  BY NextTypeOK DEF SchemaInv
<1>3. CASE \E r \in RunId : Publishes(r)
  BY <1>1, <1>2, <1>3, CommitStep DEF SafetyInv
<1>4. CASE UNCHANGED corpusVars /\ \E n \in RunId : Created(n)
  BY <1>1, <1>4, BeginStep DEF SafetyInv
<1>5. CASE UNCHANGED corpusVars /\ \A n \in RunId : ~Created(n)
  BY <1>1, <1>5, AbortStep
<1>6. QED
  BY <1>1, <1>3, <1>4, <1>5

\* Whatever callers do, the readers of the database see a sequence of whole
\* transactions: each covers the fixed projects of its run, replaces exactly the
\* generation it was begun against, and displaced every overlapping one.
THEOREM JournalImplementsAtomicCorpus == Spec => ImplementsAtomicCorpus
<1>1. Init => Corpus!Init
  BY DEF Init, Corpus!Init, NoDocuments, OpenRuns, InState, Exists
<1>2. SchemaInv /\ SafetyInv /\ [Next]_vars => [Corpus!Next]_(Corpus!corpusState)
  BY StepsRefine
<1>3. QED
  BY <1>1, <1>2, SafetyInvariant, PTL DEF Spec, Corpus!Spec, ImplementsAtomicCorpus
=============================================================================
