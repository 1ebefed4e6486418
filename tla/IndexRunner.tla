---------------------------- MODULE IndexRunner ----------------------------
(***************************************************************************)
(* IndexRunner of codeindex-indexer (run.rs) over the journal: one index   *)
(* invocation creates or resumes a run, claims it, and loops - refresh     *)
(* every source document, reconcile the manifest, process what is pending  *)
(* - until a refresh changes nothing, and then publishes.                  *)
(*                                                                         *)
(* A token is one invocation.  A step of a worker is one call of the       *)
(* journal or one read of the source, so other invocations, edits of the   *)
(* source, expiring leases, cancellation and the death of the process fall *)
(* between any two of them.                                                *)
(*                                                                         *)
(* The source is a FileSystemSource: a document's id is its path, and its  *)
(* revision (size and time of modification) is advisory.  A read that      *)
(* overlaps an edit is either Changed or the content at one instant.       *)
(* Fault hooks, progress and the delays between attempts are left out.     *)
(***************************************************************************)
EXTENDS RunJournal

CONSTANTS
    ScopeOf,       \* [Token -> SUBSET Project]: the projects of an invocation
    ConfigOf,      \* [Token -> SUBSET Config]: those it may be given
    Trusting,      \* tokens with RevisionTrust::TrustAdvisory
    PauseOnChange, \* tokens with RefreshMode::PauseOnChange
    MaxAttempts,   \* document_attempts_per_invocation
    Contents,      \* the contents and revisions documents may have
    InitialSource, \* the source before the first edit
    ReadError,     \* the hash that stands for a failed read
    NoHash,        \* the empty hash of a deletion
    Mortal,        \* tokens whose process may die
    Cancellable,   \* tokens that may be cancelled
    Overrulable,   \* whether abandon and supersede are called from outside
    MaxEdits,      \* bound: edits of the source
    MaxFaults      \* bound: failed reads, listings and preparations, deaths, commands

FileAt(d, c) == [path |-> d, hash |-> c.hash, rev |-> c.rev]
FilesAt(d) == {FileAt(d, c) : c \in Contents}

ASSUME RunnerAssumption ==
    /\ Doc \subseteq Path
    /\ {ReadError, NoHash} \subseteq Hash
    /\ ScopeOf \in [Token -> (SUBSET Project) \ {{}}]
    /\ ConfigOf \in [Token -> SUBSET Config]
    /\ Contents \subseteq [hash : Hash \ {ReadError, NoHash}, rev : Rev]
    /\ InitialSource \in [Project -> [Doc -> Observation \cup {None}]]
    /\ \A p \in Project, d \in Doc : InitialSource[p][d] \in FilesAt(d) \cup {None}
    /\ MaxAttempts \in Nat \ {0} /\ MaxEdits \in Nat /\ MaxFaults \in Nat
    /\ None \notin Project \cup Rev \cup (Project \X Doc) \cup Digest

\* An invocation may make any manifest and any payload.
ASSUME CallsAssumption == Manifest \subseteq Manifests /\ Observation \subseteq Payloads

VARIABLES
    source,     \* [Project -> [Doc -> Observation, or None]]
    worker,     \* [Token -> Worker]
    cancelled,  \* the tokens whose CancellationToken is set
    edits,      \* edits so far
    faults,     \* faults so far
    seen        \* history: the sources since the last refresh of each token

runnerVars == <<source, worker, cancelled, edits, faults, seen>>
allVars == <<vars, runnerVars>>

Pc == {"new", "claiming", "refreshing", "observing", "counting", "settled",
       "processing", "reading", "preparing", "publishing", "committing",
       "pausing", "failing", "done"}

NoManifest == [d \in Doc |-> None]

\* The local variables of run_owned.
Worker == [pc : Pc, run : RunId \cup {0}, pass : BOOLEAN, changed : BOOLEAN,
           prior : StagedDocuments, unlisted : SUBSET Project,
           project : Project \cup {None}, listed : [Doc -> Rev \cup {None}],
           files : [Doc -> Observation \cup {None}], unread : SUBSET Doc,
           manifest : [Project -> Manifest], unreconciled : SUBSET Project,
           todo : SUBSET (Project \X Doc),
           doc : (Project \X Doc) \cup {None},
           attempts : [Project \X Doc -> 0 .. MaxAttempts]]

NewWorker == [pc |-> "new", run |-> 0, pass |-> FALSE, changed |-> FALSE,
              prior |-> NoDocuments, unlisted |-> {}, project |-> None,
              listed |-> NoManifest, files |-> NoManifest, unread |-> {},
              manifest |-> [p \in Project |-> NoManifest], unreconciled |-> {},
              todo |-> {}, doc |-> None,
              attempts |-> [pd \in Project \X Doc |-> 0]]

Ended == [NewWorker EXCEPT !.pc = "done"]

RunnerInit ==
    /\ Init
    /\ source = InitialSource
    /\ worker = [t \in Token |-> NewWorker]
    /\ cancelled = {}
    /\ edits = 0
    /\ faults = 0
    /\ seen = [t \in Token |-> {}]

-----------------------------------------------------------------------------
(* Shapes of a step.                                                       *)

At(t, pc) == worker[t].pc = pc
Becomes(t, w) == worker' = [worker EXCEPT ![t] = w]
Goes(t, pc) == Becomes(t, [worker[t] EXCEPT !.pc = pc])
Ends(t) == Becomes(t, Ended) /\ seen' = [seen EXCEPT ![t] = {}]
Fault == faults < MaxFaults /\ faults' = faults + 1
Run(t) == worker[t].run

\* The variables that live outside the loop of run_owned, for its next round.
NextRound(w, pass) == [NewWorker EXCEPT !.pc = "refreshing", !.run = w.run,
                                        !.pass = pass, !.attempts = w.attempts]

HasState(row, state) == row # None /\ row.state = state

Pending(r) == {pd \in Project \X Doc :
                  HasState(staged[r][pd[1]][pd[2]], "pending")}

\* Faulty: a retried document counts as a change of the source.
ConvergedWithoutRetries(w) ==
    /\ w.pass /\ ~w.changed
    /\ \A pd \in Project \X Doc : w.attempts[pd] = 0

\* The last refresh changed nothing and every document had its turn.
Converged(w) == w.pass /\ ~w.changed

-----------------------------------------------------------------------------
(* IndexRunner::run: the run to work on, the claim, the end.               *)

\* ResumePolicy::Auto and New.  The only unfinished run that is left on the
\* projects is the one the journal answers with.
Start(t) ==
    /\ At(t, "new")
    /\ \E config \in ConfigOf[t], forceNew \in BOOLEAN :
          CreateOrResumeRun(ScopeOf[t], config, forceNew)
    /\ \E r \in Overlapping(ScopeOf[t])' :
          Becomes(t, [NewWorker EXCEPT !.pc = "claiming", !.run = r])
    /\ UNCHANGED <<source, cancelled, edits, faults, seen>>

\* ResumePolicy::Run: a committed run is only reported.
StartNamed(t, r) ==
    /\ At(t, "new")
    /\ Exists(r)
    /\ runs[r].scope = ScopeOf[t]
    /\ runs[r].config \in ConfigOf[t]
    /\ \/ /\ ReportCommitted(r, t)
          /\ Ends(t)
       \/ /\ ~InState(r, {"committed"})
          /\ Becomes(t, [NewWorker EXCEPT !.pc = "claiming", !.run = r])
          /\ UNCHANGED <<vars, seen>>
    /\ UNCHANGED <<source, cancelled, edits, faults>>

\* The claim, validate_immutable_settings and the first look at the documents.
\* A refused claim ends the invocation.
Claim(t) ==
    /\ At(t, "claiming")
    /\ \/ /\ ClaimRun(Run(t), t)
          /\ Becomes(t, [worker[t] EXCEPT
                !.pc = IF AcceptsConfig(runs[Run(t)].config, ScopeOf[t])
                       THEN "refreshing" ELSE "failing",
                !.pass = \E p \in Project, d \in Doc :
                            HasState(staged[Run(t)][p][d], "ready")])
          /\ UNCHANGED seen
       \/ /\ ~Claimable(Run(t), t)
          /\ Ends(t)
          /\ UNCHANGED vars
    /\ UNCHANGED <<source, cancelled, edits, faults>>

\* The journal refuses the call run_owned makes next: the run was taken over or
\* superseded, or the document is not where the call expects it.
CallRefused(t) ==
    LET w == worker[t]
        r == w.run
        Is(pd, state) == HasState(staged[r][pd[1]][pd[2]], state)
    IN \/ /\ \/ w.pc \in {"refreshing", "counting", "settled", "processing",
                          "reading", "preparing", "pausing"}
             \/ w.pc = "observing" /\ w.unlisted \cup w.unread = {}
          /\ ~Owns(t, r)
       \/ w.pc = "settled" /\ Pending(r) = {} /\ Converged(w) /\ ~AllReady(staged[r])
       \/ w.pc = "processing" /\ \E pd \in w.todo : ~Is(pd, "pending")
       \/ w.pc \in {"reading", "preparing"} /\ ~Is(w.doc, "processing")

Refused(t) ==
    /\ CallRefused(t)
    /\ Goes(t, "failing")
    /\ UNCHANGED <<vars, source, cancelled, edits, faults, seen>>

\* The error path of run: the run fails only if it is still this owner's.
Fail(t) ==
    /\ At(t, "failing")
    /\ \/ FailRun(Run(t), t) /\ InState(Run(t), {"running"})
       \/ ~Owns(t, Run(t)) /\ UNCHANGED vars
    /\ Ends(t)
    /\ UNCHANGED <<source, cancelled, edits, faults>>

Pause(t) ==
    /\ At(t, "pausing")
    /\ PauseRun(Run(t), t)
    /\ Ends(t)
    /\ UNCHANGED <<source, cancelled, edits, faults>>

\* Cancellation is polled before a refresh, a document and a publication.
Interrupted(t) ==
    /\ t \in cancelled
    /\ \/ At(t, "refreshing")
       \/ At(t, "observing") /\ worker[t].unread # {}
       \/ At(t, "settled") /\ Pending(Run(t)) = {} /\ Converged(worker[t])
       \/ At(t, "processing") /\ worker[t].todo # {}
    /\ Goes(t, "pausing")
    /\ UNCHANGED <<vars, source, cancelled, edits, faults, seen>>

-----------------------------------------------------------------------------
(* A refresh.                                                              *)

Refresh(t) ==
    /\ At(t, "refreshing")
    /\ t \notin cancelled
    /\ Heartbeat(Run(t), t)
    /\ Becomes(t, [worker[t] EXCEPT !.pc = "observing",
                                    !.prior = staged[Run(t)],
                                    !.unlisted = ScopeOf[t],
                                    !.unreconciled = ScopeOf[t],
                                    !.changed = FALSE])
    /\ seen' = [seen EXCEPT ![t] = {source}]
    /\ UNCHANGED <<source, cancelled, edits, faults>>

\* A live document the provider no longer lists is a deletion.
DeletionRow(d, file) ==
    [obs |-> [path |-> d, hash |-> NoHash, rev |-> file.rev],
     action |-> "delete"]

\* documents() and the live files of one project.
List(t, p) ==
    /\ At(t, "observing")
    /\ worker[t].unread = {}
    /\ p \in worker[t].unlisted
    /\ \/ /\ Becomes(t, [worker[t] EXCEPT
                !.unlisted = @ \ {p},
                !.project = p,
                !.listed = [d \in Doc |-> IF source[p][d] = None THEN None
                                          ELSE source[p][d].rev],
                !.files = live[p],
                !.unread = {d \in Doc : source[p][d] # None},
                !.manifest[p] = [d \in Doc |->
                    IF source[p][d] = None /\ live[p][d] # None
                    THEN DeletionRow(d, live[p][d]) ELSE None]])
          /\ UNCHANGED faults
       \/ Fault /\ Goes(t, "pausing")
    /\ UNCHANGED <<vars, source, cancelled, edits, seen>>

\* Faulty: advisory revisions are trusted by default.
TrustedByDefault(t, w, d) ==
    LET file == w.files[d]
        row == w.prior[w.project][d]
    IN IF file # None /\ file.rev = w.listed[d] THEN {file.hash}
       ELSE IF row # None /\ row.action # "delete" /\ row.obs.rev = w.listed[d]
       THEN {row.obs.hash}
       ELSE {}

\* Faulty: the revision of the live file is not compared.
TrustedWhateverRevision(t, w, d) ==
    IF t \in Trusting /\ w.files[d] # None THEN {w.files[d].hash} ELSE {}

\* The hash a trusted revision vouches for, as a set of at most one: that of
\* the live file, else the one observed for the staged row.
TrustedHash(t, w, d) ==
    LET file == w.files[d]
        row == w.prior[w.project][d]
    IN IF t \notin Trusting THEN {}
       ELSE IF file # None /\ file.rev = w.listed[d] THEN {file.hash}
       ELSE IF row # None /\ row.action # "delete" /\ row.obs.rev = w.listed[d]
       THEN {row.obs.hash}
       ELSE {}

\* action_for.
ActionFor(file, obs) ==
    IF file = None \/ file.path # obs.path \/ file.hash # obs.hash
    THEN "upsert"
    ELSE IF file.rev # obs.rev THEN "metadata" ELSE "unchanged"

Observed(w, d, hash) ==
    LET obs == [path |-> d, hash |-> hash, rev |-> w.listed[d]]
    IN [w EXCEPT !.unread = @ \ {d},
                 !.manifest[w.project][d] =
                    [obs |-> obs, action |-> ActionFor(w.files[d], obs)]]

\* stable_read: the revision must still be the listed one.
IsStable(file, rev) == file # None /\ file.rev = rev

\* One document of a refresh.  An unstable one starts the refresh over, after a
\* delay; one that cannot be read stays in the manifest under a hash of its own.
Observe(t, d) ==
    LET w == worker[t]
        file == source[w.project][d]
    IN /\ At(t, "observing")
       /\ t \notin cancelled
       /\ d \in w.unread
       /\ \/ /\ \E hash \in TrustedHash(t, w, d) : Becomes(t, Observed(w, d, hash))
             /\ UNCHANGED faults
          \/ /\ TrustedHash(t, w, d) = {}
             /\ IF IsStable(file, w.listed[d])
                THEN Becomes(t, Observed(w, d, file.hash))
                ELSE Becomes(t, NextRound(w, w.pass))
             /\ UNCHANGED faults
          \/ /\ TrustedHash(t, w, d) = {}
             /\ Fault
             /\ Becomes(t, Observed(w, d, ReadError))
       /\ UNCHANGED <<vars, source, cancelled, edits, seen>>

\* What a refresh leaves behind: the flags that decide what comes next.
Refreshed(w, changed) ==
    [NextRound(w, w.pass) EXCEPT
        !.pc = IF changed /\ w.pass THEN "counting" ELSE "settled",
        !.changed = changed]

Reconcile(t, p) ==
    LET w == worker[t]
        changed == w.changed \/ RefreshChanges(w.run, p, w.manifest[p])
    IN /\ At(t, "observing")
       /\ w.unlisted \cup w.unread = {}
       /\ p \in w.unreconciled
       /\ ReconcileManifest(w.run, t, p, w.manifest[p])
       /\ Becomes(t, IF w.unreconciled = {p} THEN Refreshed(w, changed)
                     ELSE [w EXCEPT !.unreconciled = @ \ {p},
                                    !.changed = changed])
       /\ UNCHANGED <<source, cancelled, edits, faults, seen>>

\* increment_refresh_round: the source moved while documents were processed.
CountRound(t) ==
    /\ At(t, "counting")
    /\ Heartbeat(Run(t), t)
    /\ Goes(t, IF t \in PauseOnChange THEN "pausing" ELSE "settled")
    /\ UNCHANGED <<source, cancelled, edits, faults, seen>>

\* Process what is pending; with nothing pending, look once more at the source
\* unless the last look changed nothing.
Settle(t) ==
    LET w == worker[t]
        pending == Pending(w.run)
    IN /\ At(t, "settled")
       /\ Owns(t, w.run)
       /\ \/ /\ pending # {}
             /\ Heartbeat(w.run, t)
             /\ Becomes(t, [w EXCEPT !.pc = "processing", !.todo = pending])
          \/ /\ pending = {}
             /\ ~Converged(w)
             /\ Becomes(t, NextRound(w, TRUE))
             /\ UNCHANGED vars
          \/ /\ pending = {}
             /\ Converged(w)
             /\ t \notin cancelled
             /\ MarkRunReady(w.run, t)
             /\ Goes(t, "publishing")
       /\ UNCHANGED <<source, cancelled, edits, faults, seen>>

-----------------------------------------------------------------------------
(* A processing pass.                                                      *)

\* A pass that ends, or breaks off, is followed by a refresh.
PassEnds(t, w) == Becomes(t, NextRound(w, TRUE))

Begin(t, p, d) ==
    /\ At(t, "processing")
    /\ t \notin cancelled
    /\ <<p, d>> \in worker[t].todo
    /\ BeginDocument(Run(t), t, p, d)
    /\ Becomes(t, [worker[t] EXCEPT !.pc = "reading", !.doc = <<p, d>>,
                                    !.todo = @ \ {<<p, d>>}])
    /\ UNCHANGED <<source, cancelled, edits, faults, seen>>

AllBegun(t) ==
    /\ At(t, "processing")
    /\ worker[t].todo = {}
    /\ PassEnds(t, worker[t])
    /\ UNCHANGED <<vars, source, cancelled, edits, faults, seen>>

\* The document is read again: what the refresh saw, something else, or an
\* error, which is retried in a later pass until the attempts run out.
Read(t, p, d) ==
    LET w == worker[t]
        row == staged[w.run][p][d]
        file == source[p][d]
        attempts == w.attempts[<<p, d>>] + 1
    IN /\ At(t, "reading")
       /\ w.doc = <<p, d>>
       /\ Owns(t, w.run)
       /\ \/ /\ file = row.obs
             /\ Goes(t, "preparing")
             /\ UNCHANGED <<vars, faults>>
          \/ /\ file # row.obs
             /\ ResetDocumentPending(w.run, t, p, d)
             /\ PassEnds(t, w)
             /\ UNCHANGED faults
          \/ /\ Fault
             /\ attempts < MaxAttempts
             /\ ResetDocumentPending(w.run, t, p, d)
             /\ PassEnds(t, [w EXCEPT !.attempts[<<p, d>>] = attempts])
          \/ /\ Fault
             /\ attempts >= MaxAttempts
             /\ CheckpointDocumentError(w.run, t, p, d)
             /\ Goes(t, "pausing")
       /\ UNCHANGED <<source, cancelled, edits, seen>>

\* prepare_document and the checkpoint of its payload.
Prepare(t, p, d) ==
    LET w == worker[t]
    IN /\ At(t, "preparing")
       /\ w.doc = <<p, d>>
       /\ \/ /\ CheckpointDocument(w.run, t, p, d, staged[w.run][p][d].obs)
             /\ Becomes(t, [w EXCEPT !.pc = "processing", !.doc = None])
             /\ UNCHANGED faults
          \/ /\ Fault
             /\ CheckpointDocumentError(w.run, t, p, d)
             /\ Goes(t, "pausing")
       /\ UNCHANGED <<source, cancelled, edits, seen>>

-----------------------------------------------------------------------------
(* The publication.                                                        *)

Publish(t) ==
    LET r == Run(t)
    IN /\ At(t, "publishing")
       /\ \/ PreparePublication(r, t) /\ Goes(t, "committing") /\ UNCHANGED seen
          \/ ReportCommitted(r, t) /\ Ends(t)
          \/ /\ ~InState(r, {"committed"})
             /\ ~(InState(r, {"ready"}) /\ Publishable(staged[r]))
             /\ Goes(t, "failing")
             /\ UNCHANGED <<vars, seen>>
       /\ UNCHANGED <<source, cancelled, edits, faults>>

\* A publication that is refused, or hits a fault, leaves the run ready.
Commit(t) ==
    /\ At(t, "committing")
    /\ \/ CommitPublication(t) /\ Ends(t) /\ UNCHANGED faults
       \/ /\ ~Committable(Run(t), t, publishing[t].documents)
          /\ RollBackPublication(t)
          /\ Goes(t, "failing")
          /\ UNCHANGED <<faults, seen>>
       \/ Fault /\ RollBackPublication(t) /\ Goes(t, "failing") /\ UNCHANGED seen
    /\ UNCHANGED <<source, cancelled, edits>>

\* The process dies between two steps; SQLite rolls an open transaction back.
Crash(t) ==
    /\ t \in Mortal
    /\ worker[t].pc \notin {"new", "done"}
    /\ Fault
    /\ IF publishing[t] = None THEN UNCHANGED vars ELSE RollBackPublication(t)
    /\ Ends(t)
    /\ UNCHANGED <<source, cancelled, edits>>

-----------------------------------------------------------------------------
(* The world.                                                              *)

Edit(p, d, file) ==
    /\ edits < MaxEdits
    /\ source[p][d] # file
    /\ edits' = edits + 1
    /\ source' = [source EXCEPT ![p][d] = file]
    /\ seen' = [t \in Token |-> IF seen[t] = {} THEN {} ELSE seen[t] \cup {source'}]
    /\ UNCHANGED <<vars, worker, cancelled, faults>>

Cancel(t) ==
    /\ t \in Cancellable \ cancelled
    /\ worker[t].pc # "done"
    /\ Fault
    /\ cancelled' = cancelled \cup {t}
    /\ UNCHANGED <<vars, source, worker, edits, seen>>

\* Leases expire; the command line abandons and supersedes runs.
Overrule ==
    /\ \E r \in RunId :
          \/ LeaseExpires(r) /\ UNCHANGED faults
          \/ Overrulable /\ Fault /\ (AbandonRun(r) \/ SupersedeRun(r))
    /\ UNCHANGED <<source, worker, cancelled, edits, seen>>

Environment ==
    \/ \E p \in Project, d \in Doc :
          \E file \in FilesAt(d) \cup {None} : Edit(p, d, file)
    \/ \E t \in Token : Cancel(t) \/ Crash(t)
    \/ Overrule

\* One step of an invocation that has begun.
Proceed(t) ==
    \/ Claim(t)
    \/ Refused(t)
    \/ Fail(t)
    \/ Interrupted(t)
    \/ Pause(t)
    \/ Refresh(t)
    \/ \E p \in Project : List(t, p) \/ Reconcile(t, p)
    \/ \E d \in Doc : Observe(t, d)
    \/ CountRound(t)
    \/ Settle(t)
    \/ \E p \in Project, d \in Doc : Begin(t, p, d) \/ Read(t, p, d) \/ Prepare(t, p, d)
    \/ AllBegun(t)
    \/ Publish(t)
    \/ Commit(t)

RunnerNext ==
    \/ \E t \in Token : \/ Start(t)
                        \/ \E r \in RunId : StartNamed(t, r)
                        \/ Proceed(t)
    \/ Environment

RunnerSafety == RunnerInit /\ [][RunnerNext]_allVars

\* A begun invocation is a thread that keeps running until it ends or dies.
RunnerSpec == RunnerSafety /\ \A t \in Token : WF_allVars(Proceed(t))
-----------------------------------------------------------------------------
(* Properties.                                                             *)

RunnerTypeOK ==
    /\ source \in [Project -> [Doc -> Observation \cup {None}]]
    /\ worker \in [Token -> Worker]
    /\ seen \in [Token -> SUBSET [Project -> [Doc -> Observation \cup {None}]]]
    /\ cancelled \subseteq Token
    /\ edits \in 0 .. MaxEdits
    /\ faults \in 0 .. MaxFaults
    /\ \A t \in Token : seen[t] # {} <=> source \in seen[t]

\* What is published was true: every document of the corpus an invocation
\* publishes was in the source, with that content and revision, at some moment
\* after its last refresh began, and every document missing from it was missing
\* from the source at such a moment.  No edit between the listing, the two
\* reads and the commit, no resumed or taken over work and no concurrent
\* publication puts anything else before the readers.  An invocation that trusts
\* revisions may miss an edit they do not show, but never publishes a content
\* under the revision of another.
SameRevision(file, other) ==
    file # None /\ other # None /\ file.rev = other.rev

PublishedWasTrue ==
    [][\A t \in Token, p \in Project, d \in Doc :
          At(t, "committing") /\ runs[Run(t)].owner = t
                /\ generation' # generation /\ generation' = Run(t)
                /\ p \in ScopeOf[t]
              => \E s \in seen[t] :
                    \/ live'[p][d] = s[p][d]
                    \/ /\ t \in Trusting /\ SameRevision(live'[p][d], s[p][d])
                       /\ live'[p][d] \in FilesAt(d)]_allVars

\* A run that an invocation has brought to ready can be published: the
\* transaction refuses it only if the run was taken away or the corpus has moved
\* to another generation.
ReadyIsPublishable ==
    \A t \in Token :
        LET r == Run(t)
        IN /\ worker[t].pc \in {"publishing", "committing"}
           /\ InState(r, {"ready"}) /\ runs[r].owner = t
           /\ runs[r].base = generation
           => Publishable(staged[r]) /\ Committable(r, t, staged[r])

\* No work is done twice: a payload that is already staged is given up only
\* when the source was seen to differ from it, a read failed, the corpus has
\* moved on and the run is lost anyway, or to an invocation that trusts revisions
\* and takes the live file, of that same revision, for the present one.
StagedWorkKept ==
    [][\A r \in RunId, p \in Project, d \in Doc :
          Discards(r, p, d) /\ runs[r].base = generation =>
              \/ staged'[r][p][d].obs # None /\ staged'[r][p][d].obs.hash = ReadError
              \/ \E t \in Token :
                    /\ Owns(t, r)
                    /\ \/ \E s \in seen[t] : s[p][d] # staged[r][p][d].payload
                       \/ /\ t \in Trusting
                          /\ SameRevision(live[p][d], staged[r][p][d].payload)
      ]_allVars

\* An invocation never breaks its own run: a run fails durably only after a run
\* with other settings, or another locator of one of its projects, was
\* published, never because the invocation made a call the journal refuses.
Disagree(run, other) ==
    \/ SettingsOf[run.config] # SettingsOf[other.config]
    \/ \E p \in run.scope \cap other.scope :
          LocatorOf[run.config][p] # LocatorOf[other.config][p]

FailsOnlyByConfiguration ==
    [][\A r \in RunId :
          ~InState(r, {"failed"}) /\ Exists(r) /\ runs'[r].status = "failed"
              => \E s \in RunId : InState(s, {"committed"}) /\ Disagree(runs[r], runs[s])
      ]_allVars

\* Every invocation ends: the refreshes, retries and interruptions that other
\* invocations, edits and faults cause are as finite as they are.
Terminates == \A t \in Token : worker[t].pc # "new" ~> worker[t].pc = "done"
=============================================================================
