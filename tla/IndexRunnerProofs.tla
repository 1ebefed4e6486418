------------------------- MODULE IndexRunnerProofs -------------------------
(***************************************************************************)
(* Theorems about IndexRunner, for any number of invocations, projects,    *)
(* documents, edits and faults.                                            *)
(***************************************************************************)
EXTENDS IndexRunner, RunJournalProofs

-----------------------------------------------------------------------------
(* The invariant.                                                          *)

\* The invocation still has the run it works on.
Active(t) == worker[t].pc \notin {"new", "done"}
Holding(t, r) == InState(r, {"running", "ready"}) /\ runs[r].owner = t
Has(t) == Active(t) /\ Holding(t, Run(t))

\* What an invocation remembers from reading the journal and the source.
MemoryOK(w) ==
    /\ w.pc \in {"claiming", "refreshing"} => w.unread = {}
    /\ \A d \in w.unread : w.project \in Project /\ w.listed[d] \in Rev
    /\ \A p \in Project, d \in Doc :
         w.prior[p][d] # None => WellFormedRow(w.prior[p][d])

\* An invocation works on one run of its own scope, and holds no other.
WorksOnRun(t) ==
    /\ Active(t) => /\ Run(t) \in RunId
                    /\ Exists(Run(t))
                    /\ runs[Run(t)].scope = ScopeOf[t]
    /\ publishing[t] # None <=> At(t, "committing")
    /\ At(t, "committing") => publishing[t].run = Run(t)
    /\ \A r \in RunId : Holding(t, r) =>
         \/ At(t, "done")
         \/ r = Run(t) /\ worker[t].pc \notin {"new", "claiming"}
    /\ worker[t].pc \in {"publishing", "committing"} => ~Owns(t, Run(t))
    /\ MemoryOK(worker[t])
    /\ At(t, "observing") => seen[t] # {}

\* What is staged, live or in the source is named by its path and has a content.
Authentic(d, row) ==
    row # None =>
        /\ row.obs # None => row.obs.path = d
        /\ row.payload # None => row.payload = row.obs /\ row.obs \in FilesAt(d)
        /\ row.action # "delete" /\ row.obs.hash # ReadError => row.obs \in FilesAt(d)

DataInv ==
    /\ \A r \in RunId, p \in Project, d \in Doc : Authentic(d, staged[r][p][d])
    /\ \A p \in Project, d \in Doc : live[p][d] \in FilesAt(d) \cup {None}
    /\ \A p \in Project, d \in Doc : source[p][d] \in FilesAt(d) \cup {None}

\* The actions of a run are those that the corpus it is based on calls for.
ActsOn(file, row) ==
    row # None => (row.action # "delete" => row.action = ActionFor(file, row.obs))

\* The corpus a run is based on, as a set of at most one: empty once it moved on.
Basis(r) == IF runs[r].base = generation THEN {live} ELSE {}

BasisInv ==
    \A r \in RunId : Unfinished(r) =>
        \A files \in Basis(r), p \in Project, d \in Doc :
            ActsOn(files[p][d], staged[r][p][d])

\* What the invocation t may say of a document that has seen the sources S, of a
\* run with the basis B.
Missing(S, p, d) == \E s \in S : s[p][d] = None
Witnessed(t, S, p, d, obs) ==
    \/ obs.hash = ReadError
    \/ \E s \in S : s[p][d] = obs
    \/ /\ t \in Trusting /\ obs \in FilesAt(d)
       /\ \E s \in S : SameRevision(s[p][d], obs)

\* An entry of a manifest, or a row that was reconciled with it.
Told(t, S, B, p, d, x) ==
    IF x = None THEN Missing(S, p, d) /\ \A files \in B : files[p][d] = None
    ELSE IF x.action = "delete" THEN Missing(S, p, d)
    ELSE Witnessed(t, S, p, d, x.obs)

\* What a manifest may say of a document besides.
Entry(B, p, d, x) ==
    x # None =>
        /\ x.obs.path = d
        /\ x.action # "delete" =>
             /\ x.obs.hash # ReadError => x.obs \in FilesAt(d)
             /\ \A files \in B : x.action = ActionFor(files[p][d], x.obs)

\* A hash that a trusted revision vouched for is that of the live file or of the
\* row that is still staged.
Vouched(t, S, B, p, d, x, row) ==
    x # None /\ x.action # "delete" =>
        \/ x.obs.hash = ReadError
        \/ \E s \in S : s[p][d] = x.obs
        \/ t \in Trusting /\ \A files \in B : files[p][d] = x.obs
        \/ t \in Trusting /\ row # None /\ row.action # "delete" /\ row.obs = x.obs

\* The project that is being read.
Reading(t, w, S, B) ==
    w.unread # {} =>
        /\ w.project \in ScopeOf[t] \ w.unlisted
        /\ \A d \in Doc : w.files[d] \in FilesAt(d) \cup {None}
        /\ \A files \in B : w.files = files[w.project]
        /\ \A d \in w.unread : \E s \in S :
             s[w.project][d] # None /\ s[w.project][d].rev = w.listed[d]

\* What is left to read of a project.
Unread(w, p) == IF p = w.project THEN w.unread ELSE {}

RefreshOK(t, w, S, B, rows) ==
    /\ Reading(t, w, S, B)
    /\ w.unlisted \cup w.unread # {} => w.unreconciled = ScopeOf[t]
    /\ w.unlisted \subseteq ScopeOf[t] /\ w.unreconciled \subseteq ScopeOf[t]
    /\ \A p \in ScopeOf[t] \ w.unlisted : \A d \in Doc \ Unread(w, p) :
         /\ Told(t, S, B, p, d, w.manifest[p][d])
         /\ Entry(B, p, d, w.manifest[p][d])
         /\ p \in w.unreconciled => Vouched(t, S, B, p, d, w.manifest[p][d], rows[p][d])
    /\ \A p \in w.unreconciled : rows[p] = w.prior[p]

\* The projects whose rows are those of the last refresh.
Settled(t, w) ==
    IF w.pc = "observing" THEN ScopeOf[t] \ w.unreconciled
    ELSE IF w.pc \in {"counting", "settled", "publishing", "committing"}
    THEN ScopeOf[t] ELSE {}

DoneOK(t, w, S, B, rows, digests) ==
    \A p \in Settled(t, w) :
        /\ digests[p] # None
        /\ \A d \in Doc : Told(t, S, B, p, d, rows[p][d])

\* A processing pass: of the rows only that of the document at hand is neither
\* pending nor ready, and the documents to do are pending.
PassOK(w, rows) ==
    /\ \A p \in Project, d \in Doc :
         \/ rows[p][d] = None
         \/ rows[p][d].state \in {"pending", "ready"}
         \/ w.pc \in {"pausing", "failing"}
         \/ w.pc \in {"reading", "preparing"} /\ w.doc = <<p, d>>
    /\ w.pc \in {"processing", "reading", "preparing"} =>
         \A pd \in w.todo : HasState(rows[pd[1]][pd[2]], "pending")
    /\ w.pc \in {"reading", "preparing"} =>
         /\ w.doc \in Project \X Doc
         /\ HasState(rows[w.doc[1]][w.doc[2]], "processing")
    /\ w.pc = "preparing" => rows[w.doc[1]][w.doc[2]].obs \in FilesAt(w.doc[2])
    /\ w.pc \in {"publishing", "committing"} => AllReady(rows)

\* What an invocation that holds its run knows of the rows.
OwnerOK(t, w, S, B, rows, digests) ==
    /\ w.pc = "observing" => RefreshOK(t, w, S, B, rows)
    /\ DoneOK(t, w, S, B, rows, digests)
    /\ PassOK(w, rows)

\* The settings of the run were accepted, or an earlier publication refuses them.
ConfigOK(t) ==
    IF At(t, "failing") /\ Owns(t, Run(t))
    THEN \E s \in RunId : InState(s, {"committed"}) /\ Disagree(runs[Run(t)], runs[s])
    ELSE runs[Run(t)].base = generation => AcceptsConfig(runs[Run(t)].config, ScopeOf[t])

Knows(t) ==
    /\ OwnerOK(t, worker[t], seen[t], Basis(Run(t)), staged[Run(t)], digest[Run(t)])
    /\ ConfigOK(t)

\* Settings and locators are those of a publication.
PublishedConfig ==
    /\ settings # None => \E s \in RunId : InState(s, {"committed"})
    /\ \A p \in Project : locator[p] # None =>
         \E s \in RunId : InState(s, {"committed"}) /\ p \in runs[s].scope
-----------------------------------------------------------------------------
(* Type correctness.                                                       *)

Sources == [Project -> [Doc -> Observation \cup {None}]]

LEMMA FilesAtObservation ==
    ASSUME NEW d \in Doc
    PROVE  /\ FilesAt(d) \subseteq Observation
           /\ None \notin FilesAt(d)
           /\ \A file \in FilesAt(d) : file.path = d /\ file.hash \notin {ReadError, NoHash}
<1>1. \A c \in Contents : /\ FileAt(d, c) \in Observation
                          /\ FileAt(d, c).path = d
                          /\ FileAt(d, c).hash \notin {ReadError, NoHash}
  BY RunnerAssumption DEF FileAt, Observation
<1>2. QED
  BY <1>1, NoneAssumption DEF FilesAt

LEMMA NewWorkerType == NewWorker \in Worker /\ Ended \in Worker
<1>1. NoDocuments \in StagedDocuments
  BY NoDocumentsType
<1>2. /\ NoManifest \in [Doc -> Rev \cup {None}]
      /\ NoManifest \in [Doc -> Observation \cup {None}]
      /\ NoManifest \in Manifest
  BY DEF NoManifest, Manifest
<1>3. 0 \in 0 .. MaxAttempts
  BY RunnerAssumption
<1>4. NewWorker \in Worker
  BY <1>1, <1>2, <1>3 DEF NewWorker, Worker, Pc
<1>5. QED
  BY <1>4 DEF Ended, Worker, Pc

LEMMA GoesType ==
    ASSUME NEW w \in Worker, NEW pc \in Pc
    PROVE  /\ [w EXCEPT !.pc = pc] \in Worker
           /\ [w EXCEPT !.pc = pc].pc = pc
           /\ [w EXCEPT !.pc = pc].run = w.run
           /\ [w EXCEPT !.pc = pc].pass = w.pass
           /\ [w EXCEPT !.pc = pc].changed = w.changed
           /\ [w EXCEPT !.pc = pc].prior = w.prior
           /\ [w EXCEPT !.pc = pc].unlisted = w.unlisted
           /\ [w EXCEPT !.pc = pc].unread = w.unread
           /\ [w EXCEPT !.pc = pc].manifest = w.manifest
           /\ [w EXCEPT !.pc = pc].unreconciled = w.unreconciled
           /\ [w EXCEPT !.pc = pc].todo = w.todo
           /\ [w EXCEPT !.pc = pc].doc = w.doc
BY DEF Worker, Pc

LEMMA NewWorkerFields ==
    /\ NewWorker.pc = "new" /\ NewWorker.changed = FALSE
    /\ NewWorker.unread = {} /\ NewWorker.todo = {}
BY DEF NewWorker

LEMMA NextRoundType ==
    ASSUME NEW w \in Worker, NEW pass \in BOOLEAN
    PROVE  /\ NextRound(w, pass) \in Worker
           /\ NextRound(w, pass).pc = "refreshing"
           /\ NextRound(w, pass).run = w.run
           /\ NextRound(w, pass).pass = pass
           /\ NextRound(w, pass).changed = FALSE
           /\ NextRound(w, pass).unread = {}
           /\ NextRound(w, pass).todo = {}
<1> DEFINE n1 == [NewWorker EXCEPT !.pc = "refreshing"]
           n2 == [n1 EXCEPT !.run = w.run]
           n3 == [n2 EXCEPT !.pass = pass]
           n4 == [n3 EXCEPT !.attempts = w.attempts]
<1>1. n1 \in Worker /\ n1.pc = "refreshing" /\ n1.changed = FALSE
         /\ n1.unread = {} /\ n1.todo = {}
  <2>1. "refreshing" \in Pc
    BY DEF Pc
  <2>2. QED
    BY <2>1, GoesType, NewWorkerType, NewWorkerFields
<1> HIDE DEF n1
<1>2. n2 \in Worker /\ n2.pc = "refreshing" /\ n2.changed = FALSE
         /\ n2.unread = {} /\ n2.todo = {} /\ n2.run = w.run
  BY <1>1 DEF Worker
<1> HIDE DEF n2
<1>3. n3 \in Worker /\ n3.pc = "refreshing" /\ n3.changed = FALSE
         /\ n3.unread = {} /\ n3.todo = {} /\ n3.run = w.run /\ n3.pass = pass
  BY <1>2 DEF Worker
<1> HIDE DEF n3
<1>4. n4 \in Worker /\ n4.pc = "refreshing" /\ n4.changed = FALSE
         /\ n4.unread = {} /\ n4.todo = {} /\ n4.run = w.run /\ n4.pass = pass
  BY <1>3 DEF Worker
<1>5. NextRound(w, pass) = n4
  BY DEF NextRound, n1, n2, n3
<1> QED
  BY <1>4, <1>5

LEMMA SameRoundType ==
    ASSUME NEW w \in Worker
    PROVE  /\ NextRound(w, w.pass) \in Worker
           /\ NextRound(w, w.pass).pc = "refreshing"
           /\ NextRound(w, w.pass).run = w.run
           /\ NextRound(w, w.pass).unread = {}
<1>1. w.pass \in BOOLEAN
  BY DEF Worker
<1>2. QED
  BY <1>1, NextRoundType

LEMMA ClaimingType ==
    ASSUME NEW r \in RunId
    PROVE  /\ [NewWorker EXCEPT !.pc = "claiming", !.run = r] \in Worker
           /\ [NewWorker EXCEPT !.pc = "claiming", !.run = r].pc = "claiming"
           /\ [NewWorker EXCEPT !.pc = "claiming", !.run = r].run = r
           /\ [NewWorker EXCEPT !.pc = "claiming", !.run = r].unread = {}
<1> DEFINE w == [NewWorker EXCEPT !.pc = "claiming"]
<1>1. "claiming" \in Pc
  BY DEF Pc
<1>2. w \in Worker /\ w.pc = "claiming" /\ w.unread = {}
  BY <1>1, NewWorkerType, NewWorkerFields, GoesType
<1> HIDE DEF w
<1>3. /\ [w EXCEPT !.run = r] \in Worker
      /\ [w EXCEPT !.run = r].pc = "claiming"
      /\ [w EXCEPT !.run = r].run = r
      /\ [w EXCEPT !.run = r].unread = {}
  BY <1>2 DEF Worker
<1>4. [NewWorker EXCEPT !.pc = "claiming", !.run = r] = [w EXCEPT !.run = r]
  BY DEF w
<1>5. QED
  BY <1>3, <1>4

\* One invocation takes a step that keeps the types of the rest.
StepOf(t) ==
    /\ worker' \in [Token -> Worker]
    /\ \A o \in Token \ {t} : worker'[o] = worker[o]
    /\ source' = source
    /\ cancelled' = cancelled /\ edits' = edits
    /\ faults' \in 0 .. MaxFaults
    /\ \/ seen' = seen
       \/ \E x \in {{}, {source}} : seen' = [seen EXCEPT ![t] = x]

LEMMA StepTypeOK ==
    ASSUME RunnerTypeOK, NEW t \in Token, StepOf(t)
    PROVE  RunnerTypeOK'
BY DEF RunnerTypeOK, StepOf

LEMMA BecomesStep ==
    ASSUME RunnerTypeOK, NEW t \in Token, NEW w \in Worker, Becomes(t, w),
           UNCHANGED <<source, cancelled, edits>>, Fault \/ faults' = faults,
           seen' = seen \/ \E x \in {{}, {source}} : seen' = [seen EXCEPT ![t] = x]
    PROVE  StepOf(t) /\ worker'[t] = w
<1>1. faults' \in 0 .. MaxFaults
  BY RunnerAssumption DEF RunnerTypeOK, Fault
<1>2. QED
  BY <1>1 DEF RunnerTypeOK, StepOf, Becomes

LEMMA EndsStep ==
    ASSUME RunnerTypeOK, NEW t \in Token, Ends(t),
           UNCHANGED <<source, cancelled, edits>>, Fault \/ faults' = faults
    PROVE  StepOf(t) /\ worker'[t].pc = "done"
<1>1. Ended.pc = "done"
  BY NewWorkerType DEF Ended, Worker, NewWorker
<1>2. QED
  BY <1>1, BecomesStep, NewWorkerType DEF Ends

LEMMA GoesStep ==
    ASSUME RunnerTypeOK, NEW t \in Token, NEW pc \in Pc, Goes(t, pc),
           UNCHANGED <<source, cancelled, edits>>, Fault \/ faults' = faults,
           seen' = seen
    PROVE  StepOf(t) /\ worker'[t] = [worker[t] EXCEPT !.pc = pc]
BY GoesType, BecomesStep DEF Goes, RunnerTypeOK
-----------------------------------------------------------------------------
(* What an invocation knows stays true as the source changes, and when the    *)
(* corpus moves on.                                                        *)

LEMMA ToldStays ==
    ASSUME NEW t, NEW S, NEW S2, NEW B, NEW B2, S \subseteq S2, B2 \subseteq B,
           NEW p, NEW d, NEW x
    PROVE  /\ Told(t, S, B, p, d, x) => Told(t, S2, B2, p, d, x)
           /\ Entry(B, p, d, x) => Entry(B2, p, d, x)
           /\ \A row : Vouched(t, S, B, p, d, x, row) => Vouched(t, S2, B2, p, d, x, row)
<1>1. Missing(S, p, d) => Missing(S2, p, d)
  BY DEF Missing
<1>2. \A obs : Witnessed(t, S, p, d, obs) => Witnessed(t, S2, p, d, obs)
  BY DEF Witnessed
<1>3. Told(t, S, B, p, d, x) => Told(t, S2, B2, p, d, x)
  BY <1>1, <1>2 DEF Told
<1>4. Entry(B, p, d, x) => Entry(B2, p, d, x)
  BY DEF Entry
<1>5. ASSUME NEW row, Vouched(t, S, B, p, d, x, row)
      PROVE  Vouched(t, S2, B2, p, d, x, row)
  BY <1>5 DEF Vouched
<1>6. QED
  BY <1>3, <1>4, <1>5

LEMMA OwnerOKStays ==
    ASSUME NEW t, NEW w, NEW S, NEW S2, NEW B, NEW B2, S \subseteq S2, B2 \subseteq B,
           NEW rows, NEW digests, OwnerOK(t, w, S, B, rows, digests)
    PROVE  OwnerOK(t, w, S2, B2, rows, digests)
<1>1. ASSUME Reading(t, w, S, B)
      PROVE  Reading(t, w, S2, B2)
  BY <1>1 DEF Reading
<1>2. ASSUME RefreshOK(t, w, S, B, rows)
      PROVE  RefreshOK(t, w, S2, B2, rows)
  BY <1>1, <1>2, ToldStays DEF RefreshOK
<1>3. DoneOK(t, w, S2, B2, rows, digests)
  BY ToldStays DEF OwnerOK, DoneOK
<1>4. QED
  BY <1>2, <1>3 DEF OwnerOK
-----------------------------------------------------------------------------
(* What an invocation does to the journal.                                 *)

\* Calls that leave no token the owner of a run it did not own before.
Outside(t) ==
    \/ UNCHANGED vars
    \/ \E c \in Config, forceNew \in BOOLEAN : CreateOrResumeRun(ScopeOf[t], c, forceNew)
    \/ \E r \in RunId : LeaseExpires(r) \/ AbandonRun(r) \/ SupersedeRun(r)

\* Every call of one invocation: nothing collects finished runs.
JournalBy(t) ==
    \/ Outside(t)
    \/ \E r \in RunId : OwnerStep(r, t)
    \/ \E r \in RunId, p \in Project, d \in Doc : DocumentStep(r, t, p, d)
    \/ PublishStep(t)

LEMMA ScopeType ==
    ASSUME NEW t \in Token
    PROVE  ScopeOf[t] \in (SUBSET Project) \ {{}}
BY RunnerAssumption

LEMMA JournalByIsNext ==
    ASSUME NEW t \in Token, JournalBy(t)
    PROVE  [Next]_vars
<1>1. ScopeOf[t] \in (SUBSET Project) \ {{}}
  BY ScopeType
<1>2. ASSUME Outside(t)
      PROVE  [Next]_vars
  BY <1>1, <1>2 DEF Outside, Next, RunStep
<1>3. QED
  BY <1>2 DEF JournalBy, Next

\* The transition of one run, for calls that change no other.
RunMoves(r, run) ==
    /\ runs' = [runs EXCEPT ![r] = run]
    /\ Unfinished(r) \/ InState(r, {"running", "ready"})
    /\ run \in IndexRun
    /\ run.base = runs[r].base /\ run.scope = runs[r].scope
    /\ run.config = runs[r].config

\* A run that is there stays there, with its scope, base and config.
Kept(r) ==
    Exists(r) =>
        /\ Exists(r)'
        /\ runs'[r].base = runs[r].base /\ runs'[r].scope = runs[r].scope
        /\ runs'[r].config = runs[r].config
        /\ InState(r, {"committed"}) => runs'[r] = runs[r]

LEMMA RunMovesKept ==
    ASSUME TypeOK, NEW r \in RunId, NEW run, RunMoves(r, run)
    PROVE  \A s \in RunId : Kept(s)
<1>1. run # None /\ ~InState(r, {"committed"})
  BY NoneAssumption DEF RunMoves, Unfinished, InState, UnfinishedState
<1>2. runs'[r] = run /\ \A s \in RunId \ {r} : runs'[s] = runs[s]
  BY DEF RunMoves, TypeOK
<1>3. QED
  BY <1>1, <1>2 DEF Kept, Exists, RunMoves

LEMMA ClaimedFields ==
    ASSUME NEW run \in IndexRun, NEW t \in Token
    PROVE  /\ Claimed(run, t).status = "running" /\ Claimed(run, t).owner = t
           /\ Claimed(run, t).base = run.base /\ Claimed(run, t).scope = run.scope
           /\ Claimed(run, t).config = run.config
BY DEF Claimed, IndexRun

LEMMA RenewedFields ==
    ASSUME NEW run \in IndexRun, NEW status \in RunState
    PROVE  /\ Renewed(run).status = run.status /\ Renewed(run).owner = run.owner
           /\ Renewed(run).base = run.base /\ Renewed(run).scope = run.scope
           /\ Renewed(run).config = run.config
           /\ [Renewed(run) EXCEPT !.status = status].status = status
           /\ [Renewed(run) EXCEPT !.status = status].owner = run.owner
           /\ [Renewed(run) EXCEPT !.status = status].base = run.base
           /\ [Renewed(run) EXCEPT !.status = status].scope = run.scope
           /\ [Renewed(run) EXCEPT !.status = status].config = run.config
BY DEF Renewed, IndexRun

LEMMA ExpiredFields ==
    ASSUME NEW run \in IndexRun
    PROVE  /\ [run EXCEPT !.fresh = FALSE] \in IndexRun
           /\ [run EXCEPT !.fresh = FALSE].status = run.status
           /\ [run EXCEPT !.fresh = FALSE].owner = run.owner
           /\ [run EXCEPT !.fresh = FALSE].base = run.base
           /\ [run EXCEPT !.fresh = FALSE].scope = run.scope
           /\ [run EXCEPT !.fresh = FALSE].config = run.config
BY DEF IndexRun

LEMMA NewRunConfig ==
    ASSUME NEW S \in SUBSET Project, NEW c \in Config, generation \in 0 .. MaxRunId
    PROVE  NewRun(S, c).owner = None /\ NewRun(S, c).config = c
BY DEF NewRun, IndexRun, RunState

\* Creating or resuming a run leaves one unfinished run of exactly that scope,
\* and releases what it does not leave alone.
LEMMA CreateEffect ==
    ASSUME TypeOK, NEW S \in (SUBSET Project) \ {{}}, NEW c \in Config,
           NEW forceNew \in BOOLEAN, CreateOrResumeRun(S, c, forceNew)
    PROVE  /\ \A r \in RunId :
                \/ runs'[r] = runs[r]
                \/ Unfinished(r) /\ runs'[r] = Released(runs[r], "superseded")
                \/ ~Exists(r) /\ runs'[r] = NewRun(S, c)
           /\ \E k \in RunId : Unfinished(k)' /\ runs'[k].scope = S
           /\ UNCHANGED <<staged, digest, publishing, corpusVars>>
<1> DEFINE kept == Resumed(S, c, forceNew)
           after == [r \in RunId |-> IF r \in Overlapping(S) \ kept
                                     THEN Released(runs[r], "superseded")
                                     ELSE runs[r]]
<1>1. UNCHANGED <<staged, digest, publishing, corpusVars>>
  BY DEF CreateOrResumeRun
<1>2. \A r \in RunId : \/ after[r] = runs[r]
                       \/ Unfinished(r) /\ after[r] = Released(runs[r], "superseded")
  BY DEF Overlapping
<1>3. CASE kept # {} /\ runs' = after
  <2>1. PICK k \in kept : TRUE
    BY <1>3
  <2>2. k \in RunId /\ Unfinished(k) /\ runs[k].scope = S
    BY <2>1 DEF Resumed, Reusable, Overlapping
  <2>3. runs'[k] = runs[k]
    BY <1>3, <2>1, <2>2
  <2>4. Unfinished(k)' /\ runs'[k].scope = S
    BY <2>2, <2>3 DEF Unfinished, InState, Exists
  <2>5. QED
    BY <1>1, <1>2, <1>3, <2>2, <2>4
<1>4. CASE kept = {} /\ \E k \in RunId : /\ NextRunId(k)
                                         /\ runs' = [after EXCEPT ![k] = NewRun(S, c)]
  <2>1. PICK k \in RunId : NextRunId(k) /\ runs' = [after EXCEPT ![k] = NewRun(S, c)]
    BY <1>4
  <2>2. NewRun(S, c) \in IndexRun /\ NewRun(S, c).status = "planning"
            /\ NewRun(S, c).scope = S
    BY NewRunFields DEF TypeOK
  <2>3. ~Exists(k)
    BY <2>1 DEF NextRunId, RunId
  <2>4. runs'[k] = NewRun(S, c) /\ \A r \in RunId \ {k} : runs'[r] = after[r]
    BY <2>1
  <2>5. Unfinished(k)' /\ runs'[k].scope = S
    BY <2>2, <2>4, NoneAssumption DEF Unfinished, InState, Exists, UnfinishedState
  <2>6. QED
    BY <1>1, <1>2, <2>3, <2>4, <2>5
<1>5. QED
  BY <1>3, <1>4 DEF CreateOrResumeRun

\* What any other call does to the runs.
Retouched(t, r, run) ==
    /\ RunMoves(r, run)
    /\ \/ run.owner = None
       \/ run.owner = runs[r].owner /\ run.status = runs[r].status
       \/ run.owner = t

LEMMA CallEffect ==
    ASSUME TypeOK, NEW t \in Token, JournalBy(t)
    PROVE  \/ runs' = runs
           \/ \E c \in Config, forceNew \in BOOLEAN : CreateOrResumeRun(ScopeOf[t], c, forceNew)
           \/ \E r \in RunId, run \in IndexRun : Retouched(t, r, run)
<1>1. ASSUME NEW r \in RunId, Exists(r)
      PROVE  runs[r] \in IndexRun
  BY <1>1 DEF Exists, TypeOK
<1>2. ASSUME NEW r \in RunId, LeaseExpires(r)
      PROVE  Retouched(t, r, [runs[r] EXCEPT !.fresh = FALSE])
  BY <1>1, <1>2, ExpiredFields DEF LeaseExpires, InState, Retouched, RunMoves
<1>3. ASSUME NEW r \in RunId, NEW status \in RunState, Exists(r),
             Unfinished(r) \/ InState(r, {"running", "ready"}),
             runs' = [runs EXCEPT ![r] = Released(runs[r], status)]
      PROVE  \E run \in IndexRun : Retouched(t, r, run)
  BY <1>1, <1>3, ReleasedRun DEF Retouched, RunMoves
<1>4. ASSUME NEW r \in RunId, Exists(r), runs[r].owner = t, InState(r, {"running"}),
             runs' = [runs EXCEPT ![r] = Renewed(runs[r])]
      PROVE  \E run \in IndexRun : Retouched(t, r, run)
  <2>1. InState(r, {"running", "ready"})
    BY <1>4 DEF InState
  <2>2. /\ Renewed(runs[r]) \in IndexRun
        /\ Renewed(runs[r]).base = runs[r].base
        /\ Renewed(runs[r]).scope = runs[r].scope
        /\ Renewed(runs[r]).config = runs[r].config
        /\ Renewed(runs[r]).owner = t
    BY <1>1, <1>4, RenewedRun, RenewedFields DEF RunState
  <2>3. Retouched(t, r, Renewed(runs[r]))
    BY <1>4, <2>1, <2>2 DEF Retouched, RunMoves
  <2>4. QED
    BY <2>2, <2>3
<1>5. ASSUME Outside(t)
      PROVE  \/ runs' = runs
             \/ \E c \in Config, forceNew \in BOOLEAN : CreateOrResumeRun(ScopeOf[t], c, forceNew)
             \/ \E r \in RunId, run \in IndexRun : Retouched(t, r, run)
  <2>1. ASSUME NEW r \in RunId, AbandonRun(r) \/ SupersedeRun(r)
        PROVE  \E run \in IndexRun : Retouched(t, r, run)
    <3>1. Exists(r) /\ Unfinished(r)
      BY <2>1 DEF AbandonRun, SupersedeRun, Unfinished, InState
    <3>2. QED
      BY <1>3, <2>1, <3>1 DEF AbandonRun, SupersedeRun, RunState
  <2>2. ASSUME NEW r \in RunId, LeaseExpires(r)
        PROVE  \E run \in IndexRun : Retouched(t, r, run)
    BY <1>1, <1>2, <2>2, ExpiredFields DEF LeaseExpires, InState
  <2>3. QED
    BY <1>5, <2>1, <2>2 DEF Outside, vars
<1>6. ASSUME NEW r \in RunId, OwnerStep(r, t)
      PROVE  \E run \in IndexRun : Retouched(t, r, run)
  <2>1. CASE ClaimRun(r, t)
    <3>1. Exists(r) /\ Unfinished(r)
      BY <2>1 DEF ClaimRun, Claimable, InState, Unfinished, ClaimableState, UnfinishedState
    <3>2. QED
      BY <1>1, <2>1, <3>1, ClaimedRun, ClaimedFields DEF ClaimRun, Retouched, RunMoves
  <2>2. CASE \/ Heartbeat(r, t)
             \/ \E p \in Project, manifest \in Manifests : ReconcileManifest(r, t, p, manifest)
    <3>1. /\ runs' = [runs EXCEPT ![r] = Renewed(runs[r])]
          /\ Exists(r) /\ runs[r].owner = t /\ InState(r, {"running"})
      BY <2>2 DEF Heartbeat, ReconcileManifest, Owns, InState
    <3>2. QED
      BY <1>4, <3>1
  <2>3. CASE PauseRun(r, t) \/ FailRun(r, t)
    <3>1. Exists(r) /\ InState(r, {"running", "ready"})
      BY <2>3 DEF PauseRun, FailRun, InState
    <3>2. QED
      BY <1>3, <2>3, <3>1 DEF PauseRun, FailRun, RunState
  <2>4. CASE MarkRunReady(r, t)
    <3>1. /\ runs' = [runs EXCEPT ![r] = [Renewed(runs[r]) EXCEPT !.status = "ready"]]
          /\ Exists(r) /\ runs[r].owner = t /\ InState(r, {"running", "ready"})
      BY <2>4 DEF MarkRunReady, Owns, InState
    <3>2. PICK run : run = [Renewed(runs[r]) EXCEPT !.status = "ready"]
      OBVIOUS
    <3>3. /\ run \in IndexRun /\ run.owner = t
          /\ run.base = runs[r].base /\ run.scope = runs[r].scope
          /\ run.config = runs[r].config
      BY <1>1, <3>1, <3>2, RenewedRun, RenewedFields DEF RunState
    <3>4. Retouched(t, r, run)
      BY <3>1, <3>2, <3>3 DEF Retouched, RunMoves
    <3>5. QED
      BY <3>3, <3>4
  <2>5. QED
    BY <1>6, <2>1, <2>2, <2>3, <2>4 DEF OwnerStep
<1>7. ASSUME NEW r \in RunId, NEW p \in Project, NEW d \in Doc, DocumentStep(r, t, p, d)
      PROVE  runs' = runs
  BY <1>7 DEF DocumentStep, BeginDocument, CheckpointDocument, CheckpointDocumentError,
              ResetDocumentPending, Checkpoint
<1>8. ASSUME PublishStep(t)
      PROVE  runs' = runs \/ \E r \in RunId, run \in IndexRun : Retouched(t, r, run)
  <2>1. CASE CommitPublication(t)
    <3>1. PICK n \in RunId : n = publishing[t].run /\ Publishes(n)
      BY <2>1, CommitPublishes
    <3>2. Exists(n) /\ InState(n, {"running", "ready"})
          /\ runs' = [runs EXCEPT ![n] = Released(runs[n], "committed")]
      BY <3>1 DEF Publishes, InState
    <3>3. QED
      BY <1>3, <3>2 DEF RunState
  <2>2. QED
    BY <1>8, <2>1 DEF PublishStep, PreparePublication, ReportCommitted, RollBackPublication,
                      journalVars, vars
<1>9. QED
  BY <1>5, <1>6, <1>7, <1>8 DEF JournalBy

LEMMA CallKeeps ==
    ASSUME TypeOK, NEW t \in Token, JournalBy(t)
    PROVE  \A r \in RunId : Kept(r)
<1>1. CASE runs' = runs
  BY <1>1 DEF Kept, Exists
<1>2. ASSUME NEW c \in Config, NEW forceNew \in BOOLEAN,
             CreateOrResumeRun(ScopeOf[t], c, forceNew), NEW r \in RunId
      PROVE  Kept(r)
  <2>1. \/ runs'[r] = runs[r]
        \/ Unfinished(r) /\ runs'[r] = Released(runs[r], "superseded")
        \/ ~Exists(r)
    BY <1>2, CreateEffect, ScopeType
  <2>2. CASE Unfinished(r) /\ runs'[r] = Released(runs[r], "superseded")
    <3>1. runs[r] \in IndexRun /\ ~InState(r, {"committed"})
      BY <2>2 DEF Unfinished, InState, Exists, TypeOK, UnfinishedState
    <3>2. QED
      BY <2>2, <3>1, ReleasedRun, NoneAssumption DEF Kept, Exists, RunState
  <2>3. QED
    BY <2>1, <2>2 DEF Kept, Exists
<1>3. QED
  BY <1>1, <1>2, CallEffect, RunMovesKept DEF Retouched

\* A call leaves alone what other invocations hold.
Spares(o) ==
    \A r \in RunId : Holding(o, r)' =>
        /\ Holding(o, r) /\ runs'[r].status = runs[r].status
        /\ staged'[r] = staged[r] /\ digest'[r] = digest[r]

LEMMA RowsAfter ==
    ASSUME TypeOK, NEW t \in Token, JournalBy(t), NEW r \in RunId
    PROVE  \/ staged'[r] = staged[r] /\ digest'[r] = digest[r]
           \/ Holding(t, r)'
<1>1. ASSUME NEW s \in RunId, ClaimRun(s, t)
      PROVE  (staged'[r] = staged[r] /\ digest'[r] = digest[r]) \/ Holding(t, r)'
  <2>1. /\ runs[s] \in IndexRun
        /\ runs' = [runs EXCEPT ![s] = Claimed(runs[s], t)]
        /\ digest' = digest
    BY <1>1 DEF ClaimRun, Claimable, InState, Exists, TypeOK
  <2>2. r # s => staged'[r] = staged[r]
    BY <1>1 DEF ClaimRun, TypeOK
  <2>3. Holding(t, s)'
    BY <2>1, ClaimedRun, ClaimedFields, NoneAssumption DEF Holding, InState, Exists, TypeOK
  <2>4. QED
    BY <2>1, <2>2, <2>3
<1>2. ASSUME NEW s \in RunId, NEW p \in Project, NEW manifest \in Manifests,
             ReconcileManifest(s, t, p, manifest)
      PROVE  (staged'[r] = staged[r] /\ digest'[r] = digest[r]) \/ Holding(t, r)'
  <2>1. /\ runs[s] \in IndexRun /\ runs[s].status = "running" /\ runs[s].owner = t
        /\ runs' = [runs EXCEPT ![s] = Renewed(runs[s])]
    BY <1>2 DEF ReconcileManifest, Owns, InState, Exists, TypeOK
  <2>2. r # s => staged'[r] = staged[r] /\ digest'[r] = digest[r]
    BY <1>2 DEF ReconcileManifest, TypeOK
  <2>3. /\ Renewed(runs[s]) \in IndexRun
        /\ Renewed(runs[s]).status = "running" /\ Renewed(runs[s]).owner = t
    BY <2>1, RenewedRun, RenewedFields DEF RunState
  <2>4. Holding(t, s)'
    BY <2>1, <2>3, NoneAssumption DEF Holding, InState, Exists, TypeOK
  <2>5. QED
    BY <2>2, <2>4
<1>3. ASSUME NEW s \in RunId, NEW p \in Project, NEW d \in Doc, DocumentStep(s, t, p, d)
      PROVE  (staged'[r] = staged[r] /\ digest'[r] = digest[r]) \/ Holding(t, r)'
  <2>1. PICK row : staged' = [staged EXCEPT ![s][p][d] = row]
    BY <1>3 DEF DocumentStep, BeginDocument, CheckpointDocument, CheckpointDocumentError,
                ResetDocumentPending, Checkpoint
  <2>2. Owns(t, s) /\ runs' = runs /\ digest' = digest
    BY <1>3 DEF DocumentStep, BeginDocument, CheckpointDocument, CheckpointDocumentError,
                ResetDocumentPending, Checkpoint
  <2>3. Holding(t, s)'
    BY <2>2 DEF Holding, Owns, InState, Exists
  <2>4. r # s => staged'[r] = staged[r]
    BY <2>1 DEF TypeOK
  <2>5. QED
    BY <2>2, <2>3, <2>4
<1>4. ASSUME NEW s \in RunId, Heartbeat(s, t) \/ PauseRun(s, t) \/ FailRun(s, t)
                              \/ MarkRunReady(s, t)
      PROVE  UNCHANGED <<staged, digest>>
  BY <1>4 DEF Heartbeat, PauseRun, FailRun, MarkRunReady
<1>5. ASSUME Outside(t) \/ PublishStep(t)
      PROVE  UNCHANGED <<staged, digest>>
  BY <1>5 DEF Outside, CreateOrResumeRun, LeaseExpires, AbandonRun, SupersedeRun, vars,
              PublishStep, PreparePublication, ReportCommitted, CommitPublication,
              RollBackPublication, journalVars
<1>6. QED
  BY <1>1, <1>2, <1>3, <1>4, <1>5 DEF JournalBy, OwnerStep

LEMMA PublishingAfter ==
    ASSUME TypeOK, NEW t \in Token, JournalBy(t), NEW o \in Token \ {t}
    PROVE  publishing'[o] = publishing[o]
<1>1. ASSUME PublishStep(t)
      PROVE  publishing'[o] = publishing[o]
  BY <1>1 DEF PublishStep, PreparePublication, ReportCommitted, CommitPublication,
              RollBackPublication, vars, TypeOK
<1>2. ASSUME Outside(t)
      PROVE  publishing' = publishing
  BY <1>2 DEF Outside, CreateOrResumeRun, LeaseExpires, AbandonRun, SupersedeRun, vars
<1>3. ASSUME NEW r \in RunId, OwnerStep(r, t)
      PROVE  publishing' = publishing
  BY <1>3 DEF OwnerStep, ClaimRun, Heartbeat, PauseRun, FailRun, MarkRunReady,
              ReconcileManifest
<1>4. ASSUME NEW r \in RunId, NEW p \in Project, NEW d \in Doc, DocumentStep(r, t, p, d)
      PROVE  publishing' = publishing
  BY <1>4 DEF DocumentStep, BeginDocument, CheckpointDocument, CheckpointDocumentError,
              ResetDocumentPending, Checkpoint
<1>5. QED
  BY <1>1, <1>2, <1>3, <1>4 DEF JournalBy

LEMMA CreateSpares ==
    ASSUME TypeOK, NEW S \in (SUBSET Project) \ {{}}, NEW c \in Config,
           NEW forceNew \in BOOLEAN, CreateOrResumeRun(S, c, forceNew), NEW o \in Token
    PROVE  Spares(o)
<1>1. SUFFICES ASSUME NEW r \in RunId, Holding(o, r)'
               PROVE  runs'[r] = runs[r]
  BY CreateEffect DEF Spares, Holding, InState, Exists
<1>2. o # None
  BY NoneAssumption
<1>3. runs'[r].owner = o /\ runs'[r] # None
  BY <1>1 DEF Holding, InState, Exists
<1>4. runs'[r] # NewRun(S, c)
  BY <1>2, <1>3, NewRunConfig DEF TypeOK
<1>5. CASE Unfinished(r) /\ runs'[r] = Released(runs[r], "superseded")
  BY <1>2, <1>3, <1>5, ReleasedRun DEF Unfinished, InState, Exists, TypeOK, RunState
<1>6. QED
  BY <1>4, <1>5, CreateEffect

LEMMA CallSpares ==
    ASSUME TypeOK, NEW t \in Token, JournalBy(t), NEW o \in Token \ {t}
    PROVE  Spares(o)
<1>1. ASSUME NEW r \in RunId, Holding(o, r)'
      PROVE  Holding(o, r) /\ runs'[r].status = runs[r].status
  <2>1. CASE runs' = runs
    BY <1>1, <2>1 DEF Holding, InState, Exists
  <2>2. ASSUME NEW c \in Config, NEW forceNew \in BOOLEAN,
               CreateOrResumeRun(ScopeOf[t], c, forceNew)
        PROVE  Holding(o, r) /\ runs'[r].status = runs[r].status
    BY <1>1, <2>2, CreateSpares, ScopeType DEF Spares
  <2>3. ASSUME NEW s \in RunId, NEW run \in IndexRun, Retouched(t, s, run)
        PROVE  Holding(o, r) /\ runs'[r].status = runs[r].status
    <3>1. runs'[s] = run /\ \A q \in RunId \ {s} : runs'[q] = runs[q]
      BY <2>3 DEF Retouched, RunMoves, TypeOK
    <3>2. CASE r # s
      BY <1>1, <3>1, <3>2 DEF Holding, InState, Exists
    <3>3. CASE r = s
      <4>1. run.owner = o /\ Exists(s)
        BY <1>1, <2>3, <3>1, <3>3 DEF Holding, Retouched, RunMoves, Unfinished, InState
      <4>2. run.owner = runs[s].owner /\ run.status = runs[s].status
        BY <2>3, <4>1, NoneAssumption DEF Retouched
      <4>3. QED
        BY <1>1, <3>1, <3>3, <4>1, <4>2 DEF Holding, InState
    <3>4. QED
      BY <3>2, <3>3
  <2>4. QED
    BY <2>1, <2>2, <2>3, CallEffect
<1>2. ASSUME NEW r \in RunId, Holding(o, r)'
      PROVE  staged'[r] = staged[r] /\ digest'[r] = digest[r]
  <2>1. ~Holding(t, r)'
    BY <1>2 DEF Holding
  <2>2. QED
    BY <2>1, RowsAfter
<1>3. QED
  BY <1>1, <1>2 DEF Spares

LEMMA OverruledSpares ==
    ASSUME TypeOK, NEW r \in RunId, LeaseExpires(r) \/ AbandonRun(r) \/ SupersedeRun(r)
    PROVE  /\ \A o \in Token : Spares(o) /\ publishing'[o] = publishing[o]
           /\ \A s \in RunId : Kept(s)
           /\ UNCHANGED corpusVars
<1>1. publishing' = publishing /\ staged' = staged /\ digest' = digest
          /\ UNCHANGED corpusVars
  BY DEF LeaseExpires, AbandonRun, SupersedeRun
<1>2. CASE LeaseExpires(r)
  <2>1. /\ runs[r] \in IndexRun /\ Exists(r) /\ InState(r, {"running", "ready"})
        /\ runs' = [runs EXCEPT ![r] = [runs[r] EXCEPT !.fresh = FALSE]]
    BY <1>2 DEF LeaseExpires, InState, Exists, TypeOK
  <2>2. \A s \in RunId \ {r} : runs'[s] = runs[s]
    BY <2>1 DEF TypeOK
  <2>3. runs'[r].status = runs[r].status /\ runs'[r].owner = runs[r].owner
    BY <2>1, ExpiredFields DEF TypeOK
  <2>4. RunMoves(r, [runs[r] EXCEPT !.fresh = FALSE])
    BY <2>1, ExpiredFields DEF RunMoves
  <2>5. QED
    BY <1>1, <2>1, <2>2, <2>3, <2>4, RunMovesKept DEF Spares, Holding, InState, Exists
<1>3. CASE AbandonRun(r) \/ SupersedeRun(r)
  <2>1. PICK status \in RunState :
          /\ runs[r] \in IndexRun /\ Unfinished(r)
          /\ runs' = [runs EXCEPT ![r] = Released(runs[r], status)]
    BY <1>3 DEF AbandonRun, SupersedeRun, Unfinished, InState, Exists, TypeOK, RunState
  <2>2. \A s \in RunId \ {r} : runs'[s] = runs[s]
    BY <2>1 DEF TypeOK
  <2>3. runs'[r].owner = None
    BY <2>1, ReleasedRun DEF TypeOK
  <2>4. RunMoves(r, Released(runs[r], status))
    BY <2>1, ReleasedRun DEF RunMoves
  <2>5. \A o \in Token : Spares(o)
    BY <1>1, <2>2, <2>3, NoneAssumption DEF Spares, Holding, InState, Exists
  <2>6. QED
    BY <1>1, <2>4, <2>5, RunMovesKept
<1>4. QED
  BY <1>2, <1>3

LEMMA OutsideSpares ==
    ASSUME TypeOK, NEW t \in Token, Outside(t)
    PROVE  \A o \in Token : Spares(o) /\ publishing'[o] = publishing[o]
<1>1. ASSUME NEW c \in Config, NEW forceNew \in BOOLEAN,
             CreateOrResumeRun(ScopeOf[t], c, forceNew)
      PROVE  \A o \in Token : Spares(o) /\ publishing'[o] = publishing[o]
  BY <1>1, CreateSpares, ScopeType DEF CreateOrResumeRun
<1>2. CASE UNCHANGED vars
  BY <1>2 DEF Spares, Holding, InState, Exists, vars
<1>3. QED
  BY <1>1, <1>2, OverruledSpares DEF Outside

\* A publication leaves no run based on the corpus there is now.
LEMMA CorpusAfter ==
    ASSUME SchemaInv, SafetyInv, NEW t \in Token, JournalBy(t)
    PROVE  \/ UNCHANGED corpusVars
           \/ \A r \in RunId : Unfinished(r)' => runs'[r].base # generation'
<1>1. [Next]_vars /\ TypeOK
  BY JournalByIsNext DEF SchemaInv
<1>2. SUFFICES ASSUME NEW n \in RunId, Publishes(n), NEW r \in RunId, Unfinished(r)'
               PROVE  runs'[r].base # generation'
  BY <1>1, StepShape
<1>3. generation < generation' /\ generation \in Nat /\ generation' \in Nat
  <2>1. generation < generation' /\ generation' = n
    BY <1>1, <1>2, PublishingGrows DEF SafetyInv
  <2>2. QED
    BY <1>1, <2>1, ConstantsAssumption DEF TypeOK, RunId
<1>4. /\ runs[n] \in IndexRun
      /\ runs'[n] = Released(runs[n], "committed")
      /\ \A s \in RunId \ {n} : runs'[s] = runs[s]
  BY <1>1, <1>2 DEF Publishes, InState, Exists, TypeOK
<1>5. r # n
  BY <1>2, <1>4, ReleasedRun DEF Unfinished, InState, UnfinishedState, RunState
<1>6. Unfinished(r) /\ runs'[r] = runs[r]
  BY <1>2, <1>4, <1>5 DEF Unfinished, InState, Exists
<1>7. runs[r].base <= generation /\ runs[r].base \in Nat
  BY <1>1, <1>6 DEF SafetyInv, GenerationIsNewestCommit, Unfinished, InState, Exists,
                    TypeOK, IndexRun
<1>8. QED
  BY <1>3, <1>6, <1>7

LEMMA BasisAfter ==
    ASSUME NEW r \in RunId, Exists(r), Kept(r), Unfinished(r)',
           \/ UNCHANGED corpusVars
           \/ \A s \in RunId : Unfinished(s)' => runs'[s].base # generation'
    PROVE  /\ Basis(r)' \subseteq Basis(r)
           /\ runs'[r].base = generation' => UNCHANGED corpusVars
BY DEF Basis, Kept, corpusVars

LEMMA HoldingUnfinished ==
    ASSUME NEW t, NEW r, Holding(t, r)
    PROVE  Unfinished(r) /\ Exists(r)
BY DEF Holding, Unfinished, InState, UnfinishedState

-----------------------------------------------------------------------------
(* What the steps of others leave true of an invocation.                   *)

\* Another step: the invocation o itself stays where it is.
Aside(o) ==
    /\ worker'[o] = worker[o]
    /\ seen[o] \subseteq seen'[o]
    /\ publishing'[o] = publishing[o]
    /\ Spares(o)
    /\ \A r \in RunId : Kept(r)
    /\ \/ UNCHANGED corpusVars
       \/ \A r \in RunId : Unfinished(r)' => runs'[r].base # generation'

LEMMA AsideWorksOnRun ==
    ASSUME NEW o \in Token, Aside(o), WorksOnRun(o)
    PROVE  WorksOnRun(o)'
<1>1. /\ At(o, "done")' <=> At(o, "done")
      /\ At(o, "committing")' <=> At(o, "committing")
      /\ At(o, "observing")' <=> At(o, "observing")
      /\ Active(o)' <=> Active(o)
      /\ Run(o)' = Run(o)
  BY DEF Aside, At, Active, Run
<1>2. \A r \in RunId : Holding(o, r)' => Holding(o, r)
  BY DEF Aside, Spares
<1>3. Active(o) => /\ Run(o) \in RunId
                   /\ Exists(Run(o))'
                   /\ runs'[Run(o)].scope = ScopeOf[o]
  <2>1. Active(o) => Run(o) \in RunId /\ Exists(Run(o)) /\ runs[Run(o)].scope = ScopeOf[o]
    BY DEF WorksOnRun
  <2>2. Run(o) \in RunId => Kept(Run(o))
    BY DEF Aside
  <2>3. QED
    BY <2>1, <2>2 DEF Kept, Exists
<1>4. ASSUME worker[o].pc \in {"publishing", "committing"}, Owns(o, Run(o))'
      PROVE  FALSE
  <2>1. Run(o) \in RunId
    BY <1>4 DEF WorksOnRun, Active
  <2>2. Holding(o, Run(o))'
    BY <1>4 DEF Holding, Owns, InState
  <2>3. Holding(o, Run(o)) /\ runs'[Run(o)].status = runs[Run(o)].status
    BY <1>1, <2>1, <2>2 DEF Aside, Spares
  <2>4. Owns(o, Run(o))
    BY <1>1, <1>4, <2>3 DEF Owns, Holding, InState
  <2>5. QED
    BY <1>4, <2>4 DEF WorksOnRun
<1>5. At(o, "observing") => seen'[o] # {}
  BY DEF Aside, WorksOnRun
<1>6. QED
  BY <1>1, <1>2, <1>3, <1>4, <1>5 DEF WorksOnRun, Aside

LEMMA ConfigStays ==
    ASSUME NEW o \in Token, NEW r \in RunId, Holding(o, r)', Holding(o, r),
           runs'[r].status = runs[r].status, \A s \in RunId : Kept(s),
           \/ UNCHANGED corpusVars
           \/ \A s \in RunId : Unfinished(s)' => runs'[s].base # generation',
           Run(o) = r, Run(o)' = r, At(o, "failing")' <=> At(o, "failing"),
           ConfigOK(o)
    PROVE  ConfigOK(o)'
<1>1. Exists(r) /\ Unfinished(r)'
  BY HoldingUnfinished DEF Holding, Unfinished, InState, UnfinishedState
<1>2. /\ runs'[r].config = runs[r].config /\ runs'[r].scope = runs[r].scope
      /\ runs'[r].base = runs[r].base
  BY <1>1 DEF Kept
<1>3. Owns(o, r)' <=> Owns(o, r)
  BY DEF Owns, Holding, InState
<1>4. ASSUME NEW s \in RunId, InState(s, {"committed"}), Disagree(runs[r], runs[s])
      PROVE  InState(s, {"committed"})' /\ Disagree(runs'[r], runs'[s])
  <2>1. runs'[s] = runs[s]
    BY <1>4 DEF Kept, InState
  <2>2. QED
    BY <1>2, <1>4, <2>1 DEF Disagree, InState, Exists
<1>5. runs'[r].base = generation' => UNCHANGED corpusVars
  BY <1>1
<1>6. CASE At(o, "failing") /\ Owns(o, r)
  BY <1>3, <1>4, <1>6 DEF ConfigOK
<1>7. CASE ~(At(o, "failing") /\ Owns(o, r))
  <2>1. SUFFICES ASSUME runs'[r].base = generation'
                 PROVE  AcceptsConfig(runs[r].config, ScopeOf[o])'
    BY <1>3, <1>7 DEF ConfigOK
  <2>2. AcceptsConfig(runs[r].config, ScopeOf[o])
    BY <1>2, <1>5, <1>7, <2>1 DEF ConfigOK, corpusVars
  <2>3. QED
    BY <1>2, <1>5, <2>1, <2>2 DEF AcceptsConfig, corpusVars
<1>8. QED
  BY <1>6, <1>7

LEMMA AsideKnows ==
    ASSUME NEW o \in Token, Aside(o), WorksOnRun(o), Has(o) => Knows(o), Has(o)'
    PROVE  Knows(o)'
<1>1. PICK r : r = Run(o)
  OBVIOUS
<1>2. Run(o)' = r /\ Active(o) /\ r \in RunId /\ At(o, "failing")' = At(o, "failing")
  BY <1>1 DEF Aside, Has, Active, Run, WorksOnRun, At
<1>3. /\ Holding(o, r)' /\ Holding(o, r) /\ runs'[r].status = runs[r].status
      /\ staged'[r] = staged[r] /\ digest'[r] = digest[r]
  BY <1>2 DEF Aside, Spares, Has
<1>4. Knows(o)
  BY <1>1, <1>2, <1>3 DEF Has
<1>5. Basis(r)' \subseteq Basis(r)
  BY <1>2, <1>3, BasisAfter DEF Aside, Holding, Unfinished, InState, UnfinishedState
<1>6. OwnerOK(o, worker[o], seen'[o], Basis(r)', staged[r], digest[r])
  BY <1>1, <1>4, <1>5, OwnerOKStays DEF Knows, Aside
<1>7. OwnerOK(o, worker[o], seen[o], Basis(Run(o)), staged[Run(o)], digest[Run(o)])'
  BY <1>2, <1>3, <1>6 DEF Aside, Basis
<1>8. ConfigOK(o)'
  BY <1>1, <1>2, <1>3, <1>4, ConfigStays DEF Aside, Knows
<1>9. QED
  BY <1>7, <1>8 DEF Knows

-----------------------------------------------------------------------------
(* Each step of an invocation is a call of the journal and keeps the types. *)

RunnerBase ==
    /\ SchemaInv /\ SafetyInv /\ RunnerTypeOK
    /\ \A t \in Token : WorksOnRun(t)

LEMMA ActiveAt ==
    ASSUME RunnerBase, NEW t \in Token, Active(t)
    PROVE  /\ worker[t] \in Worker
           /\ Run(t) \in RunId /\ runs[Run(t)] \in IndexRun
           /\ staged[Run(t)] \in StagedDocuments
BY DEF RunnerBase, SchemaInv, TypeOK, RunnerTypeOK, WorksOnRun, Exists

LEMMA StartTakes ==
    ASSUME RunnerBase, NEW t \in Token, Start(t)
    PROVE  JournalBy(t) /\ StepOf(t)
<1>1. PICK config \in ConfigOf[t], forceNew \in BOOLEAN :
          CreateOrResumeRun(ScopeOf[t], config, forceNew)
  BY DEF Start
<1>2. config \in Config
  BY RunnerAssumption
<1>3. PICK r \in Overlapping(ScopeOf[t])' :
          Becomes(t, [NewWorker EXCEPT !.pc = "claiming", !.run = r])
  BY DEF Start
<1>4. r \in RunId
  BY <1>3 DEF Overlapping
<1>5. [NewWorker EXCEPT !.pc = "claiming", !.run = r] \in Worker
  BY <1>4, ClaimingType
<1>6. UNCHANGED <<source, cancelled, edits, faults, seen>>
  BY DEF Start
<1>7. StepOf(t)
  BY <1>3, <1>5, <1>6, BecomesStep DEF RunnerBase
<1>8. QED
  BY <1>1, <1>2, <1>7 DEF JournalBy, Outside

LEMMA StartNamedTakes ==
    ASSUME RunnerBase, NEW t \in Token, NEW r \in RunId, StartNamed(t, r)
    PROVE  JournalBy(t) /\ StepOf(t) /\ UNCHANGED vars
<1>1. CASE ReportCommitted(r, t) /\ Ends(t)
  <2>1. UNCHANGED <<source, cancelled, edits, faults>>
    BY DEF StartNamed
  <2>2. StepOf(t)
    BY <1>1, <2>1, EndsStep DEF RunnerBase
  <2>3. QED
    BY <1>1, <2>2 DEF JournalBy, Outside, ReportCommitted
<1>2. CASE /\ Becomes(t, [NewWorker EXCEPT !.pc = "claiming", !.run = r])
           /\ UNCHANGED <<vars, seen>>
  <2>1. [NewWorker EXCEPT !.pc = "claiming", !.run = r] \in Worker
    BY ClaimingType
  <2>2. UNCHANGED <<source, cancelled, edits, faults>>
    BY DEF StartNamed
  <2>3. StepOf(t)
    BY <1>2, <2>1, <2>2, BecomesStep DEF RunnerBase
  <2>4. QED
    BY <1>2, <2>3 DEF JournalBy, Outside
<1>3. QED
  BY <1>1, <1>2 DEF StartNamed

LEMMA ClaimTakes ==
    ASSUME RunnerBase, NEW t \in Token, Claim(t)
    PROVE  JournalBy(t) /\ StepOf(t)
<1>1. At(t, "claiming") /\ Active(t)
  BY DEF Claim, At, Active
<1>2. worker[t] \in Worker /\ Run(t) \in RunId
  BY <1>1, ActiveAt
<1>3. UNCHANGED <<source, cancelled, edits, faults>>
  BY DEF Claim
<1>4. CASE ~Claimable(Run(t), t) /\ Ends(t) /\ UNCHANGED vars
  <2>1. StepOf(t)
    BY <1>3, <1>4, EndsStep DEF RunnerBase
  <2>2. QED
    BY <1>4, <2>1 DEF JournalBy, Outside
<1>5. ASSUME NEW pc \in {"refreshing", "failing"}, NEW pass \in BOOLEAN,
             ClaimRun(Run(t), t),
             Becomes(t, [worker[t] EXCEPT !.pc = pc, !.pass = pass]), UNCHANGED seen
      PROVE  JournalBy(t) /\ StepOf(t)
  <2>1. [worker[t] EXCEPT !.pc = pc, !.pass = pass] \in Worker
    <3> DEFINE w == [worker[t] EXCEPT !.pc = pc]
    <3>1. w \in Worker
      BY <1>2, <1>5, GoesType DEF Pc
    <3> HIDE DEF w
    <3>2. [w EXCEPT !.pass = pass] \in Worker
      BY <1>5, <3>1 DEF Worker
    <3>3. [worker[t] EXCEPT !.pc = pc, !.pass = pass] = [w EXCEPT !.pass = pass]
      BY DEF w
    <3>4. QED
      BY <3>2, <3>3
  <2>2. StepOf(t)
    BY <1>3, <1>5, <2>1, BecomesStep DEF RunnerBase
  <2>3. QED
    BY <1>2, <1>5, <2>2 DEF JournalBy, OwnerStep
<1>6. QED
  BY <1>4, <1>5 DEF Claim

LEMMA QuietTakes ==
    ASSUME RunnerBase, NEW t \in Token, Active(t), NEW pc \in Pc, Goes(t, pc),
           UNCHANGED vars, UNCHANGED <<source, cancelled, edits, seen>>,
           Fault \/ UNCHANGED faults
    PROVE  JournalBy(t) /\ StepOf(t) /\ worker'[t] = [worker[t] EXCEPT !.pc = pc]
BY GoesStep DEF RunnerBase, JournalBy, Outside

LEMMA FailTakes ==
    ASSUME RunnerBase, NEW t \in Token, Fail(t)
    PROVE  JournalBy(t) /\ StepOf(t)
<1>1. Run(t) \in RunId
  BY ActiveAt DEF Fail, At, Active
<1>2. StepOf(t)
  BY EndsStep DEF RunnerBase, Fail
<1>3. JournalBy(t)
  BY <1>1 DEF Fail, JournalBy, OwnerStep, Outside
<1>4. QED
  BY <1>2, <1>3

LEMMA PauseTakes ==
    ASSUME RunnerBase, NEW t \in Token, Pause(t)
    PROVE  JournalBy(t) /\ StepOf(t)
<1>1. Run(t) \in RunId
  BY ActiveAt DEF Pause, At, Active
<1>2. StepOf(t)
  BY EndsStep DEF RunnerBase, Pause
<1>3. JournalBy(t)
  BY <1>1 DEF Pause, JournalBy, OwnerStep
<1>4. QED
  BY <1>2, <1>3

LEMMA RefreshTakes ==
    ASSUME RunnerBase, NEW t \in Token, Refresh(t)
    PROVE  JournalBy(t) /\ StepOf(t)
<1>1. worker[t] \in Worker /\ Run(t) \in RunId /\ staged[Run(t)] \in StagedDocuments
  BY ActiveAt DEF Refresh, At, Active
<1>2. PICK w : w = [worker[t] EXCEPT !.pc = "observing",
                                     !.prior = staged[Run(t)],
                                     !.unlisted = ScopeOf[t],
                                     !.unreconciled = ScopeOf[t],
                                     !.changed = FALSE]
  OBVIOUS
<1>3. w \in Worker
  BY <1>1, <1>2, ScopeType DEF Worker, Pc
<1>4. Becomes(t, w) /\ seen' = [seen EXCEPT ![t] = {source}]
          /\ UNCHANGED <<source, cancelled, edits, faults>>
  BY <1>2 DEF Refresh
<1>5. StepOf(t)
  BY <1>3, <1>4, BecomesStep DEF RunnerBase
<1>6. JournalBy(t)
  BY <1>1 DEF Refresh, JournalBy, OwnerStep
<1>7. QED
  BY <1>5, <1>6

Listing(w, p, listed, files, unread, manifest) ==
    [w EXCEPT !.unlisted = @ \ {p}, !.project = p, !.listed = listed,
              !.files = files, !.unread = unread, !.manifest[p] = manifest]

HasListed(w2, w, p, listed, files, unread, manifest) ==
    /\ w2 \in Worker
    /\ w2.pc = w.pc /\ w2.run = w.run /\ w2.unlisted = w.unlisted \ {p}
    /\ w2.project = p /\ w2.listed = listed /\ w2.files = files
    /\ w2.unread = unread /\ w2.unreconciled = w.unreconciled
    /\ w2.prior = w.prior
    /\ w2.manifest[p] = manifest
    /\ \A q \in Project \ {p} : w2.manifest[q] = w.manifest[q]

LEMMA ListedFields ==
    ASSUME NEW w \in Worker, NEW p \in Project, NEW listed \in [Doc -> Rev \cup {None}],
           NEW files \in [Doc -> Observation \cup {None}], NEW unread \in SUBSET Doc,
           NEW manifest \in Manifest, NEW w2,
           w2 = Listing(w, p, listed, files, unread, manifest)
    PROVE  HasListed(w2, w, p, listed, files, unread, manifest)
<1> DEFINE w1 == [w EXCEPT !.unlisted = @ \ {p}, !.project = p, !.listed = listed]
<1>1. /\ w1 \in Worker
      /\ w1.pc = w.pc /\ w1.run = w.run /\ w1.unlisted = w.unlisted \ {p}
      /\ w1.project = p /\ w1.listed = listed
      /\ w1.unreconciled = w.unreconciled
      /\ w1.prior = w.prior
      /\ w1.manifest = w.manifest
  BY DEF Worker
<1>2. w2 = [w1 EXCEPT !.files = files, !.unread = unread, !.manifest[p] = manifest]
  BY DEF Listing
<1> HIDE DEF w1
<1>3. w2 \in Worker
  <2>1. [w1.manifest EXCEPT ![p] = manifest] \in [Project -> Manifest]
    BY <1>1 DEF Worker
  <2> DEFINE v == [w1 EXCEPT !.files = files, !.unread = unread]
  <2>2. v \in Worker /\ v.manifest = w1.manifest
    BY <1>1 DEF Worker
  <2>3. w2 = [v EXCEPT !.manifest[p] = manifest]
    BY <1>2
  <2> HIDE DEF v
  <2>4. w2 = [v EXCEPT !.manifest = [w1.manifest EXCEPT ![p] = manifest]]
    BY <2>2, <2>3 DEF Worker
  <2>5. QED
    BY <2>1, <2>2, <2>4 DEF Worker
<1>4. /\ w2.pc = w.pc /\ w2.run = w.run /\ w2.unlisted = w.unlisted \ {p}
      /\ w2.project = p /\ w2.listed = listed /\ w2.files = files
      /\ w2.unread = unread /\ w2.unreconciled = w.unreconciled
      /\ w2.prior = w.prior
      /\ w2.manifest = [w.manifest EXCEPT ![p] = manifest]
  BY <1>1, <1>2 DEF Worker
<1>5. w.manifest \in [Project -> Manifest]
  BY DEF Worker
<1>6. QED
  BY <1>3, <1>4, <1>5 DEF HasListed

HasObserved(w2, w, d, obs) ==
    /\ w2 \in Worker
    /\ w2.pc = w.pc /\ w2.run = w.run /\ w2.unlisted = w.unlisted
    /\ w2.project = w.project /\ w2.listed = w.listed /\ w2.files = w.files
    /\ w2.unread = w.unread \ {d} /\ w2.unreconciled = w.unreconciled
    /\ w2.prior = w.prior
    /\ obs \in Observation
    /\ w2.manifest[w.project][d] = [obs |-> obs, action |-> ActionFor(w.files[d], obs)]
    /\ \A q \in Project, e \in Doc :
         q # w.project \/ e # d => w2.manifest[q][e] = w.manifest[q][e]

LEMMA ObservedFields ==
    ASSUME NEW w \in Worker, NEW d \in Doc, NEW hash \in Hash, w.project \in Project,
           w.listed[d] \in Rev, NEW w2, w2 = Observed(w, d, hash), NEW obs,
           obs = [path |-> d, hash |-> hash, rev |-> w.listed[d]]
    PROVE  HasObserved(w2, w, d, obs)
<1> DEFINE entry == [obs |-> obs, action |-> ActionFor(w.files[d], obs)]
<1>1. obs \in Observation
  BY RunnerAssumption DEF Observation
<1>2. ActionFor(w.files[d], obs) \in DocumentAction
  BY DEF ActionFor, DocumentAction
<1>3. entry \in ManifestDocument
  BY <1>1, <1>2 DEF ManifestDocument
<1>4. w2 = [w EXCEPT !.unread = @ \ {d}, !.manifest[w.project][d] = entry]
  BY DEF Observed
<1> HIDE DEF entry
<1>5. w.manifest \in [Project -> [Doc -> ManifestDocument \cup {None}]]
  BY DEF Worker, Manifest
<1>6. [w.manifest EXCEPT ![w.project][d] = entry] \in [Project -> Manifest]
  BY <1>3, <1>5 DEF Manifest
<1>7. w2 = [w EXCEPT !.unread = w.unread \ {d},
                     !.manifest = [w.manifest EXCEPT ![w.project][d] = entry]]
  BY <1>4 DEF Worker
<1>8. w2 \in Worker
  BY <1>6, <1>7 DEF Worker
<1>9. /\ w2.pc = w.pc /\ w2.run = w.run /\ w2.unlisted = w.unlisted
      /\ w2.project = w.project /\ w2.listed = w.listed /\ w2.files = w.files
      /\ w2.unread = w.unread \ {d} /\ w2.unreconciled = w.unreconciled
      /\ w2.prior = w.prior
      /\ w2.manifest = [w.manifest EXCEPT ![w.project][d] = entry]
  BY <1>7 DEF Worker
<1>10. /\ w2.manifest[w.project][d] = entry
       /\ \A q \in Project, e \in Doc :
            q # w.project \/ e # d => w2.manifest[q][e] = w.manifest[q][e]
  BY <1>5, <1>9
<1>11. QED
  BY <1>1, <1>8, <1>9, <1>10 DEF entry, HasObserved

\* A worker between two refreshes remembers nothing.
LEMMA NextRoundMemory ==
    ASSUME NEW w, NEW pass
    PROVE  /\ NextRound(w, pass).prior = NoDocuments
           /\ MemoryOK(NextRound(w, pass))
<1>1. /\ NextRound(w, pass).prior = NoDocuments
      /\ NextRound(w, pass).unread = {}
  BY DEF NextRound, NewWorker
<1>2. QED
  BY <1>1 DEF MemoryOK, NoDocuments

LEMMA RefusedTakes ==
    ASSUME RunnerBase, NEW t \in Token, Refused(t) \/ Interrupted(t)
    PROVE  /\ JournalBy(t) /\ StepOf(t) /\ Active(t) /\ UNCHANGED <<vars, source, seen>>
           /\ worker'[t] = [worker[t] EXCEPT !.pc = IF Refused(t) THEN "failing" ELSE "pausing"]
<1>1. Active(t)
  BY DEF Refused, CallRefused, Interrupted, At, Active
<1>2. CASE Refused(t)
  BY <1>1, <1>2, QuietTakes DEF Refused, Pc
<1>3. CASE ~Refused(t)
  BY <1>1, <1>3, QuietTakes DEF Interrupted, Pc
<1>4. QED
  BY <1>1, <1>2, <1>3 DEF Refused, Interrupted

\* What a listing makes of the source and of the live files.
ListedRevs(p) == [d \in Doc |-> IF source[p][d] = None THEN None ELSE source[p][d].rev]
ListedDocs(p) == {d \in Doc : source[p][d] # None}
Deletions(p) == [d \in Doc |-> IF source[p][d] = None /\ live[p][d] # None
                               THEN DeletionRow(d, live[p][d]) ELSE None]

LEMMA ListTakes ==
    ASSUME RunnerBase, NEW t \in Token, NEW p \in Project, List(t, p)
    PROVE  /\ JournalBy(t) /\ StepOf(t) /\ UNCHANGED <<vars, source, seen>>
           /\ \/ worker'[t] = [worker[t] EXCEPT !.pc = "pausing"]
              \/ HasListed(worker'[t], worker[t], p, ListedRevs(p), live[p],
                           ListedDocs(p), Deletions(p))
<1>1. At(t, "observing") /\ Active(t) /\ UNCHANGED <<vars, source, cancelled, edits, seen>>
  BY DEF List, At, Active
<1>2. CASE Fault /\ Goes(t, "pausing")
  BY <1>1, <1>2, QuietTakes DEF Pc, vars
<1>3. CASE ~(Fault /\ Goes(t, "pausing"))
  <2>1. /\ worker[t] \in Worker
        /\ source \in [Project -> [Doc -> Observation \cup {None}]]
        /\ live \in [Project -> [Doc -> Observation \cup {None}]]
    BY <1>1, ActiveAt DEF RunnerBase, RunnerTypeOK, SchemaInv, TypeOK
  <2>2. ListedRevs(p) \in [Doc -> Rev \cup {None}]
    BY <2>1 DEF ListedRevs, Observation
  <2>3. ASSUME NEW d \in Doc, live[p][d] # None
        PROVE  DeletionRow(d, live[p][d]) \in ManifestDocument
    <3>1. live[p][d] \in Observation
      BY <2>1, <2>3
    <3>2. [path |-> d, hash |-> NoHash, rev |-> live[p][d].rev] \in Observation
      BY <3>1, RunnerAssumption DEF Observation
    <3>3. QED
      BY <3>2 DEF DeletionRow, ManifestDocument, DocumentAction
  <2>4. Deletions(p) \in Manifest
    BY <2>3 DEF Deletions, Manifest
  <2>5. live[p] \in [Doc -> Observation \cup {None}] /\ ListedDocs(p) \in SUBSET Doc
    BY <2>1 DEF ListedDocs
  <2>6. PICK w, listed, files, unread, manifest :
          /\ w = worker[t] /\ listed = ListedRevs(p) /\ files = live[p]
          /\ unread = ListedDocs(p) /\ manifest = Deletions(p)
    OBVIOUS
  <2>7. PICK w2 : w2 = Listing(w, p, listed, files, unread, manifest)
    OBVIOUS
  <2>8. Becomes(t, w2) /\ UNCHANGED faults
    BY <1>3, <2>6, <2>7 DEF List, Listing, ListedRevs, ListedDocs, Deletions
  <2>9. HasListed(w2, w, p, listed, files, unread, manifest)
    <3>1. w \in Worker /\ listed \in [Doc -> Rev \cup {None}]
            /\ files \in [Doc -> Observation \cup {None}] /\ unread \in SUBSET Doc
            /\ manifest \in Manifest
      BY <2>1, <2>2, <2>4, <2>5, <2>6
    <3>2. QED
      BY <2>7, <3>1, ListedFields
  <2>10. StepOf(t) /\ worker'[t] = w2
    <3>1. w2 \in Worker
      BY <2>9 DEF HasListed
    <3>2. QED
      BY <1>1, <2>8, <3>1, BecomesStep DEF RunnerBase
  <2>11. JournalBy(t)
    BY <1>1 DEF JournalBy, Outside
  <2>12. QED
    BY <1>1, <2>6, <2>9, <2>10, <2>11 DEF At
<1>4. QED
  BY <1>2, <1>3

LEMMA TrustedHashType ==
    ASSUME NEW t, NEW w \in Worker, MemoryOK(w), NEW d \in w.unread
    PROVE  /\ TrustedHash(t, w, d) \subseteq Hash
           /\ d \in Doc /\ w.project \in Project /\ w.listed[d] \in Rev
<1>1. d \in Doc /\ w.project \in Project /\ w.listed[d] \in Rev
  BY DEF MemoryOK, Worker
<1>2. w.files[d] \in Observation \cup {None}
          /\ w.prior[w.project][d] \in StagedDocument \cup {None}
  BY <1>1 DEF Worker, StagedDocuments
<1>3. w.files[d] # None => w.files[d].hash \in Hash
  BY <1>2 DEF Observation
<1>4. ASSUME w.prior[w.project][d] # None, w.prior[w.project][d].action # "delete"
      PROVE  w.prior[w.project][d].obs.hash \in Hash
  <2>1. w.prior[w.project][d].obs \in Observation
    BY <1>1, <1>2, <1>4 DEF MemoryOK, WellFormedRow, StagedDocument
  <2>2. QED
    BY <2>1 DEF Observation
<1>5. QED
  BY <1>1, <1>3, <1>4 DEF TrustedHash

\* What a step of a refresh may find for a document: a trusted hash, the content
\* of a file with the listed revision, or an error.
MayFind(t, w, d, hash) ==
    \/ hash \in TrustedHash(t, w, d)
    \/ TrustedHash(t, w, d) = {} /\ hash = ReadError
    \/ /\ TrustedHash(t, w, d) = {} /\ IsStable(source[w.project][d], w.listed[d])
       /\ hash = source[w.project][d].hash

LEMMA ObserveTakes ==
    ASSUME RunnerBase, NEW t \in Token, NEW d \in Doc, Observe(t, d)
    PROVE  /\ JournalBy(t) /\ StepOf(t) /\ UNCHANGED <<vars, source, seen>>
           /\ At(t, "observing") /\ d \in worker[t].unread
           /\ \/ worker'[t] = NextRound(worker[t], worker[t].pass)
              \/ \E hash \in Hash : \E obs :
                    /\ MayFind(t, worker[t], d, hash)
                    /\ obs = [path |-> d, hash |-> hash, rev |-> worker[t].listed[d]]
                    /\ HasObserved(worker'[t], worker[t], d, obs)
<1>1. PICK w : w = worker[t]
  OBVIOUS
<1>2. /\ At(t, "observing") /\ Active(t) /\ UNCHANGED <<vars, source, cancelled, edits, seen>>
      /\ d \in w.unread
  BY <1>1 DEF Observe, At, Active
<1>3. w \in Worker /\ MemoryOK(w)
  BY <1>1, <1>2, ActiveAt DEF RunnerBase, WorksOnRun
<1>4. /\ TrustedHash(t, w, d) \subseteq Hash
      /\ w.project \in Project /\ w.listed[d] \in Rev
  BY <1>2, <1>3, TrustedHashType
<1>5. JournalBy(t) /\ UNCHANGED <<vars, source, seen>>
  BY <1>2 DEF JournalBy, Outside
<1>6. ASSUME Becomes(t, NextRound(w, w.pass)), UNCHANGED faults
      PROVE  StepOf(t) /\ worker'[t] = NextRound(worker[t], worker[t].pass)
  <2>1. NextRound(w, w.pass) \in Worker
    BY <1>3, SameRoundType
  <2>2. QED
    BY <1>1, <1>2, <1>6, <2>1, BecomesStep DEF RunnerBase
<1>7. ASSUME NEW hash \in Hash, MayFind(t, w, d, hash), Becomes(t, Observed(w, d, hash)),
             Fault \/ UNCHANGED faults
      PROVE  /\ StepOf(t)
             /\ \E obs : /\ obs = [path |-> d, hash |-> hash, rev |-> worker[t].listed[d]]
                         /\ HasObserved(worker'[t], worker[t], d, obs)
  <2>1. PICK obs : obs = [path |-> d, hash |-> hash, rev |-> w.listed[d]]
    OBVIOUS
  <2>2. PICK w2 : w2 = Observed(w, d, hash)
    OBVIOUS
  <2>3. HasObserved(w2, w, d, obs)
    BY <1>3, <1>4, <2>1, <2>2, ObservedFields
  <2>4. w2 \in Worker
    BY <2>3 DEF HasObserved
  <2>5. StepOf(t) /\ worker'[t] = w2
    BY <1>2, <1>7, <2>2, <2>4, BecomesStep DEF RunnerBase
  <2>6. QED
    BY <1>1, <2>1, <2>3, <2>5
<1>8. ReadError \in Hash
  BY RunnerAssumption
<1>9. IsStable(source[w.project][d], w.listed[d]) => source[w.project][d].hash \in Hash
  <2>1. source[w.project][d] \in Observation \cup {None}
    BY <1>4 DEF RunnerBase, RunnerTypeOK
  <2>2. QED
    BY <2>1 DEF IsStable, Observation
<1>10. \/ Becomes(t, NextRound(w, w.pass)) /\ UNCHANGED faults
       \/ \E hash \in Hash : /\ MayFind(t, w, d, hash)
                             /\ Becomes(t, Observed(w, d, hash))
                             /\ Fault \/ UNCHANGED faults
  BY <1>1, <1>4, <1>8, <1>9 DEF Observe, MayFind
<1>11. QED
  BY <1>1, <1>2, <1>5, <1>6, <1>7, <1>10

LEMMA ReconcileTakes ==
    ASSUME RunnerBase, NEW t \in Token, NEW p \in Project, Reconcile(t, p)
    PROVE  /\ JournalBy(t) /\ StepOf(t) /\ worker[t] \in Worker
           /\ worker[t].manifest[p] \in Manifest
           /\ \/ /\ worker[t].unreconciled = {p}
                 /\ worker'[t].pc \in {"counting", "settled"}
                 /\ worker'[t].run = Run(t)
                 /\ MemoryOK(worker'[t])
              \/ /\ worker[t].unreconciled # {p}
                 /\ \E changed \in BOOLEAN :
                       worker'[t] = [worker[t] EXCEPT !.unreconciled = @ \ {p},
                                                      !.changed = changed]
<1>1. PICK w : w = worker[t]
  OBVIOUS
<1>2. PICK changed \in BOOLEAN : changed = (w.changed \/ RefreshChanges(w.run, p, w.manifest[p]))
  OBVIOUS
<1>3. /\ At(t, "observing") /\ Active(t) /\ UNCHANGED <<source, cancelled, edits, faults, seen>>
      /\ ReconcileManifest(Run(t), t, p, w.manifest[p])
  BY <1>1 DEF Reconcile, At, Active, Run
<1>4. w \in Worker /\ w.manifest[p] \in Manifest /\ Run(t) \in RunId
  <2>1. w \in Worker /\ Run(t) \in RunId
    BY <1>1, <1>3, ActiveAt
  <2>2. QED
    BY <2>1 DEF Worker
<1>5. JournalBy(t)
  <2>1. w.manifest[p] \in Manifests
    BY <1>4, CallsAssumption
  <2>2. QED
    BY <1>3, <1>4, <2>1 DEF JournalBy, OwnerStep
<1>6. CASE w.unreconciled = {p}
  <2>1. PICK w2 : w2 = Refreshed(w, changed)
    OBVIOUS
  <2>2. PICK n : n = NextRound(w, w.pass)
    OBVIOUS
  <2>3. n \in Worker /\ n.run = w.run /\ n.unread = {}
    BY <1>4, <2>2, SameRoundType
  <2>4. PICK pc \in {"counting", "settled"} : w2 = [n EXCEPT !.pc = pc, !.changed = changed]
    BY <2>1, <2>2 DEF Refreshed
  <2>5. w2 \in Worker /\ w2.pc = pc /\ w2.run = w.run /\ w2.unread = {}
            /\ w2.prior = n.prior
    <3> DEFINE v == [n EXCEPT !.pc = pc]
    <3> pc \in Pc
      BY <2>4 DEF Pc
    <3>1. v \in Worker /\ v.pc = pc /\ v.run = w.run /\ v.unread = {} /\ v.prior = n.prior
      BY <2>3, GoesType
    <3>2. w2 = [v EXCEPT !.changed = changed]
      BY <2>4
    <3> HIDE DEF v
    <3>3. QED
      BY <3>1, <3>2 DEF Worker
  <2>6. Becomes(t, w2)
    BY <1>1, <1>2, <1>6, <2>1 DEF Reconcile
  <2>7. StepOf(t) /\ worker'[t] = w2
    BY <1>3, <2>5, <2>6, BecomesStep DEF RunnerBase
  <2>8. MemoryOK(w2)
    BY <2>2, <2>5, NextRoundMemory DEF MemoryOK
  <2>9. QED
    BY <1>1, <1>4, <1>5, <1>6, <2>5, <2>7, <2>8 DEF Run
<1>7. CASE w.unreconciled # {p}
  <2>1. PICK w2 : w2 = [w EXCEPT !.unreconciled = @ \ {p}, !.changed = changed]
    OBVIOUS
  <2>2. w2 \in Worker
    BY <1>4, <2>1 DEF Worker
  <2>3. Becomes(t, w2)
    BY <1>1, <1>2, <1>7, <2>1 DEF Reconcile
  <2>4. StepOf(t) /\ worker'[t] = w2
    BY <1>3, <2>2, <2>3, BecomesStep DEF RunnerBase
  <2>5. QED
    BY <1>1, <1>4, <1>5, <1>7, <2>1, <2>4
<1>8. QED
  BY <1>6, <1>7

SameMemory(w2, w) ==
    /\ w2.run = w.run /\ w2.unread = w.unread /\ w2.project = w.project
    /\ w2.listed = w.listed /\ w2.prior = w.prior

LEMMA CountRoundTakes ==
    ASSUME RunnerBase, NEW t \in Token, CountRound(t)
    PROVE  /\ JournalBy(t) /\ StepOf(t) /\ At(t, "counting")
           /\ \E pc \in {"pausing", "settled"} : worker'[t] = [worker[t] EXCEPT !.pc = pc]
<1>1. PICK pc \in {"pausing", "settled"} : Goes(t, pc)
  BY DEF CountRound
<1>2. pc \in Pc
  BY DEF Pc
<1>3. StepOf(t) /\ worker'[t] = [worker[t] EXCEPT !.pc = pc]
  BY <1>1, <1>2, GoesStep DEF CountRound, RunnerBase
<1>4. JournalBy(t)
  BY ActiveAt DEF CountRound, At, Active, JournalBy, OwnerStep
<1>5. QED
  BY <1>3, <1>4 DEF CountRound

\* A worker that starts or continues the work on documents.
HasTodo(w2, w, todo) ==
    w2 \in Worker /\ SameMemory(w2, w) /\ w2.pc = "processing" /\ w2.todo = todo
HasDoc(w2, w, p, d) ==
    /\ w2 \in Worker /\ SameMemory(w2, w) /\ w2.pc = "reading"
    /\ w2.doc = <<p, d>> /\ w2.todo \subseteq w.todo /\ <<p, d>> \notin w2.todo

TakesUp(w, todo) == [w EXCEPT !.pc = "processing", !.todo = todo]
Finishes(w) == [w EXCEPT !.pc = "processing", !.doc = None]
Reads(w, p, d) == [w EXCEPT !.pc = "reading", !.doc = <<p, d>>, !.todo = @ \ {<<p, d>>}]

LEMMA PassFields ==
    ASSUME NEW w \in Worker, NEW todo, todo \subseteq Project \X Doc, NEW w2,
           w2 = TakesUp(w, todo) \/ (w2 = Finishes(w) /\ todo = w.todo)
    PROVE  HasTodo(w2, w, todo)
<1> DEFINE v == [w EXCEPT !.pc = "processing"]
<1>1. v \in Worker /\ SameMemory(v, w) /\ v.pc = "processing" /\ v.todo = w.todo
  BY DEF Worker, Pc, SameMemory
<1>2. \/ w2 = [v EXCEPT !.todo = todo]
      \/ w2 = [v EXCEPT !.doc = None] /\ todo = w.todo
  BY DEF TakesUp, Finishes
<1> HIDE DEF v
<1>3. CASE w2 = [v EXCEPT !.todo = todo]
  BY <1>1, <1>3 DEF Worker, SameMemory, HasTodo
<1>4. CASE w2 = [v EXCEPT !.doc = None] /\ todo = w.todo
  BY <1>1, <1>4 DEF Worker, SameMemory, HasTodo
<1>5. QED
  BY <1>2, <1>3, <1>4

LEMMA BeginFields ==
    ASSUME NEW w \in Worker, NEW p \in Project, NEW d \in Doc, NEW w2,
           w2 = Reads(w, p, d)
    PROVE  HasDoc(w2, w, p, d)
<1> DEFINE v == [w EXCEPT !.pc = "reading"]
<1>1. v \in Worker /\ SameMemory(v, w) /\ v.pc = "reading" /\ v.todo = w.todo
  BY DEF Worker, Pc, SameMemory
<1>2. w2 = [v EXCEPT !.doc = <<p, d>>, !.todo = @ \ {<<p, d>>}]
  BY DEF Reads
<1> HIDE DEF v
<1>3. PICK u : u = [v EXCEPT !.doc = <<p, d>>]
  OBVIOUS
<1>4. /\ u \in Worker /\ SameMemory(u, w) /\ u.pc = "reading" /\ u.todo = w.todo
      /\ u.doc = <<p, d>>
  BY <1>1, <1>3 DEF Worker, SameMemory
<1>5. PICK todo : todo = w.todo \ {<<p, d>>}
  OBVIOUS
<1>6. todo \in SUBSET (Project \X Doc)
  BY <1>5 DEF Worker
<1>7. w2 = [u EXCEPT !.todo = todo]
  BY <1>1, <1>2, <1>3, <1>5 DEF Worker
<1>8. /\ w2 \in Worker /\ SameMemory(w2, w) /\ w2.pc = "reading" /\ w2.todo = todo
      /\ w2.doc = <<p, d>>
  BY <1>4, <1>6, <1>7 DEF Worker, SameMemory
<1>9. QED
  BY <1>5, <1>8 DEF HasDoc

LEMMA SettleTakes ==
    ASSUME RunnerBase, NEW t \in Token, Settle(t)
    PROVE  /\ JournalBy(t) /\ StepOf(t) /\ At(t, "settled")
           /\ \/ /\ HasTodo(worker'[t], worker[t], Pending(Run(t)))
                 /\ UNCHANGED <<staged, digest, publishing>>
              \/ worker'[t] = NextRound(worker[t], TRUE)
              \/ worker'[t] = [worker[t] EXCEPT !.pc = "publishing"] /\ MarkRunReady(Run(t), t)
<1>1. PICK w : w = worker[t]
  OBVIOUS
<1>2. /\ At(t, "settled") /\ Active(t) /\ UNCHANGED <<source, cancelled, edits, faults, seen>>
  BY DEF Settle, At, Active
<1>3. w \in Worker /\ Run(t) \in RunId
  BY <1>1, <1>2, ActiveAt
<1>4. ASSUME Heartbeat(Run(t), t),
             Becomes(t, [w EXCEPT !.pc = "processing", !.todo = Pending(Run(t))])
      PROVE  /\ JournalBy(t) /\ StepOf(t)
             /\ HasTodo(worker'[t], worker[t], Pending(Run(t)))
             /\ UNCHANGED <<staged, digest, publishing>>
  <2>1. PICK todo : todo = Pending(Run(t))
    OBVIOUS
  <2>2. todo \subseteq Project \X Doc
    BY <2>1 DEF Pending
  <2>3. PICK w2 : w2 = TakesUp(w, todo)
    OBVIOUS
  <2>4. HasTodo(w2, w, todo) /\ w2 \in Worker
    BY <1>3, <2>2, <2>3, PassFields DEF HasTodo
  <2>5. Becomes(t, w2)
    BY <1>4, <2>1, <2>3 DEF TakesUp
  <2>6. StepOf(t) /\ worker'[t] = w2
    BY <1>2, <2>4, <2>5, BecomesStep DEF RunnerBase
  <2>7. JournalBy(t) /\ UNCHANGED <<staged, digest, publishing>>
    BY <1>3, <1>4 DEF JournalBy, OwnerStep, Heartbeat
  <2>8. QED
    BY <1>1, <2>1, <2>4, <2>6, <2>7
<1>5. ASSUME Becomes(t, NextRound(w, TRUE)), UNCHANGED vars
      PROVE  JournalBy(t) /\ StepOf(t) /\ worker'[t] = NextRound(worker[t], TRUE)
  BY <1>1, <1>2, <1>3, <1>5, NextRoundType, BecomesStep DEF RunnerBase, JournalBy, Outside
<1>6. ASSUME MarkRunReady(Run(t), t), Goes(t, "publishing")
      PROVE  JournalBy(t) /\ StepOf(t) /\ worker'[t] = [worker[t] EXCEPT !.pc = "publishing"]
  <2>1. "publishing" \in Pc
    BY DEF Pc
  <2>2. QED
    BY <1>2, <1>3, <1>6, <2>1, GoesStep DEF RunnerBase, JournalBy, OwnerStep
<1>7. QED
  BY <1>1, <1>2, <1>4, <1>5, <1>6 DEF Settle, Run

LEMMA BeginTakes ==
    ASSUME RunnerBase, NEW t \in Token, NEW p \in Project, NEW d \in Doc, Begin(t, p, d)
    PROVE  /\ JournalBy(t) /\ StepOf(t)
           /\ HasDoc(worker'[t], worker[t], p, d)
<1>1. PICK w : w = worker[t]
  OBVIOUS
<1>2. Active(t) /\ UNCHANGED <<source, cancelled, edits, faults, seen>>
  BY DEF Begin, At, Active
<1>3. w \in Worker /\ Run(t) \in RunId
  BY <1>1, <1>2, ActiveAt
<1>4. PICK w2 : w2 = Reads(w, p, d)
  OBVIOUS
<1>5. HasDoc(w2, w, p, d) /\ w2 \in Worker
  BY <1>3, <1>4, BeginFields DEF HasDoc
<1>6. Becomes(t, w2)
  BY <1>1, <1>4 DEF Begin, Reads
<1>7. StepOf(t) /\ worker'[t] = w2
  BY <1>2, <1>5, <1>6, BecomesStep DEF RunnerBase
<1>8. JournalBy(t)
  BY <1>3 DEF Begin, JournalBy, DocumentStep
<1>9. QED
  BY <1>1, <1>5, <1>7, <1>8

LEMMA AllBegunTakes ==
    ASSUME RunnerBase, NEW t \in Token, AllBegun(t)
    PROVE  JournalBy(t) /\ StepOf(t) /\ worker'[t] = NextRound(worker[t], TRUE)
<1>1. worker[t] \in Worker
  BY ActiveAt DEF AllBegun, At, Active
<1>2. QED
  BY <1>1, NextRoundType, BecomesStep
     DEF RunnerBase, AllBegun, PassEnds, JournalBy, Outside

\* A worker that is about to look at the source again.
AtRound(w2, w) == w2.pc = "refreshing" /\ w2.run = w.run /\ MemoryOK(w2)

LEMMA NextRoundIsRound ==
    ASSUME NEW w \in Worker, NEW pass \in BOOLEAN, NEW w1 \in Worker, w1.run = w.run
    PROVE  AtRound(NextRound(w1, pass), w)
BY NextRoundType, NextRoundMemory DEF AtRound

LEMMA ReadTakes ==
    ASSUME RunnerBase, NEW t \in Token, NEW p \in Project, NEW d \in Doc, Read(t, p, d)
    PROVE  /\ JournalBy(t) /\ StepOf(t) /\ At(t, "reading") /\ worker[t].doc = <<p, d>>
           /\ seen' = seen
           /\ \/ /\ worker'[t] = [worker[t] EXCEPT !.pc = "preparing"]
                 /\ UNCHANGED vars
                 /\ source[p][d] = staged[Run(t)][p][d].obs
              \/ /\ AtRound(worker'[t], worker[t])
                 /\ ResetDocumentPending(Run(t), t, p, d)
              \/ /\ worker'[t] = [worker[t] EXCEPT !.pc = "pausing"]
                 /\ CheckpointDocumentError(Run(t), t, p, d)
<1>1. PICK w : w = worker[t]
  OBVIOUS
<1>2. /\ At(t, "reading") /\ Active(t) /\ w.doc = <<p, d>>
      /\ UNCHANGED <<source, cancelled, edits, seen>>
  BY <1>1 DEF Read, At, Active
<1>3. w \in Worker /\ Run(t) \in RunId /\ w.run = Run(t)
  BY <1>1, <1>2, ActiveAt DEF Run
<1>4. ASSUME Goes(t, "preparing"), UNCHANGED <<vars, faults>>
      PROVE  JournalBy(t) /\ StepOf(t) /\ worker'[t] = [worker[t] EXCEPT !.pc = "preparing"]
  BY <1>2, <1>4, QuietTakes DEF Pc
<1>5. ASSUME NEW w1 \in Worker, w1.run = w.run, PassEnds(t, w1),
             ResetDocumentPending(Run(t), t, p, d), Fault \/ UNCHANGED faults
      PROVE  JournalBy(t) /\ StepOf(t) /\ AtRound(worker'[t], worker[t])
  <2>1. StepOf(t) /\ worker'[t] = NextRound(w1, TRUE)
    BY <1>2, <1>5, NextRoundType, BecomesStep DEF RunnerBase, PassEnds
  <2>2. AtRound(worker'[t], worker[t])
    BY <1>1, <1>3, <1>5, <2>1, NextRoundIsRound
  <2>3. QED
    BY <1>3, <1>5, <2>1, <2>2 DEF JournalBy, DocumentStep
<1>6. ASSUME w.attempts[<<p, d>>] + 1 < MaxAttempts
      PROVE  /\ [w EXCEPT !.attempts[<<p, d>>] = w.attempts[<<p, d>>] + 1] \in Worker
             /\ [w EXCEPT !.attempts[<<p, d>>] = w.attempts[<<p, d>>] + 1].run = w.run
  <2>1. PICK n : n = w.attempts[<<p, d>>] + 1
    OBVIOUS
  <2>2. w.attempts \in [Project \X Doc -> 0 .. MaxAttempts]
    BY <1>3 DEF Worker
  <2>3. n \in 0 .. MaxAttempts
    BY <1>6, <2>1, <2>2, RunnerAssumption
  <2>4. PICK attempts : attempts = [w.attempts EXCEPT ![<<p, d>>] = n]
    OBVIOUS
  <2>5. attempts \in [Project \X Doc -> 0 .. MaxAttempts]
    BY <2>2, <2>3, <2>4
  <2>6. [w EXCEPT !.attempts[<<p, d>>] = n] = [w EXCEPT !.attempts = attempts]
    BY <2>4
  <2>7. [w EXCEPT !.attempts = attempts] \in Worker
            /\ [w EXCEPT !.attempts = attempts].run = w.run
    BY <1>3, <2>5 DEF Worker
  <2>8. QED
    BY <2>1, <2>6, <2>7
<1>7. ASSUME Goes(t, "pausing"), CheckpointDocumentError(Run(t), t, p, d), Fault
      PROVE  JournalBy(t) /\ StepOf(t) /\ worker'[t] = [worker[t] EXCEPT !.pc = "pausing"]
  <2>1. "pausing" \in Pc
    BY DEF Pc
  <2>2. QED
    BY <1>2, <1>3, <1>7, <2>1, GoesStep DEF RunnerBase, JournalBy, DocumentStep
<1>8. \/ Goes(t, "preparing") /\ UNCHANGED <<vars, faults>>
            /\ source[p][d] = staged[Run(t)][p][d].obs
      \/ PassEnds(t, w) /\ ResetDocumentPending(Run(t), t, p, d) /\ UNCHANGED faults
      \/ /\ w.attempts[<<p, d>>] + 1 < MaxAttempts
         /\ PassEnds(t, [w EXCEPT !.attempts[<<p, d>>] = w.attempts[<<p, d>>] + 1])
         /\ ResetDocumentPending(Run(t), t, p, d) /\ Fault
      \/ Goes(t, "pausing") /\ CheckpointDocumentError(Run(t), t, p, d) /\ Fault
  BY <1>1, <1>3 DEF Read
<1>9. QED
  BY <1>1, <1>2, <1>3, <1>4, <1>5, <1>6, <1>7, <1>8

LEMMA PrepareTakes ==
    ASSUME RunnerBase, NEW t \in Token, NEW p \in Project, NEW d \in Doc, Prepare(t, p, d)
    PROVE  /\ JournalBy(t) /\ StepOf(t) /\ At(t, "preparing") /\ worker[t].doc = <<p, d>>
           /\ \/ /\ HasTodo(worker'[t], worker[t], worker[t].todo)
                 /\ CheckpointDocument(Run(t), t, p, d, staged[Run(t)][p][d].obs)
              \/ /\ worker'[t] = [worker[t] EXCEPT !.pc = "pausing"]
                 /\ CheckpointDocumentError(Run(t), t, p, d)
<1>1. PICK w : w = worker[t]
  OBVIOUS
<1>2. /\ At(t, "preparing") /\ Active(t) /\ w.doc = <<p, d>>
      /\ UNCHANGED <<source, cancelled, edits, seen>>
  BY <1>1 DEF Prepare, At, Active
<1>3. w \in Worker /\ Run(t) \in RunId /\ w.run = Run(t)
  BY <1>1, <1>2, ActiveAt DEF Run
<1>4. ASSUME CheckpointDocument(Run(t), t, p, d, staged[Run(t)][p][d].obs),
             Becomes(t, [w EXCEPT !.pc = "processing", !.doc = None]), UNCHANGED faults
      PROVE  /\ JournalBy(t) /\ StepOf(t)
             /\ HasTodo(worker'[t], worker[t], worker[t].todo)
  <2>1. PICK w2 : w2 = Finishes(w)
    OBVIOUS
  <2>2. w.todo \subseteq Project \X Doc
    BY <1>3 DEF Worker
  <2>3. HasTodo(w2, w, w.todo) /\ w2 \in Worker
    BY <1>3, <2>1, <2>2, PassFields DEF HasTodo
  <2>4. Becomes(t, w2)
    BY <1>4, <2>1 DEF Finishes
  <2>5. StepOf(t) /\ worker'[t] = w2
    BY <1>2, <1>4, <2>3, <2>4, BecomesStep DEF RunnerBase
  <2>6. PICK row : row = staged[Run(t)][p][d]
    OBVIOUS
  <2>7. row \in StagedDocument /\ row.state = "processing" /\ WellFormedRow(row)
    <3>1. row # None /\ row.state = "processing"
      BY <1>4, <2>6 DEF CheckpointDocument, Checkpoint
    <3>2. TypeOK /\ RowsSatisfySchema
      BY DEF RunnerBase, SchemaInv
    <3>3. row \in StagedDocument \cup {None}
      BY <1>3, <2>6, <3>2, StagedIsNested
    <3>4. QED
      BY <1>3, <2>6, <3>1, <3>2, <3>3 DEF RowsSatisfySchema
  <2>8. row.obs \in Observation
    BY <2>7 DEF WellFormedRow, StagedDocument
  <2>9. row.obs \in Payloads
    BY <2>8, CallsAssumption
  <2>10. JournalBy(t)
    BY <1>3, <1>4, <2>6, <2>9 DEF JournalBy, DocumentStep
  <2>11. QED
    BY <1>1, <2>3, <2>5, <2>10
<1>5. ASSUME Goes(t, "pausing"), CheckpointDocumentError(Run(t), t, p, d), Fault
      PROVE  JournalBy(t) /\ StepOf(t) /\ worker'[t] = [worker[t] EXCEPT !.pc = "pausing"]
  <2>1. "pausing" \in Pc
    BY DEF Pc
  <2>2. QED
    BY <1>2, <1>3, <1>5, <2>1, GoesStep DEF RunnerBase, JournalBy, DocumentStep
<1>6. QED
  BY <1>1, <1>2, <1>3, <1>4, <1>5 DEF Prepare

LEMMA PublishTakes ==
    ASSUME RunnerBase, NEW t \in Token, Publish(t)
    PROVE  /\ JournalBy(t) /\ StepOf(t) /\ At(t, "publishing")
           /\ \/ /\ worker'[t] = [worker[t] EXCEPT !.pc = "committing"]
                 /\ PreparePublication(Run(t), t) /\ UNCHANGED seen
              \/ UNCHANGED vars /\ worker'[t].pc = "done" /\ worker'[t] = Ended
              \/ worker'[t] = [worker[t] EXCEPT !.pc = "failing"] /\ UNCHANGED <<vars, seen>>
<1>1. At(t, "publishing") /\ Active(t) /\ UNCHANGED <<source, cancelled, edits, faults>>
  BY DEF Publish, At, Active
<1>2. Run(t) \in RunId
  BY <1>1, ActiveAt
<1>3. "committing" \in Pc /\ "failing" \in Pc
  BY DEF Pc
<1>4. CASE PreparePublication(Run(t), t) /\ Goes(t, "committing") /\ UNCHANGED seen
  BY <1>1, <1>2, <1>3, <1>4, GoesStep DEF RunnerBase, JournalBy, PublishStep
<1>5. CASE ReportCommitted(Run(t), t) /\ Ends(t)
  <2>1. worker'[t] = Ended
    BY <1>5 DEF Ends, Becomes, RunnerBase, RunnerTypeOK
  <2>2. QED
    BY <1>1, <1>5, <2>1, EndsStep DEF RunnerBase, JournalBy, Outside, ReportCommitted
<1>6. CASE Goes(t, "failing") /\ UNCHANGED <<vars, seen>>
  BY <1>1, <1>3, <1>6, GoesStep DEF RunnerBase, JournalBy, Outside
<1>7. QED
  BY <1>4, <1>5, <1>6 DEF Publish

LEMMA CommitTakes ==
    ASSUME RunnerBase, NEW t \in Token, Commit(t)
    PROVE  /\ JournalBy(t) /\ StepOf(t) /\ At(t, "committing")
           /\ \/ CommitPublication(t) /\ worker'[t].pc = "done"
              \/ /\ RollBackPublication(t) /\ UNCHANGED seen
                 /\ worker'[t] = [worker[t] EXCEPT !.pc = "failing"]
<1>1. At(t, "committing") /\ UNCHANGED <<source, cancelled, edits>>
  BY DEF Commit
<1>2. "failing" \in Pc
  BY DEF Pc
<1>3. CASE CommitPublication(t) /\ Ends(t) /\ UNCHANGED faults
  BY <1>1, <1>3, EndsStep DEF RunnerBase, JournalBy, PublishStep
<1>4. CASE RollBackPublication(t) /\ Goes(t, "failing") /\ UNCHANGED seen
             /\ (Fault \/ UNCHANGED faults)
  BY <1>1, <1>2, <1>4, GoesStep DEF RunnerBase, JournalBy, PublishStep
<1>5. QED
  BY <1>3, <1>4 DEF Commit

LEMMA CrashTakes ==
    ASSUME RunnerBase, NEW t \in Token, Crash(t)
    PROVE  /\ JournalBy(t) /\ StepOf(t) /\ worker'[t].pc = "done"
           /\ UNCHANGED <<journalVars, corpusVars>> /\ publishing'[t] = None
<1>1. StepOf(t) /\ worker'[t].pc = "done"
  BY EndsStep DEF RunnerBase, Crash
<1>2. CASE publishing[t] = None /\ UNCHANGED vars
  BY <1>1, <1>2 DEF JournalBy, Outside, vars, journalVars, corpusVars
<1>3. CASE RollBackPublication(t)
  <2>1. publishing'[t] = None
    BY <1>3 DEF RollBackPublication, RunnerBase, SchemaInv, TypeOK
  <2>2. QED
    BY <1>1, <1>3, <2>1 DEF JournalBy, PublishStep, RollBackPublication
<1>4. QED
  BY <1>2, <1>3 DEF Crash
-----------------------------------------------------------------------------
(* Every invocation keeps working on one run of its own.                   *)

LEMMA OwnCall ==
    ASSUME TypeOK, NEW t \in Token, NEW r \in RunId,
           OwnerStep(r, t) \/ \E p \in Project, d \in Doc : DocumentStep(r, t, p, d)
    PROVE  /\ \A s \in RunId \ {r} : runs'[s] = runs[s]
           /\ publishing' = publishing /\ Idle(t)
<1>1. CASE OwnerStep(r, t)
  BY <1>1 DEF OwnerStep, ClaimRun, Heartbeat, PauseRun, FailRun, MarkRunReady,
              ReconcileManifest, TypeOK
<1>2. CASE \E p \in Project, d \in Doc : DocumentStep(r, t, p, d)
  BY <1>2 DEF DocumentStep, BeginDocument, CheckpointDocument, CheckpointDocumentError,
              ResetDocumentPending, Checkpoint
<1>3. QED
  BY <1>1, <1>2

LEMMA Continues ==
    ASSUME RunnerBase, NEW t \in Token, Active(t), JournalBy(t),
           \A s \in RunId \ {Run(t)} : runs'[s] = runs[s],
           worker'[t].run = Run(t), worker'[t].pc \notin {"new", "claiming", "done"},
           worker'[t].pc \in {"publishing", "committing"} => ~Owns(t, Run(t))',
           publishing'[t] # None <=> worker'[t].pc = "committing",
           worker'[t].pc = "committing" => publishing'[t].run = Run(t),
           MemoryOK(worker'[t]), worker'[t].pc = "observing" => seen'[t] # {}
    PROVE  WorksOnRun(t)'
<1>1. TypeOK /\ WorksOnRun(t)
  BY DEF RunnerBase, SchemaInv
<1>2. PICK r : r = Run(t)
  OBVIOUS
<1>3. r \in RunId /\ Exists(r) /\ runs[r].scope = ScopeOf[t] /\ Run(t)' = r
  BY <1>1, <1>2 DEF WorksOnRun, Run
<1>4. Exists(r)' /\ runs'[r].scope = ScopeOf[t]
  BY <1>1, <1>3, CallKeeps DEF Kept
<1>5. ASSUME NEW s \in RunId, Holding(t, s)', s # r
      PROVE  FALSE
  <2>1. Holding(t, s)
    BY <1>2, <1>5 DEF Holding, InState, Exists
  <2>2. QED
    BY <1>1, <1>2, <1>5, <2>1 DEF WorksOnRun, Active, At
<1>6. QED
  BY <1>2, <1>3, <1>4, <1>5 DEF WorksOnRun, At, Active, Run

LEMMA EndsWorks ==
    ASSUME RunnerBase, NEW t \in Token, Ends(t) \/ worker'[t] = Ended,
           publishing'[t] = None
    PROVE  WorksOnRun(t)'
<1>1. worker'[t] = Ended
  BY DEF Ends, Becomes, RunnerBase, RunnerTypeOK
<1>2. Ended.pc = "done" /\ Ended.unread = {} /\ Ended.prior = NoDocuments
  BY DEF Ended, NewWorker
<1>3. MemoryOK(Ended)
  BY <1>2 DEF MemoryOK, NoDocuments
<1>4. QED
  BY <1>1, <1>2, <1>3 DEF WorksOnRun, At, Active

LEMMA GoesWorks ==
    ASSUME RunnerBase, NEW t \in Token, Active(t), JournalBy(t),
           \A s \in RunId \ {Run(t)} : runs'[s] = runs[s], publishing'[t] = None,
           NEW pc \in Pc \ {"new", "claiming", "done", "publishing", "committing"},
           worker'[t] = [worker[t] EXCEPT !.pc = pc], worker[t].unread = {} \/ pc # "refreshing",
           pc = "observing" => seen'[t] # {}
    PROVE  WorksOnRun(t)'
<1>1. worker[t] \in Worker /\ MemoryOK(worker[t])
  BY ActiveAt DEF RunnerBase, WorksOnRun
<1>2. PICK w : w = worker[t]
  OBVIOUS
<1>3. PICK w2 : w2 = [w EXCEPT !.pc = pc]
  OBVIOUS
<1>4. /\ w2.pc = pc /\ w2.run = w.run /\ w2.unread = w.unread /\ w2.project = w.project
      /\ w2.listed = w.listed /\ w2.prior = w.prior
  BY <1>1, <1>2, <1>3 DEF Worker
<1>5. MemoryOK(w2)
  BY <1>1, <1>2, <1>4 DEF MemoryOK
<1>6. QED
  BY <1>2, <1>3, <1>4, <1>5, Continues DEF Run

LEMMA IdleUnlessCommitting ==
    ASSUME RunnerBase, NEW t \in Token, ~At(t, "committing")
    PROVE  publishing[t] = None
BY DEF RunnerBase, WorksOnRun
LEMMA StartWorks ==
    ASSUME RunnerBase, NEW t \in Token, Start(t)
    PROVE  WorksOnRun(t)'
<1>1. PICK S : S = ScopeOf[t]
  OBVIOUS
<1>2. S \in (SUBSET Project) \ {{}}
  BY <1>1, ScopeType
<1>3. PICK config \in Config, forceNew \in BOOLEAN : CreateOrResumeRun(S, config, forceNew)
  BY <1>1, RunnerAssumption DEF Start
<1>4. PICK r \in Overlapping(ScopeOf[t])' :
          Becomes(t, [NewWorker EXCEPT !.pc = "claiming", !.run = r])
  BY DEF Start
<1>5. r \in RunId /\ Unfinished(r)' /\ runs'[r].scope \cap S # {}
  BY <1>1, <1>4 DEF Overlapping
<1>6. TypeOK /\ WorksOnRun(t) /\ At(t, "new") /\ UnfinishedScopesDisjoint
  BY DEF RunnerBase, SchemaInv, SafetyInv, Start
<1>7. UnfinishedScopesDisjoint'
  <2>1. [Next]_vars
    BY StartTakes, JournalByIsNext
  <2>2. QED
    BY <1>6, <2>1, StepShape, ScopesStayDisjoint
<1>8. runs'[r].scope = S /\ UNCHANGED publishing
  <2>1. PICK k \in RunId : Unfinished(k)' /\ runs'[k].scope = S
    BY <1>2, <1>3, <1>6, CreateEffect
  <2>2. r = k
    BY <1>5, <1>7, <2>1 DEF UnfinishedScopesDisjoint
  <2>3. QED
    BY <1>2, <1>3, <1>6, <2>1, <2>2, CreateEffect
<1>9. \A s \in RunId : ~Holding(t, s)'
  <2>1. Spares(t)
    BY <1>2, <1>3, <1>6, CreateSpares
  <2>2. \A s \in RunId : ~Holding(t, s)
    BY <1>6 DEF WorksOnRun, At
  <2>3. QED
    BY <2>1, <2>2 DEF Spares
<1>10. PICK w2 : w2 = [NewWorker EXCEPT !.pc = "claiming", !.run = r]
  OBVIOUS
<1>11. w2 \in Worker /\ w2.pc = "claiming" /\ w2.run = r /\ w2.unread = {}
           /\ w2.prior = NoDocuments
  <2>1. w2.prior = NoDocuments
    BY <1>10 DEF NewWorker
  <2>2. QED
    BY <1>5, <1>10, <2>1, ClaimingType
<1>12. worker'[t] = w2
  BY <1>4, <1>10 DEF Becomes, RunnerBase, RunnerTypeOK
<1>13. MemoryOK(w2)
  BY <1>11 DEF MemoryOK, NoDocuments
<1>14. publishing'[t] = None
  BY <1>6, <1>8 DEF WorksOnRun, At
<1>15. QED
  BY <1>1, <1>5, <1>8, <1>9, <1>11, <1>12, <1>13, <1>14
     DEF WorksOnRun, At, Active, Run, Unfinished, InState

LEMMA StartNamedWorks ==
    ASSUME RunnerBase, NEW t \in Token, NEW r \in RunId, StartNamed(t, r)
    PROVE  WorksOnRun(t)'
<1>1. UNCHANGED vars
  BY StartNamedTakes
<1>2. WorksOnRun(t) /\ At(t, "new") /\ Exists(r) /\ runs[r].scope = ScopeOf[t]
  BY DEF RunnerBase, StartNamed
<1>3. publishing'[t] = None
  BY <1>1, <1>2 DEF WorksOnRun, At, vars
<1>4. CASE Ends(t)
  BY <1>3, <1>4, EndsWorks
<1>5. CASE Becomes(t, [NewWorker EXCEPT !.pc = "claiming", !.run = r])
  <2>1. PICK w2 : w2 = [NewWorker EXCEPT !.pc = "claiming", !.run = r]
    OBVIOUS
  <2>2. w2 \in Worker /\ w2.pc = "claiming" /\ w2.run = r /\ w2.unread = {}
            /\ w2.prior = NoDocuments
    <3>1. w2.prior = NoDocuments
      BY <2>1 DEF NewWorker
    <3>2. QED
      BY <2>1, <3>1, ClaimingType
  <2>3. worker'[t] = w2
    BY <1>5, <2>1 DEF Becomes, RunnerBase, RunnerTypeOK
  <2>4. MemoryOK(w2)
    BY <2>2 DEF MemoryOK, NoDocuments
  <2>5. \A s \in RunId : ~Holding(t, s)'
    BY <1>1, <1>2 DEF WorksOnRun, At, Holding, InState, Exists, vars
  <2>6. QED
    BY <1>1, <1>2, <1>3, <2>2, <2>3, <2>4, <2>5 DEF WorksOnRun, At, Active, Run, Exists, vars
<1>6. QED
  BY <1>4, <1>5 DEF StartNamed

LEMMA ClaimWorks ==
    ASSUME RunnerBase, NEW t \in Token, Claim(t)
    PROVE  WorksOnRun(t)'
<1>1. /\ At(t, "claiming") /\ Active(t) /\ JournalBy(t) /\ TypeOK /\ MemoryOK(worker[t])
      /\ worker[t] \in Worker /\ Run(t) \in RunId /\ publishing[t] = None
      /\ worker[t].unread = {}
  BY ClaimTakes, ActiveAt, IdleUnlessCommitting
     DEF Claim, At, Active, RunnerBase, SchemaInv, WorksOnRun, MemoryOK
<1>2. CASE ~Claimable(Run(t), t) /\ Ends(t) /\ UNCHANGED vars
  BY <1>1, <1>2, EndsWorks DEF vars
<1>3. ASSUME NEW pc \in {"refreshing", "failing"}, NEW pass \in BOOLEAN,
             ClaimRun(Run(t), t),
             Becomes(t, [worker[t] EXCEPT !.pc = pc, !.pass = pass])
      PROVE  WorksOnRun(t)'
  <2>1. \A s \in RunId \ {Run(t)} : runs'[s] = runs[s]
    BY <1>1, <1>3, OwnCall DEF OwnerStep
  <2>2. publishing'[t] = None
    BY <1>1, <1>3 DEF ClaimRun
  <2>3. PICK w : w = worker[t]
    OBVIOUS
  <2>4. PICK w1 : w1 = [w EXCEPT !.pc = pc]
    OBVIOUS
  <2>5. /\ w1 \in Worker /\ w1.pc = pc /\ w1.run = w.run /\ w1.unread = w.unread
        /\ w1.prior = w.prior
    <3>1. pc \in Pc
      BY <1>3 DEF Pc
    <3>2. QED
      BY <1>1, <2>3, <2>4, <3>1, GoesType
  <2>6. PICK w2 : w2 = [w1 EXCEPT !.pass = pass]
    OBVIOUS
  <2>7. /\ w2.pc = pc /\ w2.run = w.run /\ w2.unread = {} /\ w2.prior = w.prior
    BY <1>1, <2>3, <2>5, <2>6 DEF Worker
  <2>8. worker'[t] = w2
    BY <1>3, <2>3, <2>4, <2>6 DEF Becomes, RunnerBase, RunnerTypeOK
  <2>9. MemoryOK(w2)
    BY <1>1, <2>3, <2>7 DEF MemoryOK
  <2>10. QED
    BY <1>1, <1>3, <2>1, <2>2, <2>3, <2>7, <2>8, <2>9, Continues DEF Run
<1>4. QED
  BY <1>2, <1>3 DEF Claim

LEMMA RefusedWorks ==
    ASSUME RunnerBase, NEW t \in Token, Refused(t) \/ Interrupted(t)
    PROVE  WorksOnRun(t)'
<1>1. PICK pc \in {"failing", "pausing"} : worker'[t] = [worker[t] EXCEPT !.pc = pc]
  BY RefusedTakes
<1>2. JournalBy(t) /\ Active(t) /\ runs' = runs /\ publishing' = publishing
  BY RefusedTakes DEF vars
<1>3. publishing[t] = None
  BY IdleUnlessCommitting DEF Refused, CallRefused, Interrupted, At
<1>4. pc \in Pc \ {"new", "claiming", "done", "publishing", "committing"}
  BY DEF Pc
<1>5. QED
  BY <1>1, <1>2, <1>3, <1>4, GoesWorks

LEMMA ReleasingWorks ==
    ASSUME RunnerBase, NEW t \in Token, Fail(t) \/ Pause(t)
    PROVE  WorksOnRun(t)'
<1>1. publishing[t] = None /\ Ends(t)
  BY IdleUnlessCommitting DEF Fail, Pause, At
<1>2. publishing' = publishing
  BY DEF Fail, Pause, FailRun, PauseRun, vars
<1>3. QED
  BY <1>1, <1>2, EndsWorks

LEMMA RefreshWorks ==
    ASSUME RunnerBase, NEW t \in Token, Refresh(t)
    PROVE  WorksOnRun(t)'
<1>1. At(t, "refreshing") /\ Active(t) /\ Heartbeat(Run(t), t) /\ publishing[t] = None
  BY IdleUnlessCommitting DEF Refresh, At, Active
<1>2. /\ worker[t] \in Worker /\ Run(t) \in RunId /\ staged[Run(t)] \in StagedDocuments
      /\ worker[t].unread = {} /\ TypeOK /\ RowsSatisfySchema
  BY <1>1, ActiveAt DEF RunnerBase, WorksOnRun, MemoryOK, At, SchemaInv
<1>3. \A s \in RunId \ {Run(t)} : runs'[s] = runs[s]
  BY <1>1, <1>2, OwnCall DEF OwnerStep
<1>4. publishing'[t] = None
  BY <1>1 DEF Heartbeat
<1>5. PICK w2 : w2 = [worker[t] EXCEPT !.pc = "observing", !.prior = staged[Run(t)],
                                       !.unlisted = ScopeOf[t],
                                       !.unreconciled = ScopeOf[t], !.changed = FALSE]
  OBVIOUS
<1>6. worker'[t] = w2
  BY <1>5 DEF Refresh, Becomes, RunnerBase, RunnerTypeOK
<1>7. w2.pc = "observing" /\ w2.run = Run(t) /\ w2.unread = {} /\ w2.prior = staged[Run(t)]
  BY <1>2, <1>5 DEF Worker, Run
<1>8. MemoryOK(w2)
  BY <1>2, <1>7 DEF MemoryOK, RowsSatisfySchema
<1>9. seen'[t] # {}
  BY DEF Refresh, RunnerBase, RunnerTypeOK
<1>10. QED
  BY <1>1, <1>3, <1>4, <1>6, <1>7, <1>8, <1>9, RefreshTakes, Continues
LEMMA ListWorks ==
    ASSUME RunnerBase, NEW t \in Token, NEW p \in Project, List(t, p)
    PROVE  WorksOnRun(t)'
<1>1. /\ At(t, "observing") /\ Active(t) /\ JournalBy(t) /\ publishing[t] = None
      /\ seen[t] # {} /\ worker[t].unread = {} /\ worker[t] \in Worker
      /\ MemoryOK(worker[t]) /\ SchemaInv /\ RunnerTypeOK
  BY ListTakes, IdleUnlessCommitting, ActiveAt
     DEF List, At, Active, RunnerBase, WorksOnRun
<1>2. UNCHANGED <<vars, source, seen>>
  BY ListTakes
<1>3. runs' = runs /\ publishing'[t] = None
  BY <1>1, <1>2 DEF vars
<1>4. CASE worker'[t] = [worker[t] EXCEPT !.pc = "pausing"]
  <2>1. "pausing" \in Pc
    BY DEF Pc
  <2>2. QED
    BY <1>1, <1>3, <1>4, <2>1, GoesWorks
<1>5. CASE HasListed(worker'[t], worker[t], p, ListedRevs(p), live[p], ListedDocs(p), Deletions(p))
  <2>1. PICK w2 : w2 = worker'[t]
    OBVIOUS
  <2>2. /\ w2.pc = "observing" /\ w2.run = Run(t) /\ w2.project = p
        /\ w2.listed = ListedRevs(p) /\ w2.unread = ListedDocs(p)
        /\ w2.prior = worker[t].prior
    BY <1>1, <1>5, <2>1 DEF HasListed, At, Run
  <2>3. \A d \in w2.unread : w2.listed[d] \in Rev
    BY <1>1, <2>2 DEF ListedRevs, ListedDocs, RunnerTypeOK, Observation
  <2>4. MemoryOK(w2)
    BY <1>1, <2>2, <2>3 DEF MemoryOK
  <2>5. QED
    BY <1>1, <1>2, <1>3, <2>1, <2>2, <2>4, Continues
<1>6. QED
  BY <1>4, <1>5, ListTakes

LEMMA ObserveWorks ==
    ASSUME RunnerBase, NEW t \in Token, NEW d \in Doc, Observe(t, d)
    PROVE  WorksOnRun(t)'
<1>1. /\ At(t, "observing") /\ Active(t) /\ JournalBy(t) /\ publishing[t] = None
      /\ seen[t] # {} /\ worker[t] \in Worker /\ MemoryOK(worker[t])
  BY ObserveTakes, IdleUnlessCommitting, ActiveAt
     DEF Observe, At, Active, RunnerBase, WorksOnRun
<1>2. UNCHANGED <<vars, source, seen>>
  BY ObserveTakes
<1>3. runs' = runs /\ publishing'[t] = None
  BY <1>1, <1>2 DEF vars
<1>4. CASE worker'[t] = NextRound(worker[t], worker[t].pass)
  <2>1. worker'[t].pc = "refreshing" /\ worker'[t].run = Run(t) /\ MemoryOK(worker'[t])
    BY <1>1, <1>4, SameRoundType, NextRoundMemory DEF Run
  <2>2. QED
    BY <1>1, <1>3, <2>1, Continues
<1>5. ASSUME NEW obs, HasObserved(worker'[t], worker[t], d, obs)
      PROVE  WorksOnRun(t)'
  <2>1. PICK w2 : w2 = worker'[t]
    OBVIOUS
  <2>2. /\ w2.pc = "observing" /\ w2.run = Run(t) /\ w2.project = worker[t].project
        /\ w2.listed = worker[t].listed /\ w2.unread \subseteq worker[t].unread
        /\ w2.prior = worker[t].prior
    BY <1>1, <1>5, <2>1 DEF HasObserved, At, Run
  <2>3. MemoryOK(w2)
    BY <1>1, <2>2 DEF MemoryOK
  <2>4. QED
    BY <1>1, <1>2, <1>3, <2>1, <2>2, <2>3, Continues
<1>6. QED
  BY <1>4, <1>5, ObserveTakes

LEMMA ReconcileWorks ==
    ASSUME RunnerBase, NEW t \in Token, NEW p \in Project, Reconcile(t, p)
    PROVE  WorksOnRun(t)'
<1>1. /\ At(t, "observing") /\ Active(t) /\ JournalBy(t) /\ publishing[t] = None
      /\ seen[t] # {} /\ worker[t] \in Worker /\ MemoryOK(worker[t])
      /\ worker[t].unread = {} /\ UNCHANGED seen /\ Run(t) \in RunId /\ TypeOK
      /\ worker[t].manifest[p] \in Manifest
  BY ReconcileTakes, IdleUnlessCommitting, ActiveAt
     DEF Reconcile, At, Active, RunnerBase, WorksOnRun, SchemaInv
<1>2. ReconcileManifest(Run(t), t, p, worker[t].manifest[p])
  BY DEF Reconcile, Run
<1>3. \A s \in RunId \ {Run(t)} : runs'[s] = runs[s]
  BY <1>1, <1>2 DEF ReconcileManifest, TypeOK
<1>4. publishing'[t] = None
  BY <1>1, <1>2 DEF ReconcileManifest
<1>5. CASE /\ worker'[t].pc \in {"counting", "settled"} /\ worker'[t].run = Run(t)
           /\ MemoryOK(worker'[t])
  BY <1>1, <1>3, <1>4, <1>5, Continues
<1>6. ASSUME NEW changed \in BOOLEAN,
             worker'[t] = [worker[t] EXCEPT !.unreconciled = @ \ {p}, !.changed = changed]
      PROVE  WorksOnRun(t)'
  <2>1. PICK w2 : w2 = worker'[t]
    OBVIOUS
  <2>2. /\ w2.pc = "observing" /\ w2.run = Run(t) /\ w2.unread = {}
        /\ w2.prior = worker[t].prior
    BY <1>1, <1>6, <2>1 DEF Worker, At, Run
  <2>3. MemoryOK(w2)
    BY <1>1, <2>2 DEF MemoryOK
  <2>4. QED
    BY <1>1, <1>3, <1>4, <2>1, <2>2, <2>3, Continues
<1>7. QED
  BY <1>5, <1>6, ReconcileTakes

LEMMA CountRoundWorks ==
    ASSUME RunnerBase, NEW t \in Token, CountRound(t)
    PROVE  WorksOnRun(t)'
<1>1. PICK pc \in {"pausing", "settled"} : worker'[t] = [worker[t] EXCEPT !.pc = pc]
  BY CountRoundTakes
<1>2. /\ At(t, "counting") /\ Active(t) /\ JournalBy(t) /\ publishing[t] = None
      /\ Heartbeat(Run(t), t) /\ Run(t) \in RunId /\ TypeOK
  BY CountRoundTakes, IdleUnlessCommitting, ActiveAt
     DEF CountRound, At, Active, RunnerBase, SchemaInv
<1>3. \A s \in RunId \ {Run(t)} : runs'[s] = runs[s]
  BY <1>2, OwnCall DEF OwnerStep
<1>4. publishing'[t] = None
  BY <1>2 DEF Heartbeat
<1>5. pc \in Pc \ {"new", "claiming", "done", "publishing", "committing"}
  BY DEF Pc
<1>6. QED
  BY <1>1, <1>2, <1>3, <1>4, <1>5, GoesWorks

LEMMA SameMemoryOK ==
    ASSUME NEW w, NEW w2, MemoryOK(w), SameMemory(w2, w), w2.pc \notin {"claiming", "refreshing"}
    PROVE  MemoryOK(w2)
BY DEF MemoryOK, SameMemory

LEMMA SettleWorks ==
    ASSUME RunnerBase, NEW t \in Token, Settle(t)
    PROVE  WorksOnRun(t)'
<1>1. /\ At(t, "settled") /\ Active(t) /\ JournalBy(t) /\ publishing[t] = None
      /\ Run(t) \in RunId /\ TypeOK /\ worker[t] \in Worker /\ MemoryOK(worker[t])
  BY SettleTakes, IdleUnlessCommitting, ActiveAt
     DEF Settle, At, Active, RunnerBase, SchemaInv, WorksOnRun
<1>2. \/ OwnerStep(Run(t), t)
      \/ UNCHANGED vars
  BY DEF Settle, OwnerStep, Run
<1>3. /\ \A s \in RunId \ {Run(t)} : runs'[s] = runs[s]
      /\ publishing'[t] = None
  BY <1>1, <1>2, OwnCall DEF vars
<1>4. CASE HasTodo(worker'[t], worker[t], Pending(Run(t)))
  <2>1. worker'[t].pc = "processing" /\ worker'[t].run = Run(t) /\ MemoryOK(worker'[t])
    <3>1. PICK w2 : w2 = worker'[t]
      OBVIOUS
    <3>2. SameMemory(w2, worker[t]) /\ w2.pc = "processing"
      BY <1>4, <3>1 DEF HasTodo
    <3>3. MemoryOK(w2)
      BY <1>1, <3>2, SameMemoryOK
    <3>4. QED
      BY <3>1, <3>2, <3>3 DEF SameMemory, Run
  <2>2. QED
    BY <1>1, <1>3, <2>1, Continues
<1>5. CASE worker'[t] = NextRound(worker[t], TRUE)
  <2>1. worker'[t].pc = "refreshing" /\ worker'[t].run = Run(t) /\ MemoryOK(worker'[t])
    <3>1. TRUE \in BOOLEAN
      OBVIOUS
    <3>2. NextRound(worker[t], TRUE).pc = "refreshing"
            /\ NextRound(worker[t], TRUE).run = worker[t].run
      BY <1>1, <3>1, NextRoundType
    <3>3. QED
      BY <1>5, <3>2, NextRoundMemory DEF Run
  <2>2. QED
    BY <1>1, <1>3, <2>1, Continues
<1>6. CASE worker'[t] = [worker[t] EXCEPT !.pc = "publishing"] /\ MarkRunReady(Run(t), t)
  <2>1. PICK w2 : w2 = worker'[t]
    OBVIOUS
  <2>2. /\ w2.pc = "publishing" /\ w2.run = Run(t) /\ w2.unread = worker[t].unread
        /\ w2.prior = worker[t].prior /\ w2.project = worker[t].project
        /\ w2.listed = worker[t].listed
    BY <1>1, <1>6, <2>1 DEF Worker, Run
  <2>3. MemoryOK(w2)
    BY <1>1, <2>2 DEF MemoryOK
  <2>4. ~Owns(t, Run(t))'
    <3>1. PICK r : r = Run(t) /\ Run(t)' = r
      BY <2>1, <2>2 DEF Run
    <3>2. /\ runs[r] \in IndexRun
          /\ runs' = [runs EXCEPT ![r] = [Renewed(runs[r]) EXCEPT !.status = "ready"]]
      BY <1>1, <1>6, <3>1, ActiveAt DEF MarkRunReady
    <3>3. runs'[r].status = "ready"
      BY <1>1, <3>1, <3>2, RenewedFields DEF TypeOK, RunState
    <3>4. QED
      BY <3>1, <3>3 DEF Owns, InState
  <2>5. QED
    BY <1>1, <1>3, <2>1, <2>2, <2>3, <2>4, Continues
<1>7. QED
  BY <1>4, <1>5, <1>6, SettleTakes
LEMMA DocumentWorks ==
    ASSUME RunnerBase, NEW t \in Token, NEW p \in Project, NEW d \in Doc,
           Begin(t, p, d) \/ Read(t, p, d) \/ Prepare(t, p, d)
    PROVE  WorksOnRun(t)'
<1>1. /\ Active(t) /\ JournalBy(t) /\ publishing[t] = None
      /\ Run(t) \in RunId /\ TypeOK /\ worker[t] \in Worker /\ MemoryOK(worker[t])
      /\ worker[t].pc \in {"processing", "reading", "preparing"}
  BY BeginTakes, ReadTakes, PrepareTakes, IdleUnlessCommitting, ActiveAt
     DEF Begin, Read, Prepare, At, Active, RunnerBase, SchemaInv, WorksOnRun
<1>2. /\ \A s \in RunId \ {Run(t)} : runs'[s] = runs[s]
      /\ publishing'[t] = None
  <2>1. CASE Begin(t, p, d)
    BY <1>1, <2>1 DEF Begin, BeginDocument, Checkpoint
  <2>2. CASE Read(t, p, d)
    BY <1>1, <2>2, ReadTakes DEF ResetDocumentPending, CheckpointDocumentError, Checkpoint, vars
  <2>3. CASE Prepare(t, p, d)
    BY <1>1, <2>3, PrepareTakes DEF CheckpointDocument, CheckpointDocumentError, Checkpoint
  <2>4. QED
    BY <2>1, <2>2, <2>3
<1>3. CASE \E pc \in {"preparing", "pausing"} : worker'[t] = [worker[t] EXCEPT !.pc = pc]
  <2>1. PICK pc \in {"preparing", "pausing"} : worker'[t] = [worker[t] EXCEPT !.pc = pc]
    BY <1>3
  <2>2. pc \in Pc \ {"new", "claiming", "done", "publishing", "committing"}
    BY DEF Pc
  <2>3. QED
    BY <1>1, <1>2, <2>1, <2>2, GoesWorks
<1>4. CASE SameMemory(worker'[t], worker[t]) /\ worker'[t].pc \in {"processing", "reading"}
  <2>1. PICK w2 : w2 = worker'[t]
    OBVIOUS
  <2>2. MemoryOK(w2)
    BY <1>1, <1>4, <2>1, SameMemoryOK
  <2>3. w2.run = Run(t) /\ w2.pc \in {"processing", "reading"}
    BY <1>4, <2>1 DEF SameMemory, Run
  <2>4. QED
    BY <1>1, <1>2, <2>1, <2>2, <2>3, Continues
<1>5. CASE AtRound(worker'[t], worker[t])
  BY <1>1, <1>2, <1>5, Continues DEF AtRound, Run
<1>6. QED
  <2>1. CASE Begin(t, p, d)
    BY <1>4, <2>1, BeginTakes DEF HasDoc
  <2>2. CASE Read(t, p, d)
    BY <1>3, <1>5, <2>2, ReadTakes
  <2>3. CASE Prepare(t, p, d)
    BY <1>3, <1>4, <2>3, PrepareTakes DEF HasTodo
  <2>4. QED
    BY <2>1, <2>2, <2>3

LEMMA AllBegunWorks ==
    ASSUME RunnerBase, NEW t \in Token, AllBegun(t)
    PROVE  WorksOnRun(t)'
<1>1. /\ Active(t) /\ JournalBy(t) /\ publishing[t] = None /\ worker[t] \in Worker
      /\ worker'[t] = NextRound(worker[t], TRUE) /\ UNCHANGED vars
  BY AllBegunTakes, IdleUnlessCommitting, ActiveAt DEF AllBegun, At, Active
<1>2. TRUE \in BOOLEAN
  OBVIOUS
<1>3. NextRound(worker[t], TRUE).pc = "refreshing"
        /\ NextRound(worker[t], TRUE).run = worker[t].run
  BY <1>1, <1>2, NextRoundType
<1>4. runs' = runs /\ publishing'[t] = None
  BY <1>1 DEF vars
<1>5. QED
  BY <1>1, <1>3, <1>4, NextRoundMemory, Continues DEF Run

LEMMA PublishWorks ==
    ASSUME RunnerBase, NEW t \in Token, Publish(t)
    PROVE  WorksOnRun(t)'
<1>1. /\ At(t, "publishing") /\ Active(t) /\ JournalBy(t) /\ publishing[t] = None
      /\ Run(t) \in RunId /\ TypeOK /\ worker[t] \in Worker /\ MemoryOK(worker[t])
      /\ ~Owns(t, Run(t))
  BY PublishTakes, IdleUnlessCommitting, ActiveAt
     DEF Publish, At, Active, RunnerBase, SchemaInv, WorksOnRun
<1>2. CASE /\ worker'[t] = [worker[t] EXCEPT !.pc = "committing"]
           /\ PreparePublication(Run(t), t)
  <2>1. PICK w2 : w2 = worker'[t]
    OBVIOUS
  <2>2. /\ w2.pc = "committing" /\ w2.run = Run(t) /\ w2.unread = worker[t].unread
        /\ w2.prior = worker[t].prior /\ w2.project = worker[t].project
        /\ w2.listed = worker[t].listed
    BY <1>1, <1>2, <2>1 DEF Worker, Run
  <2>3. MemoryOK(w2)
    BY <1>1, <2>2 DEF MemoryOK
  <2>4. PICK r : r = Run(t)
    OBVIOUS
  <2>5. /\ publishing' = [publishing EXCEPT ![t] = [run |-> r, documents |-> staged[r]]]
        /\ runs' = runs
    BY <1>2, <2>4 DEF PreparePublication, journalVars
  <2>6. publishing'[t].run = r /\ publishing'[t] # None
    <3>1. [run |-> r, documents |-> staged[r]] # None
      BY <1>1, <2>4, ActiveAt, NoneAssumption
    <3>2. QED
      BY <1>1, <2>5, <3>1 DEF TypeOK
  <2>7. ~Owns(t, Run(t))'
    BY <1>1, <2>1, <2>2, <2>4, <2>5 DEF Owns, InState, Exists, Run
  <2>8. QED
    BY <1>1, <2>1, <2>2, <2>3, <2>4, <2>5, <2>6, <2>7, Continues
<1>3. CASE UNCHANGED vars /\ worker'[t] = Ended
  BY <1>1, <1>3, EndsWorks DEF vars
<1>4. CASE worker'[t] = [worker[t] EXCEPT !.pc = "failing"] /\ UNCHANGED <<vars, seen>>
  <2>1. "failing" \in Pc
    BY DEF Pc
  <2>2. runs' = runs /\ publishing'[t] = None
    BY <1>1, <1>4 DEF vars
  <2>3. QED
    BY <1>1, <1>4, <2>1, <2>2, GoesWorks
<1>5. QED
  BY <1>2, <1>3, <1>4, PublishTakes
LEMMA CommitWorks ==
    ASSUME RunnerBase, NEW t \in Token, Commit(t)
    PROVE  WorksOnRun(t)'
<1>1. /\ Active(t) /\ JournalBy(t) /\ TypeOK /\ worker[t] \in Worker
  BY CommitTakes, ActiveAt DEF Commit, At, Active, RunnerBase, SchemaInv
<1>2. CASE CommitPublication(t) /\ Ends(t)
  <2>1. publishing'[t] = None
    BY <1>1, <1>2 DEF CommitPublication, TypeOK
  <2>2. QED
    BY <1>2, <2>1, EndsWorks
<1>3. CASE /\ RollBackPublication(t)
           /\ worker'[t] = [worker[t] EXCEPT !.pc = "failing"]
  <2>1. runs' = runs /\ publishing'[t] = None
    BY <1>1, <1>3 DEF RollBackPublication, journalVars, TypeOK
  <2>2. "failing" \in Pc
    BY DEF Pc
  <2>3. QED
    BY <1>1, <1>3, <2>1, <2>2, GoesWorks
<1>4. \/ CommitPublication(t) /\ Ends(t)
      \/ Goes(t, "failing") /\ RollBackPublication(t)
  BY DEF Commit
<1>5. Goes(t, "failing") => worker'[t] = [worker[t] EXCEPT !.pc = "failing"]
  BY DEF Goes, Becomes, RunnerBase, RunnerTypeOK
<1>6. QED
  BY <1>2, <1>3, <1>4, <1>5

LEMMA CrashWorks ==
    ASSUME RunnerBase, NEW t \in Token, Crash(t)
    PROVE  WorksOnRun(t)'
BY CrashTakes, EndsWorks DEF Crash

\* Everything one invocation does, the death of its process included.
Acts(t) ==
    \/ Start(t)
    \/ \E r \in RunId : StartNamed(t, r)
    \/ Proceed(t)
    \/ Crash(t)

LEMMA ActsWorks ==
    ASSUME RunnerBase, NEW t \in Token, Acts(t)
    PROVE  JournalBy(t) /\ StepOf(t) /\ WorksOnRun(t)'
<1>1. CASE Start(t)
  BY <1>1, StartTakes, StartWorks
<1>2. CASE \E r \in RunId : StartNamed(t, r)
  BY <1>2, StartNamedTakes, StartNamedWorks
<1>3. CASE Claim(t)
  BY <1>3, ClaimTakes, ClaimWorks
<1>4. CASE Refused(t) \/ Interrupted(t)
  BY <1>4, RefusedTakes, RefusedWorks
<1>5. CASE Fail(t) \/ Pause(t)
  BY <1>5, FailTakes, PauseTakes, ReleasingWorks
<1>6. CASE Refresh(t)
  BY <1>6, RefreshTakes, RefreshWorks
<1>7. CASE \E p \in Project : List(t, p)
  BY <1>7, ListTakes, ListWorks
<1>8. CASE \E p \in Project : Reconcile(t, p)
  BY <1>8, ReconcileTakes, ReconcileWorks
<1>9. CASE \E d \in Doc : Observe(t, d)
  BY <1>9, ObserveTakes, ObserveWorks
<1>10. CASE CountRound(t)
  BY <1>10, CountRoundTakes, CountRoundWorks
<1>11. CASE Settle(t)
  BY <1>11, SettleTakes, SettleWorks
<1>12. CASE \E p \in Project, d \in Doc : Begin(t, p, d) \/ Read(t, p, d) \/ Prepare(t, p, d)
  BY <1>12, BeginTakes, ReadTakes, PrepareTakes, DocumentWorks
<1>13. CASE AllBegun(t)
  BY <1>13, AllBegunTakes, AllBegunWorks
<1>14. CASE Publish(t)
  BY <1>14, PublishTakes, PublishWorks
<1>15. CASE Commit(t)
  BY <1>15, CommitTakes, CommitWorks
<1>16. CASE Crash(t)
  BY <1>16, CrashTakes, CrashWorks
<1>17. QED
  BY <1>1, <1>2, <1>3, <1>4, <1>5, <1>6, <1>7, <1>8, <1>9, <1>10, <1>11, <1>12, <1>13,
     <1>14, <1>15, <1>16 DEF Acts, Proceed

LEMMA ActsAside ==
    ASSUME RunnerBase, NEW t \in Token, JournalBy(t), StepOf(t), NEW o \in Token \ {t}
    PROVE  Aside(o)
<1>1. TypeOK /\ SchemaInv /\ SafetyInv /\ RunnerTypeOK
  BY DEF RunnerBase, SchemaInv
<1>2. worker'[o] = worker[o] /\ seen[o] \subseteq seen'[o]
  BY <1>1 DEF StepOf, RunnerTypeOK
<1>3. publishing'[o] = publishing[o] /\ Spares(o) /\ \A r \in RunId : Kept(r)
  BY <1>1, PublishingAfter, CallSpares, CallKeeps
<1>4. QED
  BY <1>1, <1>2, <1>3, CorpusAfter DEF Aside

-----------------------------------------------------------------------------
(* The world.                                                              *)

LEMMA EditTakes ==
    ASSUME RunnerBase, NEW p \in Project, NEW d \in Doc, NEW file \in FilesAt(d) \cup {None},
           Edit(p, d, file)
    PROVE  /\ UNCHANGED vars /\ RunnerTypeOK' /\ \A o \in Token : Aside(o)
           /\ source' = [source EXCEPT ![p][d] = file]
           /\ UNCHANGED worker
<1>1. RunnerTypeOK
  BY DEF RunnerBase
<1>2. source' \in Sources
  <2>1. file \in Observation \cup {None}
    BY FilesAtObservation
  <2>2. QED
    BY <1>1, <2>1 DEF Edit, RunnerTypeOK, Sources
<1>3. edits' \in 0 .. MaxEdits
  BY <1>1, RunnerAssumption DEF Edit, RunnerTypeOK
<1>4. /\ seen' \in [Token -> SUBSET Sources]
      /\ \A t \in Token : seen'[t] # {} <=> source' \in seen'[t]
      /\ \A t \in Token : seen[t] \subseteq seen'[t]
  BY <1>1, <1>2 DEF Edit, RunnerTypeOK, Sources
<1>5. RunnerTypeOK'
  BY <1>1, <1>2, <1>3, <1>4 DEF RunnerTypeOK, Edit, Sources
<1>6. UNCHANGED vars /\ worker' = worker
  BY DEF Edit
<1>7. ASSUME NEW o \in Token
      PROVE  Aside(o)
  <2>1. UNCHANGED corpusVars /\ publishing' = publishing /\ runs' = runs
            /\ staged' = staged /\ digest' = digest
    BY <1>6 DEF vars, corpusVars
  <2>2. Spares(o) /\ \A r \in RunId : Kept(r)
    BY <2>1 DEF Spares, Kept, Holding, InState, Exists
  <2>3. QED
    BY <1>4, <1>6, <2>1, <2>2 DEF Aside
<1>8. QED
  BY <1>5, <1>6, <1>7 DEF Edit

LEMMA CancelTakes ==
    ASSUME RunnerBase, NEW t \in Token, Cancel(t)
    PROVE  /\ UNCHANGED <<vars, worker, source, seen>> /\ RunnerTypeOK'
           /\ \A o \in Token : Aside(o)
<1>1. RunnerTypeOK
  BY DEF RunnerBase
<1>2. UNCHANGED <<vars, worker, source, seen>>
  BY DEF Cancel
<1>3. RunnerTypeOK'
  <2>1. faults' \in 0 .. MaxFaults
    BY <1>1, RunnerAssumption DEF Cancel, Fault, RunnerTypeOK
  <2>2. QED
    BY <1>1, <1>2, <2>1 DEF RunnerTypeOK, Cancel
<1>4. ASSUME NEW o \in Token
      PROVE  Aside(o)
  <2>1. UNCHANGED corpusVars /\ publishing' = publishing /\ runs' = runs
            /\ staged' = staged /\ digest' = digest
    BY <1>2 DEF vars, corpusVars
  <2>2. Spares(o) /\ \A r \in RunId : Kept(r)
    BY <2>1 DEF Spares, Kept, Holding, InState, Exists
  <2>3. QED
    BY <1>2, <2>1, <2>2 DEF Aside
<1>5. QED
  BY <1>2, <1>3, <1>4

LEMMA OverruleTakes ==
    ASSUME RunnerBase, Overrule
    PROVE  /\ [Next]_vars /\ RunnerTypeOK' /\ UNCHANGED <<worker, source, seen, staged, digest>>
           /\ UNCHANGED corpusVars
           /\ \A r \in RunId : Kept(r)
           /\ \A o \in Token : Aside(o)
<1>1. RunnerTypeOK /\ TypeOK
  BY DEF RunnerBase, SchemaInv
<1>2. PICK r \in RunId : LeaseExpires(r) \/ AbandonRun(r) \/ SupersedeRun(r)
  BY DEF Overrule
<1>3. UNCHANGED <<worker, source, seen, cancelled, edits>>
  BY DEF Overrule
<1>4. faults' \in 0 .. MaxFaults
  BY <1>1, RunnerAssumption DEF Overrule, Fault, RunnerTypeOK
<1>5. RunnerTypeOK'
  BY <1>1, <1>3, <1>4 DEF RunnerTypeOK
<1>6. [Next]_vars /\ UNCHANGED <<staged, digest>>
  BY <1>2 DEF Next, RunStep, LeaseExpires, AbandonRun, SupersedeRun
<1>7. \A o \in Token : Aside(o)
  BY <1>1, <1>2, <1>3, OverruledSpares DEF Aside
<1>8. QED
  BY <1>1, <1>2, <1>3, <1>5, <1>6, <1>7, OverruledSpares
-----------------------------------------------------------------------------
(* The runner is one use of the journal.                                   *)

LEMMA JournalStep ==
    ASSUME SchemaInv, SafetyInv, [Next]_vars
    PROVE  SchemaInv' /\ SafetyInv'
<1>1. SchemaInv'
  BY NextTypeOK, NextSchema, NextPreparedSchema DEF SchemaInv
<1>2. (\A r \in RunId : Changes(r)) /\ (UNCHANGED corpusVars \/ \E r \in RunId : Publishes(r))
  BY StepShape DEF SchemaInv
<1>3. QED
  BY <1>1, <1>2, ScopesStayNonEmpty, ScopesStayDisjoint, GenerationStaysNewest
     DEF SafetyInv, SchemaInv

\* A step is one invocation's, which leaves the others aside, or the world's,
\* which leaves all of them aside.
RunnerStep ==
    \/ \E t \in Token : /\ Acts(t) /\ JournalBy(t) /\ StepOf(t)
                        /\ \A o \in Token \ {t} : Aside(o)
    \/ /\ \A o \in Token : Aside(o)
       /\ \A r \in RunId : Kept(r)
       /\ UNCHANGED <<worker, staged, digest, corpusVars>>
       /\ \/ source' = source
          \/ \E p \in Project, d \in Doc : \E file \in FilesAt(d) \cup {None} :
                source' = [source EXCEPT ![p][d] = file]

LEMMA RunnerSteps ==
    ASSUME RunnerBase, [RunnerNext]_allVars
    PROVE  [Next]_vars /\ RunnerTypeOK' /\ RunnerStep /\ \A t \in Token : WorksOnRun(t)'
<1>1. RunnerTypeOK /\ \A t \in Token : WorksOnRun(t)
  BY DEF RunnerBase
<1>2. ASSUME NEW t \in Token, Acts(t)
      PROVE  [Next]_vars /\ RunnerTypeOK' /\ RunnerStep /\ \A o \in Token : WorksOnRun(o)'
  <2>1. JournalBy(t) /\ StepOf(t) /\ WorksOnRun(t)'
    BY <1>2, ActsWorks
  <2>2. \A o \in Token \ {t} : Aside(o)
    BY <2>1, ActsAside
  <2>3. \A o \in Token \ {t} : WorksOnRun(o)'
    BY <1>1, <2>2, AsideWorksOnRun
  <2>4. [Next]_vars
    BY <2>1, JournalByIsNext
  <2>5. RunnerTypeOK'
    BY <1>1, <2>1, StepTypeOK
  <2>6. RunnerStep
    BY <1>2, <2>1, <2>2 DEF RunnerStep
  <2>7. QED
    BY <2>1, <2>3, <2>4, <2>5, <2>6
<1>3. ASSUME \A o \in Token : Aside(o)
      PROVE  \A o \in Token : WorksOnRun(o)'
  BY <1>1, <1>3, AsideWorksOnRun
<1>4. CASE UNCHANGED allVars
  <2>1. UNCHANGED <<vars, worker, source, seen, cancelled, edits, faults>>
    BY <1>4 DEF allVars, runnerVars
  <2>2. ASSUME NEW o \in Token
        PROVE  Aside(o)
    <3>1. UNCHANGED corpusVars /\ publishing' = publishing /\ runs' = runs
              /\ staged' = staged /\ digest' = digest
      BY <2>1 DEF vars, corpusVars
    <3>2. Spares(o) /\ \A r \in RunId : Kept(r)
      BY <3>1 DEF Spares, Kept, Holding, InState, Exists
    <3>3. QED
      BY <2>1, <3>1, <3>2 DEF Aside
  <2>3. RunnerTypeOK'
    BY <1>1, <2>1 DEF RunnerTypeOK
  <2>4. RunnerStep
    BY <2>1, <2>2 DEF RunnerStep, vars, corpusVars, Kept, Exists
  <2>5. QED
    BY <1>3, <2>1, <2>2, <2>3, <2>4
<1>5. ASSUME NEW p \in Project, NEW d \in Doc, NEW file \in FilesAt(d) \cup {None},
             Edit(p, d, file)
      PROVE  [Next]_vars /\ RunnerTypeOK' /\ RunnerStep /\ \A o \in Token : WorksOnRun(o)'
  <2>1. /\ UNCHANGED vars /\ RunnerTypeOK' /\ \A o \in Token : Aside(o)
        /\ source' = [source EXCEPT ![p][d] = file] /\ worker' = worker
    BY <1>5, EditTakes
  <2>2. RunnerStep
    BY <2>1 DEF RunnerStep, vars, corpusVars, Kept, Exists
  <2>3. QED
    BY <1>3, <2>1, <2>2
<1>6. ASSUME NEW t \in Token, Cancel(t)
      PROVE  [Next]_vars /\ RunnerTypeOK' /\ RunnerStep /\ \A o \in Token : WorksOnRun(o)'
  <2>1. /\ UNCHANGED <<vars, worker, source>> /\ RunnerTypeOK'
        /\ \A o \in Token : Aside(o)
    BY <1>6, CancelTakes
  <2>2. RunnerStep
    BY <2>1 DEF RunnerStep, vars, corpusVars, Kept, Exists
  <2>3. QED
    BY <1>3, <2>1, <2>2
<1>7. CASE Overrule
  <2>1. /\ [Next]_vars /\ RunnerTypeOK' /\ UNCHANGED <<worker, source, staged, digest, corpusVars>>
        /\ \A r \in RunId : Kept(r)
        /\ \A o \in Token : Aside(o)
    BY <1>7, OverruleTakes
  <2>2. RunnerStep
    BY <2>1 DEF RunnerStep
  <2>3. QED
    BY <1>3, <2>1, <2>2
<1>8. QED
  BY <1>2, <1>4, <1>5, <1>6, <1>7 DEF RunnerNext, Environment, Acts

LEMMA RunnerInitBase == RunnerInit => RunnerBase
<1> SUFFICES ASSUME RunnerInit PROVE RunnerBase
  OBVIOUS
<1>1. Init
  BY DEF RunnerInit
<1>2. SchemaInv /\ SafetyInv
  BY <1>1, InitTypeOK, InitSchema, ConstantsAssumption
     DEF SchemaInv, SafetyInv, Init, ScopesNonEmpty, UnfinishedScopesDisjoint,
         GenerationIsNewestCommit, Exists, Unfinished, InState
<1>3. RunnerTypeOK
  BY NewWorkerType, RunnerAssumption DEF RunnerInit, RunnerTypeOK
<1>4. ASSUME NEW t \in Token
      PROVE  WorksOnRun(t)
  <2>1. NewWorker.pc = "new" /\ NewWorker.unread = {} /\ NewWorker.prior = NoDocuments
    BY DEF NewWorker
  <2>2. MemoryOK(NewWorker)
    BY <2>1 DEF MemoryOK, NoDocuments
  <2>3. worker[t] = NewWorker /\ publishing[t] = None /\ \A r \in RunId : ~Holding(t, r)
    BY <1>1 DEF RunnerInit, Init, Holding, InState, Exists
  <2>4. QED
    BY <2>1, <2>2, <2>3 DEF WorksOnRun, Active, At
<1>5. QED
  BY <1>2, <1>3, <1>4 DEF RunnerBase

LEMMA RunnerBaseHolds == RunnerSafety => []RunnerBase
<1>1. RunnerBase /\ [RunnerNext]_allVars => RunnerBase'
  BY RunnerSteps, JournalStep DEF RunnerBase
<1>2. QED
  BY RunnerInitBase, <1>1, PTL DEF RunnerSafety

\* Every variable of the invocations always has its type: no interleaving of
\* refreshes, passes, edits and deaths leaves a worker in an impossible state.
THEOREM RunnerTypeCorrect == RunnerSafety => []RunnerTypeOK
<1>1. RunnerBase => RunnerTypeOK
  BY DEF RunnerBase
<1>2. QED
  BY <1>1, RunnerBaseHolds, PTL

\* IndexRunner uses the journal as its contract allows: each step of any number
\* of invocations, and of the world around them, is one call of the journal or
\* leaves it alone.  What the journal promises every caller holds of the runner.
THEOREM RunnerImplementsJournal == RunnerSafety => Spec
<1>1. RunnerInit => Init
  BY DEF RunnerInit
<1>2. RunnerBase /\ [RunnerNext]_allVars => [Next]_vars
  BY RunnerSteps
<1>3. QED
  BY <1>1, <1>2, RunnerBaseHolds, PTL DEF RunnerSafety, Spec
-----------------------------------------------------------------------------
(* What a step of an invocation does to the staged rows.                   *)

\* What the runner keeps, with what the journal keeps for it.
RunnerFacts ==
    /\ RunnerBase
    /\ OneConfiguration /\ PreparedDocumentsCurrent /\ PreparedIsPublishable
    /\ DataInv /\ BasisInv /\ PublishedConfig
    /\ \A t \in Token : Has(t) => Knows(t)

SameData(row, row2) ==
    /\ row2 = None <=> row = None
    /\ row # None => /\ row2.obs = row.obs /\ row2.action = row.action
                     /\ row2.payload = row.payload

\* The refresh of the run owned by t reconciles a document.
Reconciles(t, r, p, d) ==
    /\ r = Run(t) /\ Reconcile(t, p)
    /\ staged'[r][p][d] = ReconciledRow(staged[r][p][d], worker[t].manifest[p][d])

\* The document at hand gets its payload.
Prepares(t, r, p, d) ==
    /\ r = Run(t) /\ Prepare(t, p, d) /\ Owns(t, r) /\ staged[r][p][d] # None
    /\ staged'[r][p][d] # None
    /\ staged'[r][p][d].obs = staged[r][p][d].obs
    /\ staged'[r][p][d].action = staged[r][p][d].action
    /\ staged'[r][p][d].payload = staged[r][p][d].obs

RowMoves(t, r, p, d) ==
    \/ SameData(staged[r][p][d], staged'[r][p][d])
    \/ Reconciles(t, r, p, d)
    \/ Prepares(t, r, p, d)

LEMMA StateChange ==
    ASSUME NEW row \in StagedDocument, NEW state \in DocumentState
    PROVE  /\ [row EXCEPT !.state = state] \in StagedDocument
           /\ [row EXCEPT !.state = state].state = state
           /\ SameData(row, [row EXCEPT !.state = state])
BY NoneAssumption DEF StagedDocument, SameData

LEMMA RequeuedData ==
    ASSUME NEW row \in StagedDocument \cup {None}
    PROVE  /\ SameData(row, Requeued(row))
           /\ row # None => Requeued(row).state \in {"pending", "ready"}
<1>1. CASE row # None /\ row.state \in {"processing", "error"}
  <2>1. "pending" \in DocumentState /\ row \in StagedDocument
    BY <1>1 DEF DocumentState
  <2>2. Requeued(row) = [row EXCEPT !.state = "pending"]
    BY <1>1 DEF Requeued
  <2>3. QED
    BY <2>1, <2>2, StateChange
<1>2. CASE ~(row # None /\ row.state \in {"processing", "error"})
  BY <1>2 DEF Requeued, SameData, StagedDocument, DocumentState
<1>3. QED
  BY <1>1, <1>2

\* A call that changes one row only.
LEMMA CheckpointRows ==
    ASSUME TypeOK, NEW r \in RunId, NEW t \in Token, NEW p \in Project, NEW d \in Doc,
           NEW from, NEW row, Checkpoint(r, t, p, d, from, row)
    PROVE  /\ staged[r][p][d] \in StagedDocument /\ staged[r][p][d].state = from
           /\ staged'[r][p][d] = row
           /\ \A s \in RunId, q \in Project, e \in Doc :
                s # r \/ q # p \/ e # d => staged'[s][q][e] = staged[s][q][e]
           /\ Owns(t, r) /\ UNCHANGED <<runs, digest, publishing, corpusVars>>
BY StagedIsNested DEF Checkpoint

LEMMA SameRowsMove ==
    ASSUME staged' = staged, NEW t, NEW r, NEW p, NEW d
    PROVE  RowMoves(t, r, p, d)
BY DEF RowMoves, SameData

LEMMA StateRowsMove ==
    ASSUME TypeOK, NEW t \in Token, NEW r \in RunId, NEW p \in Project, NEW d \in Doc,
           NEW from, NEW state \in DocumentState,
           Checkpoint(r, t, p, d, from, [staged[r][p][d] EXCEPT !.state = state]),
           NEW s \in RunId, NEW q \in Project, NEW e \in Doc
    PROVE  SameData(staged[s][q][e], staged'[s][q][e])
<1>1. PICK row : row = [staged[r][p][d] EXCEPT !.state = state]
  OBVIOUS
<1>2. /\ staged[r][p][d] \in StagedDocument /\ staged'[r][p][d] = row
      /\ s # r \/ q # p \/ e # d => staged'[s][q][e] = staged[s][q][e]
  BY <1>1, CheckpointRows
<1>3. SameData(staged[r][p][d], row)
  BY <1>1, <1>2, StateChange
<1>4. QED
  BY <1>2, <1>3 DEF SameData

\* The rows after a claim.
LEMMA ClaimRows ==
    ASSUME TypeOK, NEW r \in RunId, NEW t \in Token, ClaimRun(r, t)
    PROVE  /\ \A p \in Project, d \in Doc : staged'[r][p][d] = Requeued(staged[r][p][d])
           /\ \A s \in RunId \ {r} : staged'[s] = staged[s]
           /\ UNCHANGED <<digest, publishing, corpusVars>>
<1>1. staged' = [staged EXCEPT ![r] = [p \in Project |->
                   [d \in Doc |-> Requeued(staged[r][p][d])]]]
  BY DEF ClaimRun
<1>2. staged'[r] = [p \in Project |-> [d \in Doc |-> Requeued(staged[r][p][d])]]
        /\ \A s \in RunId \ {r} : staged'[s] = staged[s]
  BY <1>1 DEF TypeOK
<1>3. QED
  BY <1>2 DEF ClaimRun

\* The rows and digests after a refresh of one project.
LEMMA ReconcileRows ==
    ASSUME TypeOK, NEW r \in RunId, NEW t \in Token, NEW p \in Project,
           NEW manifest \in Manifest, ReconcileManifest(r, t, p, manifest)
    PROVE  /\ \A d \in Doc : staged'[r][p][d] = ReconciledRow(staged[r][p][d], manifest[d])
           /\ \A q \in Project \ {p} : staged'[r][q] = staged[r][q] /\ digest'[r][q] = digest[r][q]
           /\ \A s \in RunId \ {r} : staged'[s] = staged[s]
           /\ digest'[r][p] = ManifestDigest(manifest)
           /\ Owns(t, r) /\ UNCHANGED <<publishing, corpusVars>>
<1>1. /\ staged' = [staged EXCEPT ![r][p] = Reconciled(@, manifest)]
      /\ digest' = [digest EXCEPT ![r][p] = ManifestDigest(manifest)]
      /\ Owns(t, r) /\ UNCHANGED <<publishing, corpusVars>>
  BY DEF ReconcileManifest
<1>2. /\ staged'[r][p] = Reconciled(staged[r][p], manifest)
      /\ \A q \in Project \ {p} : staged'[r][q] = staged[r][q]
      /\ \A s \in RunId \ {r} : staged'[s] = staged[s]
  BY <1>1, StagedIsNested
<1>3. /\ digest'[r][p] = ManifestDigest(manifest)
      /\ \A q \in Project \ {p} : digest'[r][q] = digest[r][q]
  BY <1>1 DEF TypeOK
<1>4. QED
  BY <1>1, <1>2, <1>3 DEF Reconciled

LEMMA RowsMove ==
    ASSUME RunnerBase, NEW t \in Token, Acts(t),
           NEW s \in RunId, NEW q \in Project, NEW e \in Doc
    PROVE  RowMoves(t, s, q, e)
<1>1. TypeOK
  BY DEF RunnerBase, SchemaInv
<1>2. staged[s][q][e] \in StagedDocument \cup {None}
  BY <1>1, StagedIsNested
<1>3. CASE Claim(t)
  <2>1. CASE ClaimRun(Run(t), t)
    <3>1. Run(t) \in RunId
      BY <1>3, ActiveAt DEF Claim, At, Active
    <3>2. staged'[s][q][e] = staged[s][q][e] \/ staged'[s][q][e] = Requeued(staged[s][q][e])
      BY <1>1, <2>1, <3>1, ClaimRows
    <3>3. QED
      BY <1>2, <3>2, RequeuedData DEF RowMoves, SameData
  <2>2. QED
    BY <1>3, <2>1, SameRowsMove DEF Claim, vars
<1>4. ASSUME NEW p \in Project, Reconcile(t, p)
      PROVE  RowMoves(t, s, q, e)
  <2>1. /\ worker[t].manifest[p] \in Manifest /\ Run(t) \in RunId
        /\ ReconcileManifest(Run(t), t, p, worker[t].manifest[p])
    BY <1>4, ReconcileTakes, ActiveAt DEF Reconcile, At, Active, Run
  <2>2. \/ staged'[s][q][e] = staged[s][q][e]
        \/ /\ s = Run(t) /\ q = p
           /\ staged'[s][q][e] = ReconciledRow(staged[s][q][e], worker[t].manifest[q][e])
    BY <1>1, <2>1, ReconcileRows
  <2>3. QED
    BY <1>4, <2>2 DEF RowMoves, SameData, Reconciles
<1>5. ASSUME NEW p \in Project, NEW d \in Doc, Begin(t, p, d) \/ Read(t, p, d)
      PROVE  RowMoves(t, s, q, e)
  <2>1. Run(t) \in RunId
    BY <1>5, ActiveAt DEF Begin, Read, At, Active
  <2>2. {"pending", "processing", "error"} \subseteq DocumentState
    BY DEF DocumentState
  <2>3. CASE BeginDocument(Run(t), t, p, d)
    BY <1>1, <2>1, <2>2, <2>3, StateRowsMove DEF BeginDocument, RowMoves
  <2>4. CASE ResetDocumentPending(Run(t), t, p, d)
    BY <1>1, <2>1, <2>2, <2>4, StateRowsMove DEF ResetDocumentPending, RowMoves
  <2>5. CASE CheckpointDocumentError(Run(t), t, p, d)
    BY <1>1, <2>1, <2>2, <2>5, StateRowsMove DEF CheckpointDocumentError, RowMoves
  <2>6. CASE UNCHANGED vars
    BY <2>6, SameRowsMove DEF vars
  <2>7. QED
    BY <1>5, <2>3, <2>4, <2>5, <2>6, ReadTakes DEF Begin
<1>6. ASSUME NEW p \in Project, NEW d \in Doc, Prepare(t, p, d)
      PROVE  RowMoves(t, s, q, e)
  <2>1. Run(t) \in RunId
    BY <1>6, ActiveAt DEF Prepare, At, Active
  <2>2. CASE CheckpointDocumentError(Run(t), t, p, d)
    <3>1. "error" \in DocumentState
      BY DEF DocumentState
    <3>2. QED
      BY <1>1, <2>1, <2>2, <3>1, StateRowsMove DEF CheckpointDocumentError, RowMoves
  <2>3. CASE CheckpointDocument(Run(t), t, p, d, staged[Run(t)][p][d].obs)
    <3>1. PICK r : r = Run(t)
      OBVIOUS
    <3>2. PICK row : row = staged[r][p][d]
      OBVIOUS
    <3>3. PICK row2 : row2 = [row EXCEPT !.state = "ready", !.payload = row.obs]
      OBVIOUS
    <3>4. Checkpoint(r, t, p, d, "processing", row2)
      BY <2>3, <3>1, <3>2, <3>3 DEF CheckpointDocument
    <3>5. /\ row \in StagedDocument /\ row.state = "processing" /\ staged'[r][p][d] = row2
          /\ s # r \/ q # p \/ e # d => staged'[s][q][e] = staged[s][q][e]
          /\ Owns(t, r)
      BY <1>1, <2>1, <3>1, <3>2, <3>4, CheckpointRows
    <3>6. row.obs \in Observation /\ row # None
      <4>1. row # None
        BY <3>5, NoneAssumption
      <4>2. WellFormedRow(row)
        BY <2>1, <3>1, <3>2, <4>1 DEF RunnerBase, SchemaInv, RowsSatisfySchema
      <4>3. QED
        BY <3>5, <4>1, <4>2 DEF WellFormedRow, StagedDocument
    <3>7. row2 # None /\ row2.payload = row.obs /\ row2.obs = row.obs /\ row2.action = row.action
      <4>1. PICK payload : payload = row.obs
        OBVIOUS
      <4>2. payload \in Observation /\ row2 = [row EXCEPT !.state = "ready", !.payload = payload]
        BY <3>3, <3>6, <4>1
      <4>3. row \in StagedDocument
        BY <3>5
      <4>4. row2 # None /\ row2.payload = payload /\ row2.obs = row.obs /\ row2.action = row.action
        BY <4>2, <4>3, NoneAssumption DEF StagedDocument, DocumentState
      <4>5. QED
        BY <4>1, <4>4
    <3>8. CASE s # r \/ q # p \/ e # d
      BY <3>5, <3>8 DEF RowMoves, SameData
    <3>9. CASE s = r /\ q = p /\ e = d
      BY <1>6, <3>1, <3>2, <3>5, <3>6, <3>7, <3>9 DEF RowMoves, Prepares
    <3>10. QED
      BY <3>8, <3>9
  <2>4. QED
    BY <1>6, <2>2, <2>3, PrepareTakes
<1>7. CASE Start(t)
  <2>1. staged' = staged
    BY <1>7 DEF Start, CreateOrResumeRun
  <2>2. QED
    BY <2>1, SameRowsMove
<1>8. CASE \/ \E r \in RunId : StartNamed(t, r)
           \/ Refused(t) \/ Interrupted(t) \/ Fail(t) \/ Pause(t) \/ Refresh(t)
           \/ \E p \in Project : List(t, p)
           \/ \E d \in Doc : Observe(t, d)
           \/ CountRound(t) \/ AllBegun(t)
  <2>1. staged' = staged
    BY <1>8, StartNamedTakes, RefusedTakes, ListTakes, ObserveTakes
       DEF Fail, Pause, Refresh, CountRound, AllBegun, FailRun, PauseRun, Heartbeat, vars
  <2>2. QED
    BY <2>1, SameRowsMove
<1>9. CASE Settle(t) \/ Publish(t) \/ Commit(t) \/ Crash(t)
  <2>1. CASE Settle(t)
    BY <2>1, SameRowsMove DEF Settle, Heartbeat, MarkRunReady, vars
  <2>2. CASE Publish(t)
    BY <2>2, SameRowsMove DEF Publish, PreparePublication, ReportCommitted, journalVars, vars
  <2>3. CASE Commit(t)
    BY <2>3, SameRowsMove DEF Commit, CommitPublication, RollBackPublication, journalVars
  <2>4. CASE Crash(t)
    BY <2>4, CrashTakes, SameRowsMove DEF journalVars
  <2>5. QED
    BY <1>9, <2>1, <2>2, <2>3, <2>4
<1>10. QED
  BY <1>3, <1>4, <1>5, <1>6, <1>7, <1>8, <1>9 DEF Acts, Proceed
-----------------------------------------------------------------------------
(* The data of the runs, the corpus and the source.                        *)

\* What the manifest of a complete refresh says.
LEMMA ManifestSays ==
    ASSUME RunnerFacts, NEW t \in Token, NEW p \in Project, Reconcile(t, p)
    PROVE  /\ Has(t) /\ At(t, "observing") /\ Owns(t, Run(t)) /\ Run(t) \in RunId
           /\ p \in ScopeOf[t] /\ p \in worker[t].unreconciled
           /\ staged[Run(t)][p] = worker[t].prior[p]
           /\ \A d \in Doc :
                /\ Told(t, seen[t], Basis(Run(t)), p, d, worker[t].manifest[p][d])
                /\ Entry(Basis(Run(t)), p, d, worker[t].manifest[p][d])
                /\ Vouched(t, seen[t], Basis(Run(t)), p, d, worker[t].manifest[p][d],
                           staged[Run(t)][p][d])
<1>1. PICK w : w = worker[t]
  OBVIOUS
<1>2. /\ At(t, "observing") /\ Active(t) /\ Owns(t, Run(t))
      /\ w.unlisted \cup w.unread = {} /\ p \in w.unreconciled
  BY <1>1 DEF Reconcile, ReconcileManifest, At, Active, Run
<1>3. Has(t) /\ Run(t) \in RunId
  BY <1>2, ActiveAt DEF Has, Holding, Owns, InState, RunnerFacts
<1>4. RefreshOK(t, w, seen[t], Basis(Run(t)), staged[Run(t)])
  BY <1>1, <1>2, <1>3 DEF RunnerFacts, Knows, OwnerOK, At
<1>5. p \in ScopeOf[t] \ w.unlisted /\ Unread(w, p) = {}
  BY <1>2, <1>4 DEF RefreshOK, Unread
<1>6. QED
  BY <1>1, <1>2, <1>3, <1>4, <1>5 DEF RefreshOK

LEMMA RestagedFields ==
    ASSUME NEW x
    PROVE  /\ Restaged(x).obs = x.obs /\ Restaged(x).action = x.action
           /\ Restaged(x).payload = None
           /\ Restaged(x).state \in {"pending", "ready"}
           /\ StagedDeletion.obs = None /\ StagedDeletion.action = "delete"
           /\ StagedDeletion.payload = None /\ StagedDeletion.state = "ready"
BY DEF Restaged, StagedDeletion

\* What becomes of a row in a refresh.
LEMMA RowReconciled ==
    ASSUME NEW row, NEW x
    PROVE  \/ ReconciledRow(row, x) = row /\ x # None /\ Keeps(row, x)
           \/ ReconciledRow(row, x) = Restaged(x) /\ x # None /\ ~Keeps(row, x)
           \/ /\ ReconciledRow(row, x) = row /\ x = None
              /\ row = None \/ (row.action = "delete" /\ row.state = "ready")
           \/ /\ ReconciledRow(row, x) = StagedDeletion /\ x = None /\ row # None
BY DEF ReconciledRow, IsDeletion

LEMMA AuthenticReconciled ==
    ASSUME NEW d \in Doc, NEW row, NEW x, Authentic(d, row), NEW B, NEW p, Entry(B, p, d, x)
    PROVE  Authentic(d, ReconciledRow(row, x))
<1>1. CASE ReconciledRow(row, x) = Restaged(x) /\ x # None
  <2>1. /\ x.obs.path = d
        /\ x.action # "delete" /\ x.obs.hash # ReadError => x.obs \in FilesAt(d)
    BY <1>1 DEF Entry
  <2>2. QED
    BY <1>1, <2>1, RestagedFields DEF Authentic
<1>2. CASE ReconciledRow(row, x) = StagedDeletion
  BY <1>2, RestagedFields DEF Authentic
<1>3. QED
  BY <1>1, <1>2, RowReconciled

LEMMA PreparingKnows ==
    ASSUME RunnerFacts, NEW t \in Token, NEW p \in Project, NEW d \in Doc,
           Prepare(t, p, d), Owns(t, Run(t))
    PROVE  staged[Run(t)][p][d].obs \in FilesAt(d)
<1>1. At(t, "preparing") /\ worker[t].doc = <<p, d>> /\ Active(t)
  BY DEF Prepare, At, Active
<1>2. Has(t)
  BY <1>1, ActiveAt DEF Has, Holding, Owns, InState, RunnerFacts
<1>3. PassOK(worker[t], staged[Run(t)])
  BY <1>2 DEF RunnerFacts, Knows, OwnerOK
<1>4. QED
  BY <1>1, <1>3 DEF PassOK, At

LEMMA RowsStayAuthentic ==
    ASSUME RunnerFacts, NEW t \in Token, Acts(t),
           NEW r \in RunId, NEW p \in Project, NEW d \in Doc
    PROVE  Authentic(d, staged[r][p][d])'
<1>1. Authentic(d, staged[r][p][d])
  BY DEF RunnerFacts, DataInv
<1>2. RowMoves(t, r, p, d)
  BY RowsMove DEF RunnerFacts
<1>3. CASE SameData(staged[r][p][d], staged'[r][p][d])
  BY <1>1, <1>3 DEF SameData, Authentic
<1>4. CASE Reconciles(t, r, p, d)
  <2>1. Entry(Basis(Run(t)), p, d, worker[t].manifest[p][d])
    BY <1>4, ManifestSays DEF Reconciles
  <2>2. Authentic(d, ReconciledRow(staged[r][p][d], worker[t].manifest[p][d]))
    BY <1>1, <2>1, AuthenticReconciled
  <2>3. QED
    BY <1>4, <2>2 DEF Reconciles
<1>5. CASE Prepares(t, r, p, d)
  <2>1. staged[r][p][d].obs \in FilesAt(d)
    BY <1>5, PreparingKnows DEF Prepares
  <2>2. QED
    BY <1>1, <1>5, <2>1 DEF Prepares, Authentic
<1>6. QED
  BY <1>2, <1>3, <1>4, <1>5 DEF RowMoves

\* A file whose revision alone differs is that file with the other revision.
LEMMA MetadataFile ==
    ASSUME NEW d \in Doc, NEW file \in FilesAt(d), NEW obs \in Observation,
           obs.path = d, ActionFor(file, obs) = "metadata"
    PROVE  /\ [file EXCEPT !.rev = obs.rev] = obs
           /\ obs.hash # ReadError
<1>1. file \in Observation /\ file.path = d /\ file.hash \notin {ReadError, NoHash}
         /\ file # None
  BY FilesAtObservation
<1>2. file.hash = obs.hash
  BY <1>1 DEF ActionFor
<1>3. QED
  BY <1>1, <1>2 DEF Observation

LEMMA UnchangedFile ==
    ASSUME NEW d \in Doc, NEW file \in FilesAt(d) \cup {None}, NEW obs \in Observation,
           ActionFor(file, obs) = "unchanged"
    PROVE  file = obs /\ file \in FilesAt(d)
<1>1. file # None /\ file.path = obs.path /\ file.hash = obs.hash /\ file.rev = obs.rev
  BY DEF ActionFor
<1>2. file \in Observation
  BY <1>1, FilesAtObservation
<1>3. QED
  BY <1>1, <1>2 DEF Observation

\* What a publication makes of a document.
LEMMA PublishedFile ==
    ASSUME NEW d \in Doc, NEW file \in FilesAt(d) \cup {None},
           NEW row \in StagedDocument, WellFormedRow(row), row.state = "ready",
           Authentic(d, row), ActsOn(file, row)
    PROVE  /\ FileAfter(file, row) \in FilesAt(d) \cup {None}
           /\ row.action = "delete" => FileAfter(file, row) = None
           /\ row.action # "delete" =>
                /\ FileAfter(file, row) = row.obs /\ row.obs.path = d
                /\ row.obs \in FilesAt(d)
                /\ row.action = "metadata" => file # None
<1>1. row # None
  BY NoneAssumption
<1>2. CASE row.action = "upsert"
  <2>1. FileAfter(file, row) = row.payload /\ row.payload # None
    BY <1>2 DEF FileAfter, WellFormedRow
  <2>2. row.payload = row.obs /\ row.obs \in FilesAt(d)
    BY <1>1, <2>1 DEF Authentic
  <2>3. QED
    BY <1>2, <2>1, <2>2, FilesAtObservation
<1>3. CASE row.action = "delete"
  BY <1>3 DEF FileAfter
<1>4. CASE row.action \notin {"upsert", "delete"}
  <2>1. PICK obs : obs = row.obs
    OBVIOUS
  <2>2. /\ row.action = ActionFor(file, obs) /\ obs # None /\ obs \in Observation
        /\ obs.path = d
        /\ obs.hash # ReadError => obs \in FilesAt(d)
    BY <1>1, <1>4, <2>1 DEF ActsOn, Authentic, WellFormedRow, StagedDocument
  <2>3. CASE row.action = "metadata"
    <3>1. ActionFor(file, obs) = "metadata" /\ file # None
      BY <2>2, <2>3 DEF ActionFor
    <3>2. file \in FilesAt(d)
      BY <3>1
    <3>3. [file EXCEPT !.rev = obs.rev] = obs
      BY <2>2, <3>1, <3>2, MetadataFile
    <3>4. obs \in FilesAt(d)
      BY <2>2, <3>1, <3>2, MetadataFile
    <3>5. FileAfter(file, row) = obs
      BY <2>1, <2>3, <3>3 DEF FileAfter
    <3>6. QED
      BY <2>1, <2>2, <2>3, <3>1, <3>4, <3>5
  <2>4. CASE row.action = "unchanged"
    <3>1. ActionFor(file, obs) = "unchanged"
      BY <2>2, <2>4
    <3>2. file = obs /\ file \in FilesAt(d)
      BY <2>2, <3>1, UnchangedFile
    <3>3. FileAfter(file, row) = file
      BY <2>4 DEF FileAfter
    <3>4. QED
      BY <2>1, <2>2, <2>4, <3>2, <3>3
  <2>5. QED
    BY <1>4, <2>3, <2>4 DEF StagedDocument, DocumentAction
<1>5. QED
  BY <1>2, <1>3, <1>4
\* A publication puts the observations of its rows before the readers.
LEMMA PublishedLive ==
    ASSUME RunnerFacts, NEW n \in RunId, Publishes(n), NEW p \in Project, NEW d \in Doc
    PROVE  /\ live'[p][d] \in FilesAt(d) \cup {None}
           /\ p \in runs[n].scope =>
                IF staged[n][p][d] = None THEN live'[p][d] = live[p][d]
                ELSE IF staged[n][p][d].action = "delete" THEN live'[p][d] = None
                ELSE live'[p][d] = staged[n][p][d].obs /\ live'[p][d] \in FilesAt(d)
<1>1. TypeOK /\ RowsSatisfySchema /\ DataInv /\ BasisInv
  BY DEF RunnerFacts, RunnerBase, SchemaInv
<1>2. PICK t \in Token : n = publishing[t].run /\ CommitPublication(t)
  BY DEF Publishes
<1>3. /\ InState(n, {"ready"}) /\ runs[n].owner = t /\ publishing[t] # None
      /\ runs[n] \in IndexRun /\ runs[n].base = generation
  BY <1>1, <1>2 DEF CommitPublication, Committable, StillPublishable, InState, Exists, TypeOK
<1>4. publishing[t].documents = staged[n] /\ AllReady(staged[n])
  BY <1>2, <1>3 DEF RunnerFacts, PreparedDocumentsCurrent, PreparedIsPublishable, Publishable
<1>5. live' = [q \in Project |-> IF q \in runs[n].scope
                                 THEN LiveAfter(live[q], staged[n][q]) ELSE live[q]]
  BY <1>2, <1>4 DEF CommitPublication
<1>6. live[p][d] \in FilesAt(d) \cup {None}
  BY <1>1 DEF DataInv
<1>7. CASE p \in runs[n].scope /\ staged[n][p][d] # None
  <2>1. PICK row : row = staged[n][p][d]
    OBVIOUS
  <2>2. live'[p][d] = FileAfter(live[p][d], row)
    BY <1>5, <1>7, <2>1 DEF LiveAfter
  <2>3. row \in StagedDocument /\ WellFormedRow(row) /\ row.state = "ready"
    BY <1>1, <1>4, <1>7, <2>1, StagedIsNested DEF RowsSatisfySchema, AllReady
  <2>4. Authentic(d, row)
    BY <1>1, <2>1 DEF DataInv
  <2>5. ActsOn(live[p][d], row)
    <3>1. Unfinished(n) /\ live \in Basis(n)
      BY <1>3 DEF Unfinished, InState, UnfinishedState, Basis
    <3>2. QED
      BY <1>1, <2>1, <3>1 DEF BasisInv
  <2>6. /\ FileAfter(live[p][d], row) \in FilesAt(d) \cup {None}
        /\ row.action = "delete" => FileAfter(live[p][d], row) = None
    BY <1>6, <2>3, <2>4, <2>5, PublishedFile
  <2>7. row.action # "delete" =>
            FileAfter(live[p][d], row) = row.obs /\ row.obs \in FilesAt(d)
    BY <1>6, <2>3, <2>4, <2>5, PublishedFile
  <2>8. QED
    BY <1>7, <2>1, <2>2, <2>6, <2>7
<1>8. CASE p \in runs[n].scope /\ staged[n][p][d] = None
  BY <1>5, <1>6, <1>8 DEF LiveAfter
<1>9. CASE p \notin runs[n].scope
  BY <1>5, <1>6, <1>9
<1>10. QED
  BY <1>7, <1>8, <1>9

LEMMA CorpusMoves ==
    ASSUME RunnerFacts, [Next]_vars
    PROVE  UNCHANGED corpusVars \/ \E n \in RunId : Publishes(n)
BY StepShape DEF RunnerFacts, RunnerBase, SchemaInv

LEMMA DataStays ==
    ASSUME RunnerFacts, [RunnerNext]_allVars
    PROVE  DataInv'
<1>1. RunnerBase /\ [Next]_vars /\ RunnerStep /\ DataInv
  BY RunnerSteps DEF RunnerFacts
<1>2. \A p \in Project, d \in Doc : live'[p][d] \in FilesAt(d) \cup {None}
  <2>1. CASE UNCHANGED corpusVars
    BY <1>1, <2>1 DEF DataInv, corpusVars
  <2>2. QED
    BY <1>1, <2>1, CorpusMoves, PublishedLive
<1>3. ASSUME NEW r \in RunId, NEW p \in Project, NEW d \in Doc
      PROVE  Authentic(d, staged[r][p][d])'
  <2>1. CASE staged' = staged
    BY <1>1, <2>1 DEF DataInv, Authentic
  <2>2. QED
    BY <1>1, <2>1, RowsStayAuthentic DEF RunnerStep
<1>4. ASSUME NEW p \in Project, NEW d \in Doc
      PROVE  source'[p][d] \in FilesAt(d) \cup {None}
  <2>1. source[p][d] \in FilesAt(d) \cup {None}
    BY <1>1 DEF DataInv
  <2>2. source \in [Project -> [Doc -> Observation \cup {None}]]
    BY <1>1 DEF RunnerBase, RunnerTypeOK
  <2>3. ASSUME NEW q \in Project, NEW e \in Doc, NEW file \in FilesAt(e) \cup {None},
               source' = [source EXCEPT ![q][e] = file]
        PROVE  source'[p][d] \in FilesAt(d) \cup {None}
    <3>1. CASE q = p /\ e = d
      BY <2>2, <2>3, <3>1
    <3>2. CASE ~(q = p /\ e = d)
      BY <2>1, <2>2, <2>3, <3>2
    <3>3. QED
      BY <3>1, <3>2
  <2>4. QED
    BY <1>1, <2>1, <2>3 DEF RunnerStep, StepOf
<1>5. QED
  BY <1>2, <1>3, <1>4 DEF DataInv

LEMMA ActsOnReconciled ==
    ASSUME NEW d, NEW row, NEW x, NEW file, ActsOn(file, row), NEW B, NEW p,
           Entry(B, p, d, x), \E files \in B : file = files[p][d]
    PROVE  ActsOn(file, ReconciledRow(row, x))
<1>1. CASE ReconciledRow(row, x) = Restaged(x) /\ x # None
  <2>1. x.action # "delete" => x.action = ActionFor(file, x.obs)
    BY <1>1 DEF Entry
  <2>2. QED
    BY <1>1, <2>1, RestagedFields DEF ActsOn
<1>2. CASE ReconciledRow(row, x) = StagedDeletion
  BY <1>2, RestagedFields DEF ActsOn
<1>3. QED
  BY <1>1, <1>2, RowReconciled

LEMMA BasisStays ==
    ASSUME RunnerFacts, [RunnerNext]_allVars
    PROVE  BasisInv'
<1>1. /\ RunnerBase /\ TypeOK /\ [Next]_vars /\ RunnerStep /\ BasisInv /\ RowsSatisfySchema
      /\ SafetyInv
  BY RunnerSteps DEF RunnerFacts, RunnerBase, SchemaInv
<1>2. SUFFICES ASSUME NEW r \in RunId, Unfinished(r)', NEW files \in Basis(r)',
                      NEW p \in Project, NEW d \in Doc
               PROVE  ActsOn(files[p][d], staged'[r][p][d])
  BY DEF BasisInv
<1>3. files = live' /\ runs'[r].base = generation'
  BY <1>2 DEF Basis
<1>4. Changes(r)
  BY <1>1, StepShape
<1>5. UNCHANGED corpusVars
  <2>1. ASSUME NEW n \in RunId, Publishes(n)
        PROVE  FALSE
    <3>1. generation < generation' /\ generation' = n
      BY <1>1, <2>1, PublishingGrows DEF SafetyInv
    <3>2. generation \in Nat /\ generation' \in Nat
      BY <1>1, <3>1, ConstantsAssumption DEF TypeOK, RunId
    <3>3. /\ runs[n] \in IndexRun
          /\ runs'[n] = Released(runs[n], "committed")
          /\ \A s \in RunId \ {n} : runs'[s] = runs[s]
      BY <1>1, <2>1 DEF Publishes, InState, Exists, TypeOK
    <3>4. r # n
      BY <1>2, <3>3, ReleasedRun DEF Unfinished, InState, UnfinishedState, RunState
    <3>5. Unfinished(r) /\ runs'[r] = runs[r]
      BY <1>2, <3>3, <3>4 DEF Unfinished, InState, Exists
    <3>6. runs[r].base <= generation /\ runs[r].base \in Nat
      BY <1>1, <3>5 DEF SafetyInv, GenerationIsNewestCommit, Unfinished, InState, Exists,
                        TypeOK, IndexRun
    <3>7. QED
      BY <1>3, <3>1, <3>2, <3>5, <3>6
  <2>2. QED
    BY <1>1, <2>1, CorpusMoves
<1>6. files = live /\ generation' = generation
  BY <1>3, <1>5 DEF corpusVars
<1>7. CASE Created(r)
  <2>1. ~Exists(r)
    BY <1>7 DEF Created, NextRunId, RunId
  <2>2. staged[r][p][d] = None
    BY <1>1, <2>1 DEF RowsSatisfySchema
  <2>3. staged'[r][p][d] = None
    <3>1. CASE staged' = staged
      BY <2>2, <3>1
    <3>2. ASSUME NEW t \in Token, Acts(t)
          PROVE  staged'[r][p][d] = None
      <4>1. ~(r = Run(t) /\ Reconcile(t, p))
        BY <2>1, ManifestSays DEF Owns, InState
      <4>2. SameData(staged[r][p][d], staged'[r][p][d])
        BY <1>1, <2>1, <3>2, <4>1, RowsMove DEF RowMoves, Reconciles, Prepares, Owns, InState
      <4>3. QED
        BY <2>2, <4>2 DEF SameData
    <3>3. QED
      BY <1>1, <3>1, <3>2 DEF RunnerStep
  <2>4. QED
    BY <2>3 DEF ActsOn
<1>8. CASE ~Created(r)
  <2>1. Unfinished(r) /\ runs'[r].base = runs[r].base
    BY <1>2, <1>4, <1>8 DEF Changes, Moved, Collected, Unfinished, InState, Exists
  <2>2. live \in Basis(r)
    BY <1>3, <1>6, <2>1 DEF Basis
  <2>3. ActsOn(live[p][d], staged[r][p][d])
    BY <1>1, <2>1, <2>2 DEF BasisInv
  <2>4. CASE staged' = staged
    BY <1>6, <2>3, <2>4
  <2>5. ASSUME NEW t \in Token, Acts(t)
        PROVE  ActsOn(live[p][d], staged'[r][p][d])
    <3>1. RowMoves(t, r, p, d)
      BY <1>1, <2>5, RowsMove
    <3>2. CASE SameData(staged[r][p][d], staged'[r][p][d])
      BY <2>3, <3>2 DEF SameData, ActsOn
    <3>3. CASE Reconciles(t, r, p, d)
      <4>1. Entry(Basis(r), p, d, worker[t].manifest[p][d])
        BY <3>3, ManifestSays DEF Reconciles
      <4>2. ActsOn(live[p][d], ReconciledRow(staged[r][p][d], worker[t].manifest[p][d]))
        BY <2>2, <2>3, <4>1, ActsOnReconciled
      <4>3. QED
        BY <3>3, <4>2 DEF Reconciles
    <3>4. CASE Prepares(t, r, p, d)
      BY <2>3, <3>4 DEF Prepares, ActsOn
    <3>5. QED
      BY <3>1, <3>2, <3>3, <3>4 DEF RowMoves
  <2>6. QED
    BY <1>1, <1>6, <2>4, <2>5 DEF RunnerStep
<1>9. QED
  BY <1>7, <1>8
LEMMA ConfigPublished ==
    ASSUME RunnerFacts, [RunnerNext]_allVars
    PROVE  PublishedConfig'
<1>1. RunnerBase /\ TypeOK /\ [Next]_vars /\ RunnerStep /\ PublishedConfig
  BY RunnerSteps DEF RunnerFacts, RunnerBase, SchemaInv
<1>2. \A r \in RunId : Kept(r)
  BY <1>1, CallKeeps DEF RunnerStep
<1>3. \A r \in RunId : InState(r, {"committed"}) =>
          InState(r, {"committed"})' /\ runs'[r] = runs[r]
  BY <1>2 DEF Kept, InState, Exists
<1>4. CASE UNCHANGED corpusVars
  BY <1>1, <1>3, <1>4 DEF PublishedConfig, corpusVars
<1>5. ASSUME NEW n \in RunId, Publishes(n)
      PROVE  PublishedConfig'
  <2>1. runs[n] \in IndexRun /\ runs'[n] = Released(runs[n], "committed")
    BY <1>1, <1>5 DEF Publishes, InState, Exists, TypeOK
  <2>2. runs'[n].status = "committed" /\ runs'[n].scope = runs[n].scope /\ runs'[n] # None
    BY <2>1, ReleasedRun, NoneAssumption DEF RunState
  <2>3. InState(n, {"committed"})'
    BY <2>2 DEF InState, Exists
  <2>4. ASSUME NEW p \in Project, locator'[p] # None
        PROVE  \E s \in RunId : InState(s, {"committed"})' /\ p \in runs'[s].scope
    <3>1. CASE p \in runs[n].scope
      BY <2>2, <2>3, <3>1
    <3>2. CASE p \notin runs[n].scope
      <4>1. locator'[p] = locator[p]
        BY <1>5, <3>2 DEF Publishes, CommitPublication
      <4>2. QED
        BY <1>1, <1>3, <2>4, <4>1 DEF PublishedConfig
    <3>3. QED
      BY <3>1, <3>2
  <2>5. QED
    BY <2>3, <2>4 DEF PublishedConfig
<1>6. QED
  BY <1>1, <1>4, <1>5, CorpusMoves

-----------------------------------------------------------------------------
(* What an invocation knows after a step of its own.                       *)

\* A step that is not about the rows of a pass.
LEMMA PassQuiet ==
    ASSUME NEW w, NEW w2, NEW rows, PassOK(w, rows),
           w.pc \notin {"reading", "preparing", "pausing", "failing"},
           w2.pc \notin {"processing", "reading", "preparing", "publishing", "committing"}
    PROVE  PassOK(w2, rows)
BY DEF PassOK

LEMMA PassBroken ==
    ASSUME NEW w2, NEW rows, w2.pc \in {"pausing", "failing"}
    PROVE  PassOK(w2, rows)
BY DEF PassOK

\* Outside of a refresh, and before its end.
LEMMA NothingSettled ==
    ASSUME NEW t, NEW w, NEW S, NEW B, NEW rows, NEW digests, PassOK(w, rows),
           w.pc \notin {"observing", "counting", "settled", "publishing", "committing"}
    PROVE  OwnerOK(t, w, S, B, rows, digests)
BY DEF OwnerOK, DoneOK, Settled

\* After the refresh, while nothing is begun.
LEMMA StaysSettled ==
    ASSUME NEW t, NEW w, NEW w2, NEW S, NEW B, NEW rows, NEW digests,
           OwnerOK(t, w, S, B, rows, digests), PassOK(w2, rows),
           w.pc \in {"counting", "settled", "publishing"},
           w2.pc \in {"settled", "publishing", "committing"}
    PROVE  OwnerOK(t, w2, S, B, rows, digests)
BY DEF OwnerOK, DoneOK, Settled

LEMMA ConfigGoesOn ==
    ASSUME NEW t \in Token, NEW r \in RunId, Run(t) = r, Run(t)' = r, Exists(r), Kept(r),
           UNCHANGED corpusVars, ~At(t, "failing"), ConfigOK(t),
           At(t, "failing")' => ~Owns(t, r)'
    PROVE  ConfigOK(t)'
<1>1. /\ runs'[r].config = runs[r].config /\ runs'[r].scope = runs[r].scope
      /\ runs'[r].base = runs[r].base
  BY DEF Kept
<1>2. runs[r].base = generation => AcceptsConfig(runs[r].config, ScopeOf[t])
  BY DEF ConfigOK
<1>3. runs'[r].base = generation' => AcceptsConfig(runs[r].config, ScopeOf[t])'
  BY <1>1, <1>2 DEF AcceptsConfig, corpusVars
<1>4. QED
  BY <1>1, <1>3 DEF ConfigOK

\* The shape of the following lemmas: an invocation that has its run before and
\* after a step of its own that does not publish.
LEMMA KnowsAfter ==
    ASSUME RunnerFacts, NEW t \in Token, JournalBy(t), Has(t), UNCHANGED corpusVars,
           worker'[t].run = Run(t), ~At(t, "failing"),
           worker'[t].pc = "failing" => ~Owns(t, Run(t))',
           OwnerOK(t, worker'[t], seen'[t], Basis(Run(t)), staged'[Run(t)], digest'[Run(t)])
    PROVE  Knows(t)'
<1>1. PICK r : r = Run(t)
  OBVIOUS
<1>2. /\ r \in RunId /\ Exists(r) /\ Run(t)' = r /\ TypeOK /\ Knows(t)
  BY <1>1 DEF RunnerFacts, RunnerBase, SchemaInv, WorksOnRun, Has, Run
<1>3. Kept(r)
  BY <1>2, CallKeeps
<1>4. Basis(r)' = Basis(r)
  BY <1>2, <1>3 DEF Kept, Basis, corpusVars
<1>5. OwnerOK(t, worker[t], seen[t], Basis(Run(t)), staged[Run(t)], digest[Run(t)])'
  BY <1>1, <1>2, <1>4 DEF Basis
<1>6. ConfigOK(t)'
  BY <1>1, <1>2, <1>3, ConfigGoesOn DEF Knows, At
<1>7. QED
  BY <1>5, <1>6 DEF Knows
LEMMA HasOwner ==
    ASSUME RunnerFacts, NEW t \in Token, Has(t)
    PROVE  /\ Run(t) \in RunId /\ TypeOK /\ worker[t] \in Worker /\ WorksOnRun(t)
           /\ OwnerOK(t, worker[t], seen[t], Basis(Run(t)), staged[Run(t)], digest[Run(t)])
           /\ PassOK(worker[t], staged[Run(t)])
           /\ \A p \in Project, d \in Doc :
                staged[Run(t)][p][d] \in StagedDocument \cup {None}
<1>1. /\ Run(t) \in RunId /\ TypeOK /\ worker[t] \in Worker /\ WorksOnRun(t)
  BY ActiveAt DEF Has, RunnerFacts, RunnerBase, SchemaInv
<1>2. OwnerOK(t, worker[t], seen[t], Basis(Run(t)), staged[Run(t)], digest[Run(t)])
  BY DEF RunnerFacts, Knows
<1>3. QED
  BY <1>1, <1>2, StagedIsNested DEF OwnerOK

LEMMA OwnsHas ==
    ASSUME NEW t, Active(t), Owns(t, Run(t))
    PROVE  Has(t)
BY DEF Has, Holding, Owns, InState

\* An invocation that has its run after a step that moves no run had it before.
LEMMA HadBefore ==
    ASSUME NEW t, Active(t), runs' = runs, worker'[t].run = Run(t), Has(t)'
    PROVE  Has(t)
BY DEF Has, Holding, InState, Exists, Run

LEMMA EndedHasNot ==
    ASSUME NEW t, worker'[t].pc = "done"
    PROVE  ~Has(t)'
BY DEF Has, Active

LEMMA StartKnows ==
    ASSUME RunnerFacts, NEW t \in Token, Start(t) \/ \E r \in RunId : StartNamed(t, r)
    PROVE  ~Has(t)'
<1>1. RunnerBase
  BY DEF RunnerFacts
<1>2. WorksOnRun(t)'
  BY <1>1, StartWorks, StartNamedWorks
<1>3. CASE worker'[t].pc = "claiming"
  BY <1>2, <1>3 DEF WorksOnRun, Has, At, Run
<1>4. CASE Ends(t)
  BY <1>1, <1>4, EndedHasNot, NewWorkerType
     DEF Ends, Becomes, Ended, NewWorker, RunnerBase, RunnerTypeOK
<1>5. ASSUME NEW r \in RunId, Becomes(t, [NewWorker EXCEPT !.pc = "claiming", !.run = r])
      PROVE  worker'[t].pc = "claiming"
  BY <1>1, <1>5, ClaimingType DEF Becomes, RunnerBase, RunnerTypeOK
<1>6. QED
  BY <1>3, <1>4, <1>5 DEF Start, StartNamed, Overlapping

\* A refused configuration is refused by a publication.
LEMMA RefusedConfig ==
    ASSUME OneConfiguration, PublishedConfig, NEW r \in RunId,
           runs[r].scope \subseteq Project,
           ~AcceptsConfig(runs[r].config, runs[r].scope)
    PROVE  \E s \in RunId : InState(s, {"committed"}) /\ Disagree(runs[r], runs[s])
<1>1. CASE settings \notin {None, SettingsOf[runs[r].config]}
  BY <1>1 DEF PublishedConfig, OneConfiguration, Disagree
<1>2. ASSUME NEW p \in runs[r].scope, locator[p] \notin {None, LocatorOf[runs[r].config][p]}
      PROVE  \E s \in RunId : InState(s, {"committed"}) /\ Disagree(runs[r], runs[s])
  <2>1. PICK s \in RunId : InState(s, {"committed"}) /\ p \in runs[s].scope
    BY <1>2 DEF PublishedConfig
  <2>2. locator[p] = LocatorOf[runs[s].config][p]
    BY <2>1 DEF OneConfiguration
  <2>3. QED
    BY <1>2, <2>1, <2>2 DEF Disagree
<1>3. QED
  BY <1>1, <1>2 DEF AcceptsConfig

LEMMA ClaimKnows ==
    ASSUME RunnerFacts, NEW t \in Token, Claim(t), Has(t)'
    PROVE  Knows(t)'
<1>1. PICK r : r = Run(t)
  OBVIOUS
<1>2. /\ RunnerBase /\ TypeOK /\ At(t, "claiming") /\ Active(t) /\ WorksOnRun(t)
      /\ OneConfiguration /\ PublishedConfig
  BY DEF RunnerFacts, RunnerBase, SchemaInv, Claim, At, Active
<1>3. r \in RunId /\ runs[r] \in IndexRun /\ worker[t] \in Worker /\ runs[r].scope = ScopeOf[t]
  BY <1>1, <1>2, ActiveAt DEF WorksOnRun
<1>4. ClaimRun(r, t)
  <2>1. Ends(t) => worker'[t].pc = "done"
    BY <1>2, EndsStep DEF RunnerBase, Claim
  <2>2. QED
    BY <1>1, <2>1, EndedHasNot DEF Claim
<1>5. PICK pc \in {"refreshing", "failing"}, pass \in BOOLEAN :
        /\ worker'[t] = [worker[t] EXCEPT !.pc = pc, !.pass = pass]
        /\ pc = "refreshing" <=> AcceptsConfig(runs[r].config, ScopeOf[t])
  <2>1. ~Ends(t)
    BY <1>2, EndedHasNot, EndsStep DEF RunnerBase, Claim
  <2>2. QED
    BY <1>1, <1>2, <2>1 DEF Claim, Becomes, RunnerBase, RunnerTypeOK
<1>6. worker'[t].pc = pc /\ worker'[t].run = r
  BY <1>1, <1>3, <1>5 DEF Worker, Run
<1>7. /\ \A p \in Project, d \in Doc : staged'[r][p][d] = Requeued(staged[r][p][d])
      /\ UNCHANGED corpusVars
  BY <1>2, <1>3, <1>4, ClaimRows
<1>8. PassOK(worker'[t], staged'[r])
  <2>1. \A p \in Project, d \in Doc :
           staged'[r][p][d] = None \/ staged'[r][p][d].state \in {"pending", "ready"}
    BY <1>2, <1>3, <1>7, StagedIsNested, RequeuedData DEF SameData
  <2>2. QED
    BY <1>6, <2>1 DEF PassOK
<1>9. OwnerOK(t, worker'[t], seen'[t], Basis(Run(t))', staged'[r], digest'[r])
  BY <1>6, <1>8, NothingSettled
<1>10. /\ runs'[r] = Claimed(runs[r], t) /\ \A s \in RunId \ {r} : runs'[s] = runs[s]
       /\ Exists(r) /\ ~InState(r, {"committed"})
  BY <1>2, <1>3, <1>4
     DEF ClaimRun, TypeOK, Claimable, InState, ClaimableState, UnfinishedState
<1>11. /\ Owns(t, r)' /\ runs'[r].base = runs[r].base /\ runs'[r].config = runs[r].config
       /\ runs'[r].scope = runs[r].scope
  BY <1>3, <1>10, ClaimedRun, ClaimedFields, NoneAssumption DEF Owns, InState, Exists
<1>12. ConfigOK(t)'
  <2>1. CASE pc = "refreshing"
    <3>1. AcceptsConfig(runs[r].config, ScopeOf[t])'
      BY <1>5, <1>7, <1>11, <2>1 DEF AcceptsConfig, corpusVars
    <3>2. QED
      BY <1>6, <2>1, <3>1 DEF ConfigOK, At, Run
  <2>2. CASE pc = "failing"
    <3>1. runs[r].scope \subseteq Project
      BY <1>3 DEF IndexRun
    <3>2. PICK s \in RunId : InState(s, {"committed"}) /\ Disagree(runs[r], runs[s])
      BY <1>2, <1>3, <1>5, <2>2, <3>1, RefusedConfig
    <3>3. runs'[s] = runs[s]
      BY <1>10, <3>2
    <3>4. InState(s, {"committed"})' /\ Disagree(runs'[r], runs'[s])
      BY <1>11, <3>2, <3>3 DEF Disagree, InState, Exists
    <3>5. QED
      BY <1>6, <1>11, <2>2, <3>4 DEF ConfigOK, At, Run
  <2>3. QED
    BY <2>1, <2>2
<1>13. QED
  BY <1>1, <1>6, <1>9, <1>12 DEF Knows, Run

\* A call the journal refuses finds the run lost.
LEMMA RefusedOwnsNot ==
    ASSUME RunnerFacts, NEW t \in Token, CallRefused(t), Owns(t, Run(t))
    PROVE  FALSE
<1>1. PICK w : w = worker[t]
  OBVIOUS
<1>2. PICK rows : rows = staged[Run(t)]
  OBVIOUS
<1>3. Active(t)
  BY DEF CallRefused, Active
<1>4. Has(t)
  BY <1>3, OwnsHas
<1>5. PassOK(w, rows)
  BY <1>1, <1>2, <1>4, HasOwner
<1>6. CASE w.pc = "settled" /\ Pending(Run(t)) = {} /\ ~AllReady(rows)
  <2>1. PICK p \in Project, d \in Doc : rows[p][d] # None /\ rows[p][d].state # "ready"
    BY <1>6 DEF AllReady
  <2>2. rows[p][d].state = "pending"
    BY <1>5, <1>6, <2>1 DEF PassOK
  <2>3. <<p, d>> \in Pending(Run(t))
    BY <1>2, <2>1, <2>2 DEF Pending, HasState
  <2>4. QED
    BY <1>6, <2>3
<1>7. CASE w.pc = "processing" /\ \E pd \in w.todo : ~HasState(rows[pd[1]][pd[2]], "pending")
  BY <1>5, <1>7 DEF PassOK
<1>8. CASE /\ w.pc \in {"reading", "preparing"}
           /\ ~HasState(rows[w.doc[1]][w.doc[2]], "processing")
  BY <1>5, <1>8 DEF PassOK
<1>9. QED
  BY <1>1, <1>2, <1>6, <1>7, <1>8 DEF CallRefused, Run

LEMMA RefusedKnows ==
    ASSUME RunnerFacts, NEW t \in Token, Refused(t) \/ Interrupted(t), Has(t)'
    PROVE  Knows(t)'
<1>1. PICK pc \in {"failing", "pausing"} :
        /\ pc = (IF Refused(t) THEN "failing" ELSE "pausing")
        /\ worker'[t] = [worker[t] EXCEPT !.pc = pc]
  BY RefusedTakes DEF RunnerFacts
<1>2. /\ JournalBy(t) /\ Active(t) /\ UNCHANGED <<vars, source, seen>>
      /\ worker[t] \in Worker
  BY RefusedTakes, ActiveAt DEF RunnerFacts
<1>3. worker'[t].pc = pc /\ worker'[t].run = Run(t)
  BY <1>1, <1>2 DEF Worker, Run
<1>4. Has(t) /\ UNCHANGED corpusVars /\ runs' = runs
  BY <1>2, <1>3, HadBefore DEF vars, corpusVars
<1>5. ~At(t, "failing")
  BY DEF Refused, Interrupted, CallRefused, At
<1>6. pc = "failing" => ~Owns(t, Run(t))'
  <2>1. SUFFICES ASSUME pc = "failing", Owns(t, Run(t))'
                 PROVE  FALSE
    OBVIOUS
  <2>2. Refused(t)
    BY <1>1, <2>1
  <2>3. Owns(t, Run(t))
    BY <1>3, <1>4, <2>1 DEF Owns, InState, Exists, Run
  <2>4. QED
    BY <2>2, <2>3, RefusedOwnsNot DEF Refused
<1>7. OwnerOK(t, worker'[t], seen'[t], Basis(Run(t)), staged'[Run(t)], digest'[Run(t)])
  BY <1>3, PassBroken, NothingSettled
<1>8. QED
  BY <1>2, <1>3, <1>4, <1>5, <1>6, <1>7, KnowsAfter

LEMMA RefreshKnows ==
    ASSUME RunnerFacts, NEW t \in Token, Refresh(t)
    PROVE  Knows(t)'
<1>1. /\ At(t, "refreshing") /\ Active(t) /\ Owns(t, Run(t)) /\ JournalBy(t)
      /\ UNCHANGED <<staged, digest, corpusVars>>
  BY RefreshTakes DEF Refresh, At, Active, Heartbeat, RunnerFacts
<1>2. Has(t)
  BY <1>1, OwnsHas
<1>3. PICK w, r : w = worker[t] /\ r = Run(t)
  OBVIOUS
<1>4. PICK rows : rows = staged[r]
  OBVIOUS
<1>5. /\ w \in Worker /\ w.pc = "refreshing" /\ MemoryOK(w) /\ PassOK(w, rows) /\ r \in RunId
  BY <1>1, <1>2, <1>3, <1>4, HasOwner DEF WorksOnRun, At
<1>6. rows \in StagedDocuments /\ w.unread = {} /\ ScopeOf[t] \in SUBSET Project
  BY <1>3, <1>4, <1>5, <1>2, HasOwner, ScopeType DEF TypeOK, MemoryOK
<1>7. PICK w2 : w2 = [w EXCEPT !.pc = "observing", !.prior = rows,
                               !.unlisted = ScopeOf[t], !.unreconciled = ScopeOf[t],
                               !.changed = FALSE]
  OBVIOUS
<1>8. worker'[t] = w2
  BY <1>3, <1>4, <1>7 DEF Refresh, Becomes, RunnerFacts, RunnerBase, RunnerTypeOK
<1>9. /\ w2.pc = "observing" /\ w2.prior = rows /\ w2.unlisted = ScopeOf[t]
      /\ w2.unreconciled = ScopeOf[t] /\ w2.unread = {} /\ w2.run = w.run
  BY <1>5, <1>6, <1>7 DEF Worker
<1>10. RefreshOK(t, w2, seen'[t], Basis(r), rows)
  BY <1>9 DEF RefreshOK, Reading
<1>11. DoneOK(t, w2, seen'[t], Basis(r), rows, digest[r])
  BY <1>9 DEF DoneOK, Settled
<1>12. PassOK(w2, rows)
  BY <1>5, <1>9, PassQuiet
<1>13. OwnerOK(t, worker'[t], seen'[t], Basis(Run(t)), staged'[Run(t)], digest'[Run(t)])
  BY <1>1, <1>3, <1>4, <1>8, <1>10, <1>11, <1>12 DEF OwnerOK
<1>14. worker'[t].run = Run(t) /\ worker'[t].pc = "observing" /\ ~At(t, "failing")
  BY <1>1, <1>3, <1>8, <1>9 DEF Run, At
<1>15. QED
  BY <1>1, <1>2, <1>13, <1>14, KnowsAfter

\* What a listing says of the documents that are not in the source.
LEMMA DeletionsTold ==
    ASSUME DataInv, NEW t \in Token, NEW p \in Project, NEW d \in Doc, d \notin ListedDocs(p),
           NEW S, source \in S, NEW B, B \subseteq {live}, NEW rows
    PROVE  /\ Told(t, S, B, p, d, Deletions(p)[d])
           /\ Entry(B, p, d, Deletions(p)[d])
           /\ Vouched(t, S, B, p, d, Deletions(p)[d], rows)
<1>1. source[p][d] = None
  BY DEF ListedDocs
<1>2. Missing(S, p, d)
  BY <1>1 DEF Missing
<1>3. CASE live[p][d] = None
  <2>1. Deletions(p)[d] = None
    BY <1>3 DEF Deletions
  <2>2. QED
    BY <1>2, <1>3, <2>1 DEF Told, Entry, Vouched
<1>4. CASE live[p][d] # None
  <2>1. PICK x : x = Deletions(p)[d]
    OBVIOUS
  <2>2. x = DeletionRow(d, live[p][d])
    BY <1>1, <1>4, <2>1 DEF Deletions
  <2>3. x.action = "delete" /\ x.obs.path = d
    BY <2>2 DEF DeletionRow
  <2>4. x # None
    <3>1. live[p][d] \in Observation
      BY <1>4, FilesAtObservation DEF DataInv
    <3>2. [path |-> d, hash |-> NoHash, rev |-> live[p][d].rev] \in Observation
      BY <3>1, RunnerAssumption DEF Observation
    <3>3. x \in ManifestDocument
      BY <2>2, <3>2 DEF DeletionRow, ManifestDocument, DocumentAction
    <3>4. QED
      BY <3>3, NoneAssumption
  <2>5. QED
    BY <1>2, <2>1, <2>3, <2>4 DEF Told, Entry, Vouched
<1>5. QED
  BY <1>3, <1>4

LEMMA ListKnows ==
    ASSUME RunnerFacts, NEW t \in Token, NEW p \in Project, List(t, p), Has(t)'
    PROVE  Knows(t)'
<1>1. /\ At(t, "observing") /\ Active(t) /\ JournalBy(t) /\ worker[t] \in Worker
      /\ UNCHANGED <<vars, source, seen>>
      /\ p \in worker[t].unlisted /\ worker[t].unread = {}
  BY ListTakes, ActiveAt DEF List, At, Active, RunnerFacts
<1>2. runs' = runs /\ UNCHANGED <<staged, digest, corpusVars>> /\ ~At(t, "failing")
  BY <1>1 DEF vars, corpusVars, At
<1>3. PICK w, w2, r, S, B, rows :
        /\ w = worker[t] /\ w2 = worker'[t] /\ r = Run(t) /\ S = seen[t]
        /\ B = Basis(Run(t)) /\ rows = staged[Run(t)]
  OBVIOUS
<1>4. CASE w2 = [w EXCEPT !.pc = "pausing"]
  <2>1. w2.pc = "pausing" /\ w2.run = Run(t)
    BY <1>1, <1>3, <1>4 DEF Worker, Run
  <2>2. Has(t)
    BY <1>1, <1>2, <1>3, <2>1, HadBefore
  <2>3. OwnerOK(t, worker'[t], seen'[t], Basis(Run(t)), staged'[Run(t)], digest'[Run(t)])
    BY <1>3, <2>1, PassBroken, NothingSettled
  <2>4. QED
    BY <1>1, <1>2, <1>3, <2>1, <2>2, <2>3, KnowsAfter
<1>5. CASE HasListed(w2, w, p, ListedRevs(p), live[p], ListedDocs(p), Deletions(p))
  <2>1. PICK listed, unread, manifest :
          listed = ListedRevs(p) /\ unread = ListedDocs(p) /\ manifest = Deletions(p)
    OBVIOUS
  <2>2. /\ w2.pc = "observing" /\ w2.run = Run(t) /\ w2.unlisted = w.unlisted \ {p}
        /\ w2.project = p /\ w2.listed = listed /\ w2.files = live[p]
        /\ w2.unread = unread /\ w2.unreconciled = w.unreconciled
        /\ w2.prior = w.prior
        /\ w2.manifest[p] = manifest
        /\ \A q \in Project \ {p} : w2.manifest[q] = w.manifest[q]
    BY <1>1, <1>3, <1>5, <2>1 DEF HasListed, At, Run
  <2>3. Has(t)
    BY <1>1, <1>2, <1>3, <2>2, HadBefore
  <2>4. OwnerOK(t, w, S, B, rows, digest[r]) /\ PassOK(w, rows)
    BY <1>3, <2>3, HasOwner
  <2>5. RefreshOK(t, w, S, B, rows)
    BY <1>1, <1>3, <2>4 DEF OwnerOK, At
  <2>6. source \in S /\ B \subseteq {live} /\ DataInv /\ ScopeOf[t] \subseteq Project
    BY <1>1, <1>3, ScopeType
       DEF RunnerFacts, RunnerBase, RunnerTypeOK, WorksOnRun, Basis
  <2>7. p \in ScopeOf[t] /\ w.unreconciled = ScopeOf[t] /\ w.unread = {}
    BY <1>1, <1>3, <2>5 DEF RefreshOK
  <2>8. Reading(t, w2, S, B)
    <3>1. \A d \in Doc : live[p][d] \in FilesAt(d) \cup {None}
      BY <2>6 DEF DataInv
    <3>2. \A d \in unread : source[p][d] # None /\ source[p][d].rev = listed[d]
      BY <2>1 DEF ListedDocs, ListedRevs
    <3>3. QED
      BY <2>2, <2>6, <2>7, <3>1, <3>2 DEF Reading
  <2>9. ASSUME NEW q \in ScopeOf[t] \ w2.unlisted, NEW d \in Doc \ Unread(w2, q)
        PROVE  /\ Told(t, S, B, q, d, w2.manifest[q][d])
               /\ Entry(B, q, d, w2.manifest[q][d])
               /\ Vouched(t, S, B, q, d, w2.manifest[q][d], rows[q][d])
    <3>1. CASE q = p
      <4>1. d \notin ListedDocs(p)
        BY <2>1, <2>2, <2>9, <3>1 DEF Unread
      <4>2. QED
        BY <2>1, <2>2, <2>6, <3>1, <4>1, DeletionsTold
    <3>2. CASE q # p
      <4>1. q \in ScopeOf[t] \ w.unlisted /\ Unread(w, q) = {} /\ q \in w.unreconciled
        BY <2>2, <2>7, <2>9, <3>2 DEF Unread
      <4>2. w2.manifest[q] = w.manifest[q]
        BY <2>2, <2>6, <3>2
      <4>3. QED
        BY <2>5, <4>1, <4>2 DEF RefreshOK
    <3>3. QED
      BY <3>1, <3>2
  <2>10. RefreshOK(t, w2, S, B, rows)
    BY <2>2, <2>5, <2>7, <2>8, <2>9 DEF RefreshOK
  <2>11. DoneOK(t, w2, S, B, rows, digest[r])
    BY <2>2, <2>7 DEF DoneOK, Settled
  <2>12. PassOK(w2, rows)
    BY <1>1, <1>3, <2>2, <2>4, PassQuiet DEF At
  <2>13. OwnerOK(t, worker'[t], seen'[t], Basis(Run(t)), staged'[Run(t)], digest'[Run(t)])
    BY <1>1, <1>2, <1>3, <2>10, <2>11, <2>12 DEF OwnerOK
  <2>14. worker'[t].run = Run(t) /\ worker'[t].pc # "failing"
    BY <1>3, <2>2
  <2>15. QED
    BY <1>1, <1>2, <2>3, <2>13, <2>14, KnowsAfter
<1>6. QED
  BY <1>3, <1>4, <1>5, ListTakes DEF RunnerFacts

\* What a refresh finds of a document is what the source, a trusted revision or
\* a failed read says of it.
LEMMA FoundTold ==
    ASSUME RunnerFacts, NEW t \in Token, NEW w \in Worker, NEW S, NEW B,
           Reading(t, w, S, B), NEW d \in w.unread, d \in Doc, NEW p \in Project, p = w.project,
           source \in S, NEW row, row = w.prior[p][d], Authentic(d, row),
           row # None => WellFormedRow(row),
           NEW hash, MayFind(t, w, d, hash), NEW obs \in Observation,
           obs = [path |-> d, hash |-> hash, rev |-> w.listed[d]],
           NEW x, x = [obs |-> obs, action |-> ActionFor(w.files[d], obs)]
    PROVE  /\ Told(t, S, B, p, d, x)
           /\ Entry(B, p, d, x)
           /\ Vouched(t, S, B, p, d, x, row)
<1>1. PICK file, rev : file = w.files[d] /\ rev = w.listed[d]
  OBVIOUS
<1>0. x # None
  <2>1. ActionFor(w.files[d], obs) \in DocumentAction
    BY DEF ActionFor, DocumentAction
  <2>2. x \in ManifestDocument
    BY <2>1 DEF ManifestDocument
  <2>3. QED
    BY <2>2, NoneAssumption
<1>2. /\ obs.path = d /\ obs.hash = hash /\ obs.rev = rev /\ x.obs = obs
      /\ x.action = ActionFor(file, obs) /\ x.action # "delete"
  BY <1>1 DEF ActionFor
<1>3. /\ file \in FilesAt(d) \cup {None}
      /\ \A files \in B : files[p][d] = file
      /\ \E s \in S : s[p][d] # None /\ s[p][d].rev = rev
  BY <1>1 DEF Reading
<1>4. PICK s \in S : s[p][d] # None /\ s[p][d].rev = rev
  BY <1>3
<1>5. SameRevision(s[p][d], obs)
  BY <1>2, <1>4, NoneAssumption DEF SameRevision
<1>6. SUFFICES /\ Witnessed(t, S, p, d, obs)
               /\ obs.hash # ReadError => obs \in FilesAt(d)
               /\ Vouched(t, S, B, p, d, x, row)
  <2>1. ASSUME Witnessed(t, S, p, d, obs)
        PROVE  Told(t, S, B, p, d, x)
    BY <1>0, <1>2, <2>1 DEF Told
  <2>2. ASSUME obs.hash # ReadError => obs \in FilesAt(d)
        PROVE  Entry(B, p, d, x)
    BY <1>2, <1>3, <2>2 DEF Entry
  <2>3. QED
    BY <1>1, <2>1, <2>2
<1>7. CASE obs.hash = ReadError
  BY <1>2, <1>7 DEF Witnessed, Vouched
<1>8. CASE /\ t \in Trusting /\ file # None /\ file.rev = rev /\ hash = file.hash
  <2>1. file \in FilesAt(d) /\ file \in Observation /\ file.path = d
    BY <1>3, <1>8, FilesAtObservation
  <2>2. obs = file
    BY <1>1, <1>8, <2>1 DEF Observation
  <2>3. QED
    BY <1>2, <1>3, <1>4, <1>5, <1>8, <2>1, <2>2 DEF Witnessed, Vouched
<1>9. CASE /\ obs.hash # ReadError
           /\ t \in Trusting /\ row # None /\ row.action # "delete" /\ row.obs.rev = rev
           /\ hash = row.obs.hash
  <2>1. Authentic(d, row) /\ WellFormedRow(row)
    BY <1>1, <1>9
  <2>2. row.obs \in FilesAt(d)
    BY <1>2, <1>9, <2>1 DEF Authentic
  <2>3. row.obs \in Observation /\ row.obs.path = d
    BY <2>2, FilesAtObservation
  <2>4. obs = row.obs
    BY <1>1, <1>9, <2>3 DEF Observation
  <2>5. QED
    BY <1>2, <1>4, <1>5, <1>9, <2>2, <2>4 DEF Witnessed, Vouched
<1>10. CASE IsStable(source[p][d], rev) /\ hash = source[p][d].hash
  <2>1. source[p][d] \in FilesAt(d)
    BY <1>1, <1>10 DEF IsStable, RunnerFacts, DataInv
  <2>2. source[p][d] \in Observation /\ source[p][d].path = d
    BY <2>1, FilesAtObservation
  <2>3. obs = source[p][d]
    BY <1>1, <1>10, <2>2 DEF Observation, IsStable
  <2>4. QED
    BY <1>2, <2>1, <2>3 DEF Witnessed, Vouched
<1>11. QED
  <2>1. \/ hash \in TrustedHash(t, w, d)
        \/ hash = ReadError
        \/ IsStable(source[p][d], rev) /\ hash = source[p][d].hash
    BY <1>1 DEF MayFind
  <2>2. CASE hash \in TrustedHash(t, w, d)
    BY <1>1, <1>2, <1>7, <1>8, <1>9, <2>2 DEF TrustedHash
  <2>3. QED
    BY <1>2, <1>7, <1>10, <2>1, <2>2

LEMMA ObserveKnows ==
    ASSUME RunnerFacts, NEW t \in Token, NEW d \in Doc, Observe(t, d), Has(t)'
    PROVE  Knows(t)'
<1>1. /\ At(t, "observing") /\ Active(t) /\ JournalBy(t) /\ worker[t] \in Worker
      /\ UNCHANGED <<vars, source, seen>> /\ d \in worker[t].unread
  BY ObserveTakes, ActiveAt DEF Observe, At, Active, RunnerFacts
<1>2. runs' = runs /\ UNCHANGED <<staged, digest, corpusVars>> /\ ~At(t, "failing")
  BY <1>1 DEF vars, corpusVars, At
<1>3. PICK w, w2, r, S, B, rows :
        /\ w = worker[t] /\ w2 = worker'[t] /\ r = Run(t) /\ S = seen[t]
        /\ B = Basis(Run(t)) /\ rows = staged[Run(t)]
  OBVIOUS
<1>4. CASE w2 = NextRound(w, w.pass)
  <2>1. w2.pc = "refreshing" /\ w2.run = Run(t)
    BY <1>1, <1>3, <1>4, SameRoundType DEF Run
  <2>2. Has(t)
    BY <1>1, <1>2, <1>3, <2>1, HadBefore
  <2>3. PassOK(w, rows)
    BY <1>3, <2>2, HasOwner
  <2>4. PassOK(w2, rows)
    BY <1>1, <1>3, <2>1, <2>3, PassQuiet DEF At
  <2>5. OwnerOK(t, worker'[t], seen'[t], Basis(Run(t)), staged'[Run(t)], digest'[Run(t)])
    BY <1>2, <1>3, <2>1, <2>4, NothingSettled
  <2>6. QED
    BY <1>1, <1>2, <1>3, <2>1, <2>2, <2>5, KnowsAfter
<1>5. ASSUME NEW hash \in Hash, NEW obs, MayFind(t, w, d, hash),
             obs = [path |-> d, hash |-> hash, rev |-> w.listed[d]],
             HasObserved(w2, w, d, obs)
      PROVE  Knows(t)'
  <2>1. PICK x : x = [obs |-> obs, action |-> ActionFor(w.files[d], obs)]
    OBVIOUS
  <2>2. /\ w2.pc = "observing" /\ w2.run = Run(t) /\ w2.unlisted = w.unlisted
        /\ w2.project = w.project /\ w2.listed = w.listed /\ w2.files = w.files
        /\ w2.unread = w.unread \ {d} /\ w2.unreconciled = w.unreconciled
        /\ w2.prior = w.prior
        /\ obs \in Observation
        /\ w2.manifest[w.project][d] = x
        /\ \A q \in Project, e \in Doc :
             q # w.project \/ e # d => w2.manifest[q][e] = w.manifest[q][e]
    BY <1>1, <1>3, <1>5, <2>1 DEF HasObserved, At, Run
  <2>3. Has(t)
    BY <1>1, <1>2, <1>3, <2>2, HadBefore
  <2>4. OwnerOK(t, w, S, B, rows, digest[r]) /\ PassOK(w, rows) /\ r \in RunId
    BY <1>3, <2>3, HasOwner
  <2>5. RefreshOK(t, w, S, B, rows)
    BY <1>1, <1>3, <2>4 DEF OwnerOK, At
  <2>6. source \in S /\ DataInv /\ ScopeOf[t] \subseteq Project /\ RowsSatisfySchema
    BY <1>1, <1>3, ScopeType
       DEF RunnerFacts, RunnerBase, RunnerTypeOK, WorksOnRun, SchemaInv
  <2>7. PICK p : p = w.project
    OBVIOUS
  <2>8. /\ p \in ScopeOf[t] \ w.unlisted /\ w.unreconciled = ScopeOf[t] /\ p \in Project
        /\ d \in w.unread /\ rows[p] = w.prior[p] /\ Reading(t, w, S, B)
    BY <1>1, <1>3, <2>5, <2>6, <2>7 DEF RefreshOK, Reading
  <2>9. PICK row : row = rows[p][d]
    OBVIOUS
  <2>10. /\ Told(t, S, B, p, d, x) /\ Entry(B, p, d, x)
         /\ Vouched(t, S, B, p, d, x, row)
    <3>1. Authentic(d, row) /\ (row # None => WellFormedRow(row))
      BY <1>3, <2>4, <2>6, <2>8, <2>9 DEF DataInv, RowsSatisfySchema
    <3>2. w \in Worker /\ row = w.prior[p][d]
      BY <1>1, <1>3, <2>8, <2>9
    <3>3. QED
      BY <1>5, <2>1, <2>2, <2>6, <2>7, <2>8, <3>1, <3>2, FoundTold
  <2>11. Reading(t, w2, S, B)
    BY <2>2, <2>8 DEF Reading
  <2>12. ASSUME NEW q \in ScopeOf[t] \ w2.unlisted, NEW e \in Doc \ Unread(w2, q)
         PROVE  /\ Told(t, S, B, q, e, w2.manifest[q][e])
                /\ Entry(B, q, e, w2.manifest[q][e])
                /\ Vouched(t, S, B, q, e, w2.manifest[q][e], rows[q][e])
    <3>1. CASE q = p /\ e = d
      BY <2>2, <2>7, <2>9, <2>10, <3>1
    <3>2. CASE ~(q = p /\ e = d)
      <4>1. q \in ScopeOf[t] \ w.unlisted /\ q \in w.unreconciled /\ e \in Doc
        BY <2>2, <2>8, <2>12
      <4>2. e \in Doc \ Unread(w, q)
        BY <2>2, <2>7, <2>12, <3>2 DEF Unread
      <4>3. w2.manifest[q][e] = w.manifest[q][e]
        BY <2>2, <2>6, <2>7, <3>2, <4>1
      <4>4. QED
        BY <2>5, <4>1, <4>2, <4>3 DEF RefreshOK
    <3>3. QED
      BY <3>1, <3>2
  <2>13. RefreshOK(t, w2, S, B, rows)
    BY <2>2, <2>5, <2>8, <2>11, <2>12 DEF RefreshOK
  <2>14. DoneOK(t, w2, S, B, rows, digest[r])
    BY <2>2, <2>8 DEF DoneOK, Settled
  <2>15. PassOK(w2, rows)
    BY <1>1, <1>3, <2>2, <2>4, PassQuiet DEF At
  <2>16. OwnerOK(t, worker'[t], seen'[t], Basis(Run(t)), staged'[Run(t)], digest'[Run(t)])
    BY <1>1, <1>2, <1>3, <2>13, <2>14, <2>15 DEF OwnerOK
  <2>17. worker'[t].run = Run(t) /\ worker'[t].pc # "failing"
    BY <1>3, <2>2
  <2>18. QED
    BY <1>1, <1>2, <2>3, <2>16, <2>17, KnowsAfter
<1>6. QED
  BY <1>3, <1>4, <1>5, ObserveTakes DEF RunnerFacts

\* A row that was reconciled with an entry says what the entry says.
LEMMA ToldReconciled ==
    ASSUME NEW t, NEW S, NEW B, NEW p, NEW d \in Doc,
           NEW row \in StagedDocument \cup {None}, NEW x \in ManifestDocument \cup {None},
           Authentic(d, row), row # None => WellFormedRow(row),
           row # None => row.state \in {"pending", "ready"},
           Told(t, S, B, p, d, x)
    PROVE  /\ Told(t, S, B, p, d, ReconciledRow(row, x))
           /\ \/ ReconciledRow(row, x) = None
              \/ ReconciledRow(row, x).state \in {"pending", "ready"}
<1>1. CASE ReconciledRow(row, x) = row /\ x # None /\ Keeps(row, x)
  <2>1. row # None /\ row.action = x.action /\ Fingerprint(row) = x.obs
    BY <1>1 DEF Keeps
  <2>2. row.obs = x.obs
    BY <2>1 DEF Fingerprint, Authentic
  <2>3. QED
    BY <1>1, <2>1, <2>2 DEF Told
<1>2. CASE ReconciledRow(row, x) = Restaged(x) /\ x # None
  <2>1. PICK y : y = Restaged(x)
    OBVIOUS
  <2>2. y.obs = x.obs /\ y.action = x.action /\ y.state \in {"pending", "ready"}
    BY <2>1, RestagedFields
  <2>3. y # None
    <3>1. y \in StagedDocument
      BY <1>2, <2>1, RestagedRow
    <3>2. QED
      BY <3>1, NoneAssumption
  <2>4. QED
    BY <1>2, <2>1, <2>2, <2>3 DEF Told
<1>3. CASE ReconciledRow(row, x) = row /\ x = None /\ (row = None \/ row.action = "delete")
  BY <1>3 DEF Told
<1>4. CASE ReconciledRow(row, x) = StagedDeletion /\ x = None
  <2>1. StagedDeletion # None
    <3>1. StagedDeletion \in StagedDocument
      BY DEF StagedDeletion, StagedDocument, DocumentAction, DocumentState
    <3>2. QED
      BY <3>1, NoneAssumption
  <2>2. QED
    BY <1>4, <2>1, RestagedFields DEF Told
<1>5. QED
  BY <1>1, <1>2, <1>3, <1>4, RowReconciled

LEMMA ReconcileKnows ==
    ASSUME RunnerFacts, NEW t \in Token, NEW p \in Project, Reconcile(t, p)
    PROVE  Knows(t)'
<1>1. /\ At(t, "observing") /\ Active(t) /\ JournalBy(t) /\ worker[t] \in Worker
      /\ worker[t].manifest[p] \in Manifest /\ seen' = seen /\ ~At(t, "failing")
      /\ worker[t].unlisted \cup worker[t].unread = {}
      /\ p \in worker[t].unreconciled
      /\ ReconcileManifest(Run(t), t, p, worker[t].manifest[p])
  BY ReconcileTakes DEF Reconcile, At, Active, RunnerFacts, Run
<1>2. PICK w, w2, r, S, B, rows, rows2 :
        /\ w = worker[t] /\ w2 = worker'[t] /\ r = Run(t) /\ S = seen[t]
        /\ B = Basis(Run(t)) /\ rows = staged[Run(t)] /\ rows2 = staged'[Run(t)]
  OBVIOUS
<1>3. /\ Has(t) /\ r \in RunId /\ p \in ScopeOf[t]
      /\ \A d \in Doc : Told(t, S, B, p, d, w.manifest[p][d])
  BY <1>2, ManifestSays
<1>4. /\ OwnerOK(t, w, S, B, rows, digest[r]) /\ PassOK(w, rows) /\ TypeOK
      /\ \A q \in Project, d \in Doc : rows[q][d] \in StagedDocument \cup {None}
  BY <1>2, <1>3, HasOwner
<1>5. /\ \A d \in Doc : rows2[p][d] = ReconciledRow(rows[p][d], w.manifest[p][d])
      /\ \A q \in Project \ {p} : rows2[q] = rows[q] /\ digest'[r][q] = digest[r][q]
      /\ digest'[r][p] = ManifestDigest(w.manifest[p])
      /\ UNCHANGED corpusVars
  BY <1>1, <1>2, <1>3, <1>4, ReconcileRows
<1>6. ASSUME NEW d \in Doc
      PROVE  /\ Told(t, S, B, p, d, rows2[p][d])
             /\ rows2[p][d] = None \/ rows2[p][d].state \in {"pending", "ready"}
  <2>1. PICK row, x : row = rows[p][d] /\ x = w.manifest[p][d]
    OBVIOUS
  <2>2. /\ row \in StagedDocument \cup {None} /\ x \in ManifestDocument \cup {None}
        /\ Authentic(d, row) /\ (row # None => WellFormedRow(row))
    BY <1>1, <1>2, <1>3, <1>4, <2>1
       DEF Manifest, RunnerFacts, DataInv, RunnerBase, SchemaInv, RowsSatisfySchema
  <2>3. row # None => row.state \in {"pending", "ready"}
    BY <1>1, <1>2, <1>4, <2>1 DEF PassOK, At
  <2>4. QED
    BY <1>3, <1>5, <2>1, <2>2, <2>3, ToldReconciled
<1>7. digest'[r][p] # None
  <2>1. rows[p] \in [Doc -> StagedDocument \cup {None}] /\ p \in Project
    BY <1>2, <1>3, <1>4, ScopeType DEF TypeOK, StagedDocuments
  <2>2. ManifestDigest(w.manifest[p]) \in Digest
    BY <1>1, <1>2, <2>1, ReconciledRows
  <2>3. QED
    BY <1>5, <2>2, RunnerAssumption
<1>8. ASSUME w2.pc \notin {"processing", "reading", "preparing", "publishing", "committing"}
      PROVE  PassOK(w2, rows2)
  <2>1. \A q \in Project, d \in Doc :
           rows2[q][d] = None \/ rows2[q][d].state \in {"pending", "ready"}
    <3>1. \A q \in Project \ {p}, d \in Doc :
             rows[q][d] = None \/ rows[q][d].state \in {"pending", "ready"}
      BY <1>1, <1>2, <1>4 DEF PassOK, At
    <3>2. QED
      BY <1>5, <1>6, <3>1
  <2>2. QED
    BY <1>8, <2>1 DEF PassOK
<1>9. ASSUME NEW q \in ScopeOf[t] \ w.unreconciled
      PROVE  /\ digest'[r][q] # None
             /\ \A d \in Doc : Told(t, S, B, q, d, rows2[q][d])
  <2>1. q \in Project \ {p}
    BY <1>1, <1>2, <1>9, ScopeType
  <2>2. /\ digest[r][q] # None
        /\ \A d \in Doc : Told(t, S, B, q, d, rows[q][d])
    BY <1>1, <1>2, <1>4, <1>9 DEF OwnerOK, DoneOK, Settled, At
  <2>3. QED
    BY <1>5, <2>1, <2>2
<1>10. CASE /\ w.unreconciled = {p} /\ w2.pc \in {"counting", "settled"} /\ w2.run = Run(t)
  <2>1. DoneOK(t, w2, S, B, rows2, digest'[r])
    BY <1>6, <1>7, <1>9, <1>10 DEF DoneOK, Settled
  <2>2. OwnerOK(t, w2, S, B, rows2, digest'[r])
    BY <1>8, <1>10, <2>1 DEF OwnerOK
  <2>3. QED
    BY <1>1, <1>2, <1>3, <1>5, <1>10, <2>2, KnowsAfter
<1>11. ASSUME NEW changed \in BOOLEAN,
              w2 = [w EXCEPT !.unreconciled = @ \ {p}, !.changed = changed]
       PROVE  Knows(t)'
  <2>1. /\ w2.pc = "observing" /\ w2.run = Run(t) /\ w2.unlisted = {} /\ w2.unread = {}
        /\ w2.project = w.project
        /\ w2.prior = w.prior /\ w2.manifest = w.manifest
        /\ w2.unreconciled = w.unreconciled \ {p}
    BY <1>1, <1>2, <1>11 DEF Worker, At, Run
  <2>2. RefreshOK(t, w, S, B, rows) /\ w.unlisted = {} /\ w.unread = {}
    BY <1>1, <1>2, <1>4 DEF OwnerOK, At
  <2>3. w.unreconciled \subseteq ScopeOf[t] /\ ScopeOf[t] \subseteq Project
    BY <2>2, ScopeType DEF RefreshOK
  <2>4. ASSUME NEW q \in ScopeOf[t], NEW d \in Doc
        PROVE  /\ Told(t, S, B, q, d, w2.manifest[q][d])
               /\ Entry(B, q, d, w2.manifest[q][d])
               /\ q \in w2.unreconciled =>
                    Vouched(t, S, B, q, d, w2.manifest[q][d], rows2[q][d])
    <3>1. d \in Doc \ Unread(w, q)
      BY <2>2 DEF Unread
    <3>2. /\ Told(t, S, B, q, d, w.manifest[q][d])
          /\ Entry(B, q, d, w.manifest[q][d])
          /\ q \in w.unreconciled => Vouched(t, S, B, q, d, w.manifest[q][d], rows[q][d])
      BY <2>2, <3>1 DEF RefreshOK
    <3>3. q \in w2.unreconciled => rows2[q] = rows[q] /\ q \in w.unreconciled
      BY <1>5, <2>1, <2>3
    <3>4. QED
      BY <2>1, <3>2, <3>3
  <2>5. \A q \in w2.unreconciled : rows2[q] = w2.prior[q]
    BY <1>5, <2>1, <2>2, <2>3 DEF RefreshOK
  <2>6. RefreshOK(t, w2, S, B, rows2)
    BY <2>1, <2>3, <2>4, <2>5 DEF RefreshOK, Reading
  <2>7. DoneOK(t, w2, S, B, rows2, digest'[r])
    <3>1. \A q \in Settled(t, w2) : q = p \/ q \in ScopeOf[t] \ w.unreconciled
      BY <2>1 DEF Settled
    <3>2. QED
      BY <1>6, <1>7, <1>9, <3>1 DEF DoneOK
  <2>8. OwnerOK(t, w2, S, B, rows2, digest'[r])
    BY <1>8, <2>1, <2>6, <2>7 DEF OwnerOK
  <2>9. QED
    BY <1>1, <1>2, <1>3, <1>5, <2>1, <2>8, KnowsAfter
<1>12. RunnerBase
  BY DEF RunnerFacts
<1>13. \/ /\ worker[t].unreconciled = {p} /\ worker'[t].pc \in {"counting", "settled"}
          /\ worker'[t].run = Run(t)
       \/ \E changed \in BOOLEAN :
             worker'[t] = [worker[t] EXCEPT !.unreconciled = @ \ {p}, !.changed = changed]
  BY <1>12, ReconcileTakes
<1>14. CASE \E changed \in BOOLEAN :
               worker'[t] = [worker[t] EXCEPT !.unreconciled = @ \ {p}, !.changed = changed]
  <2>1. PICK changed \in BOOLEAN :
          worker'[t] = [worker[t] EXCEPT !.unreconciled = @ \ {p}, !.changed = changed]
    BY <1>14
  <2>2. w2 = [w EXCEPT !.unreconciled = @ \ {p}, !.changed = changed]
    BY <1>2, <2>1
  <2>3. QED
    BY <1>11, <2>2
<1>15. QED
  BY <1>2, <1>10, <1>13, <1>14

LEMMA CountRoundKnows ==
    ASSUME RunnerFacts, NEW t \in Token, CountRound(t)
    PROVE  Knows(t)'
<1>1. PICK pc \in {"pausing", "settled"} : worker'[t] = [worker[t] EXCEPT !.pc = pc]
  BY CountRoundTakes DEF RunnerFacts
<1>2. /\ At(t, "counting") /\ Active(t) /\ JournalBy(t) /\ Owns(t, Run(t)) /\ ~At(t, "failing")
      /\ UNCHANGED <<staged, digest, corpusVars, seen>> /\ worker[t] \in Worker
  BY CountRoundTakes, ActiveAt DEF CountRound, Heartbeat, At, Active, RunnerFacts
<1>3. Has(t)
  BY <1>2, OwnsHas
<1>4. PICK w, w2, rows : w = worker[t] /\ w2 = worker'[t] /\ rows = staged[Run(t)]
  OBVIOUS
<1>5. w2.pc = pc /\ w2.run = Run(t) /\ w.pc = "counting"
  BY <1>1, <1>2, <1>4 DEF Worker, Run, At
<1>6. /\ OwnerOK(t, w, seen[t], Basis(Run(t)), rows, digest[Run(t)])
      /\ PassOK(w, rows)
  BY <1>3, <1>4, HasOwner
<1>7. OwnerOK(t, w2, seen[t], Basis(Run(t)), rows, digest[Run(t)])
  <2>1. CASE pc = "pausing"
    BY <1>5, <2>1, PassBroken, NothingSettled
  <2>2. CASE pc = "settled"
    <3>1. PassOK(w2, rows)
      BY <1>5, <1>6, <2>2, PassQuiet
    <3>2. QED
      BY <1>5, <1>6, <2>2, <3>1, StaysSettled
  <2>3. QED
    BY <2>1, <2>2
<1>8. QED
  BY <1>2, <1>3, <1>4, <1>5, <1>7, KnowsAfter

LEMMA SettleKnows ==
    ASSUME RunnerFacts, NEW t \in Token, Settle(t)
    PROVE  Knows(t)'
<1>1. /\ At(t, "settled") /\ Active(t) /\ JournalBy(t) /\ Owns(t, Run(t)) /\ ~At(t, "failing")
      /\ seen' = seen /\ worker[t] \in Worker /\ RunnerBase
  BY SettleTakes, ActiveAt DEF Settle, At, Active, RunnerFacts, Run
<1>2. UNCHANGED <<staged, digest, corpusVars>>
  BY DEF Settle, Heartbeat, MarkRunReady, vars, corpusVars
<1>3. Has(t)
  BY <1>1, OwnsHas
<1>4. PICK w, w2, rows : w = worker[t] /\ w2 = worker'[t] /\ rows = staged[Run(t)]
  OBVIOUS
<1>5. /\ OwnerOK(t, w, seen[t], Basis(Run(t)), rows, digest[Run(t)])
      /\ PassOK(w, rows) /\ w.pc = "settled"
  BY <1>1, <1>3, <1>4, HasOwner DEF At
<1>6. CASE HasTodo(w2, w, Pending(Run(t)))
  <2>1. w2.pc = "processing" /\ w2.todo = Pending(Run(t)) /\ w2.run = Run(t)
    BY <1>4, <1>6 DEF HasTodo, SameMemory, Run
  <2>2. \A pd \in w2.todo : HasState(rows[pd[1]][pd[2]], "pending")
    BY <1>4, <2>1 DEF Pending
  <2>3. PassOK(w2, rows)
    BY <1>5, <2>1, <2>2 DEF PassOK
  <2>4. OwnerOK(t, w2, seen[t], Basis(Run(t)), rows, digest[Run(t)])
    BY <2>1, <2>3, NothingSettled
  <2>5. QED
    BY <1>1, <1>2, <1>3, <1>4, <2>1, <2>4, KnowsAfter
<1>7. CASE w2 = NextRound(w, TRUE)
  <2>1. TRUE \in BOOLEAN
    OBVIOUS
  <2>2. w2.pc = "refreshing" /\ w2.run = Run(t)
    BY <1>1, <1>4, <1>7, <2>1, NextRoundType DEF Run
  <2>3. PassOK(w2, rows)
    BY <1>5, <2>2, PassQuiet
  <2>4. OwnerOK(t, w2, seen[t], Basis(Run(t)), rows, digest[Run(t)])
    BY <2>2, <2>3, NothingSettled
  <2>5. QED
    BY <1>1, <1>2, <1>3, <1>4, <2>2, <2>4, KnowsAfter
<1>8. CASE w2 = [w EXCEPT !.pc = "publishing"] /\ MarkRunReady(Run(t), t)
  <2>1. w2.pc = "publishing" /\ w2.run = Run(t) /\ AllReady(rows)
    BY <1>1, <1>4, <1>8 DEF Worker, Run, MarkRunReady
  <2>2. PassOK(w2, rows)
    BY <1>5, <2>1 DEF PassOK
  <2>3. OwnerOK(t, w2, seen[t], Basis(Run(t)), rows, digest[Run(t)])
    BY <1>5, <2>1, <2>2, StaysSettled
  <2>4. QED
    BY <1>1, <1>2, <1>3, <1>4, <2>1, <2>3, KnowsAfter
<1>9. QED
  BY <1>1, <1>4, <1>6, <1>7, <1>8, SettleTakes

\* The rows after a call about the document at hand.
LEMMA PassMoves ==
    ASSUME NEW w, NEW w2, NEW rows, NEW rows2, PassOK(w, rows),
           NEW p \in Project, NEW d \in Doc,
           w.pc \in {"processing", "reading", "preparing"},
           w.pc # "processing" => w.doc = <<p, d>>,
           rows2[p][d] # None,
           \A q \in Project, e \in Doc : q # p \/ e # d => rows2[q][e] = rows[q][e],
           w2.pc # "refreshing" => w2.todo \subseteq w.todo, w.todo \subseteq Project \X Doc,
           \/ /\ w2.pc = "reading" /\ w2.doc = <<p, d>> /\ rows2[p][d].state = "processing"
              /\ <<p, d>> \notin w2.todo
           \/ w2.pc \in {"processing", "refreshing"} /\ rows2[p][d].state \in {"pending", "ready"},
           w2.pc = "processing" => w.pc # "processing"
    PROVE  PassOK(w2, rows2)
<1>1. \A q \in Project, e \in Doc :
         \/ q = p /\ e = d
         \/ rows[q][e] = None
         \/ rows[q][e].state \in {"pending", "ready"}
  BY DEF PassOK
<1>2. \A q \in Project, e \in Doc :
         \/ rows2[q][e] = None
         \/ rows2[q][e].state \in {"pending", "ready"}
         \/ w2.pc = "reading" /\ w2.doc = <<q, e>>
  BY <1>1
<1>3. ASSUME w2.pc \in {"processing", "reading"}, NEW pd \in w2.todo
      PROVE  HasState(rows2[pd[1]][pd[2]], "pending")
  <2>1. PICK q \in Project, e \in Doc : pd = <<q, e>>
    BY <1>3
  <2>2. HasState(rows[q][e], "pending")
    BY <1>3, <2>1 DEF PassOK
  <2>3. ~(q = p /\ e = d)
    <3>1. CASE w2.pc = "reading"
      BY <1>3, <2>1, <3>1
    <3>2. CASE w2.pc = "processing"
      <4>1. HasState(rows[p][d], "processing")
        BY <3>2 DEF PassOK
      <4>2. QED
        BY <2>2, <4>1 DEF HasState
    <3>3. QED
      BY <1>3, <3>1, <3>2
  <2>4. QED
    BY <2>1, <2>2, <2>3
<1>4. w2.pc = "reading" => w2.doc \in Project \X Doc /\ HasState(rows2[w2.doc[1]][w2.doc[2]], "processing")
  BY DEF HasState
<1>5. QED
  BY <1>2, <1>3, <1>4 DEF PassOK

\* One row changed, to one of these states.
Moves(rows, rows2, p, d, states) ==
    /\ rows2[p][d] # None /\ rows2[p][d].state \in states
    /\ \A q \in Project, e \in Doc : q # p \/ e # d => rows2[q][e] = rows[q][e]

LEMMA PassGoesOn ==
    ASSUME NEW w \in Worker, NEW w2, NEW rows, NEW rows2, PassOK(w, rows),
           NEW p \in Project, NEW d \in Doc,
           w.pc = "reading" \/ w.pc = "preparing", w.doc = <<p, d>>,
           Moves(rows, rows2, p, d, {"pending", "ready"}),
           w2.pc = "refreshing" \/ (w2.pc = "processing" /\ w2.todo = w.todo)
    PROVE  PassOK(w2, rows2)
<1>1. w.todo \subseteq Project \X Doc
  BY DEF Worker
<1>2. /\ rows2[p][d] # None /\ rows2[p][d].state \in {"pending", "ready"}
      /\ \A q \in Project, e \in Doc : q # p \/ e # d => rows2[q][e] = rows[q][e]
  BY DEF Moves
<1>3. QED
  BY <1>1, <1>2, PassMoves

LEMMA DocumentKnows ==
    ASSUME RunnerFacts, NEW t \in Token, NEW p \in Project, NEW d \in Doc,
           Begin(t, p, d) \/ Read(t, p, d) \/ Prepare(t, p, d)
    PROVE  Knows(t)'
<1>1. PICK w, w2, r : w = worker[t] /\ w2 = worker'[t] /\ r = Run(t)
  OBVIOUS
<1>2. PICK rows, rows2 : rows = staged[r] /\ rows2 = staged'[r]
  OBVIOUS
<1>3. RunnerBase
  BY DEF RunnerFacts
<1>4. /\ Active(t) /\ JournalBy(t) /\ Owns(t, r) /\ ~At(t, "failing")
      /\ seen' = seen /\ w.pc \in {"processing", "reading", "preparing"}
      /\ w.pc # "processing" => w.doc = <<p, d>>
      /\ UNCHANGED <<digest, corpusVars>>
  <2>1. CASE Begin(t, p, d)
    BY <1>1, <1>3, <2>1, BeginTakes DEF Begin, BeginDocument, Checkpoint, At, Active
  <2>2. CASE Read(t, p, d)
    BY <1>1, <1>3, <2>2, ReadTakes
       DEF Read, ResetDocumentPending, CheckpointDocumentError, Checkpoint, At, Active, Run,
           vars, corpusVars
  <2>3. CASE Prepare(t, p, d)
    BY <1>1, <1>3, <2>3, PrepareTakes
       DEF Prepare, CheckpointDocument, CheckpointDocumentError, Checkpoint, At, Active, Run
  <2>4. QED
    BY <2>1, <2>2, <2>3
<1>5. Has(t)
  BY <1>1, <1>4, OwnsHas
<1>6. /\ r \in RunId /\ TypeOK /\ w \in Worker /\ PassOK(w, rows)
      /\ \A q \in Project, e \in Doc : rows[q][e] \in StagedDocument \cup {None}
  BY <1>1, <1>2, <1>5, HasOwner
<1>7. w.todo \subseteq Project \X Doc
  BY <1>6 DEF Worker
\* Every outcome is settled by the rows alone.
<1>8. ASSUME w2.run = r, PassOK(w2, rows2),
             w2.pc \in {"processing", "reading", "preparing", "refreshing", "pausing"}
      PROVE  Knows(t)'
  <2>1. OwnerOK(t, w2, seen[t], Basis(r), rows2, digest[r])
    BY <1>8, NothingSettled
  <2>2. OwnerOK(t, worker'[t], seen'[t], Basis(Run(t)), staged'[Run(t)], digest'[Run(t)])
    BY <1>1, <1>2, <1>4, <2>1
  <2>3. QED
    BY <1>1, <1>4, <1>5, <1>8, <2>2, KnowsAfter
<1>9. CASE w2 = [w EXCEPT !.pc = "pausing"]
  <2>1. w2.pc = "pausing" /\ w2.run = r
    BY <1>1, <1>6, <1>9 DEF Worker, Run
  <2>2. QED
    BY <1>8, <2>1, PassBroken
<1>10. ASSUME NEW from, NEW state \in DocumentState,
              Checkpoint(r, t, p, d, from, [staged[r][p][d] EXCEPT !.state = state])
       PROVE  /\ rows2[p][d] # None /\ rows2[p][d].state = state
              /\ \A q \in Project, e \in Doc : q # p \/ e # d => rows2[q][e] = rows[q][e]
  <2>1. PICK row : row = [staged[r][p][d] EXCEPT !.state = state]
    OBVIOUS
  <2>2. /\ staged[r][p][d] \in StagedDocument /\ rows2[p][d] = row
        /\ \A q \in Project, e \in Doc : q # p \/ e # d => rows2[q][e] = rows[q][e]
    BY <1>2, <1>6, <1>10, <2>1, CheckpointRows
  <2>3. row \in StagedDocument /\ row.state = state
    BY <2>1, <2>2, StateChange
  <2>4. QED
    BY <2>2, <2>3, NoneAssumption
<1>11. CASE Begin(t, p, d)
  <2>1. HasDoc(w2, w, p, d) /\ w.pc = "processing"
    BY <1>1, <1>3, <1>11, BeginTakes DEF Begin, At
  <2>2. "processing" \in DocumentState
    BY DEF DocumentState
  <2>3. /\ rows2[p][d] # None /\ rows2[p][d].state = "processing"
        /\ \A q \in Project, e \in Doc : q # p \/ e # d => rows2[q][e] = rows[q][e]
    BY <1>1, <1>10, <1>11, <2>2 DEF Begin, BeginDocument
  <2>4. /\ w2.pc = "reading" /\ w2.doc = <<p, d>> /\ w2.todo \subseteq w.todo
        /\ <<p, d>> \notin w2.todo /\ w2.run = r
    BY <1>1, <2>1 DEF HasDoc, SameMemory, Run
  <2>5. PassOK(w2, rows2)
    BY <1>6, <1>7, <2>1, <2>3, <2>4, PassMoves
  <2>6. QED
    BY <1>8, <2>4, <2>5
<1>12. CASE Read(t, p, d)
  <2>1. w.pc = "reading" /\ w.doc = <<p, d>>
    BY <1>1, <1>12 DEF Read, At
  <2>2. CASE /\ w2 = [w EXCEPT !.pc = "preparing"] /\ UNCHANGED vars
             /\ source[p][d] = rows[p][d].obs
    <3>1. w2.pc = "preparing" /\ w2.run = r /\ w2.todo = w.todo /\ w2.doc = w.doc
      BY <1>1, <1>6, <2>2 DEF Worker, Run
    <3>2. rows2 = rows
      BY <1>2, <2>2 DEF vars
    <3>3. HasState(rows[p][d], "processing")
      BY <1>6, <2>1 DEF PassOK
    <3>4. WellFormedRow(rows[p][d])
      BY <1>2, <1>3, <1>6, <3>3 DEF HasState, RunnerBase, SchemaInv, RowsSatisfySchema
    <3>5. rows[p][d].obs # None
      BY <3>3, <3>4 DEF WellFormedRow, HasState
    <3>6. rows[p][d].obs \in FilesAt(d)
      BY <2>2, <3>5 DEF RunnerFacts, DataInv
    <3>7. PassOK(w2, rows2)
      BY <1>6, <2>1, <3>1, <3>2, <3>6 DEF PassOK
    <3>8. QED
      BY <1>8, <3>1, <3>7
  <2>3. CASE AtRound(w2, w) /\ ResetDocumentPending(r, t, p, d)
    <3>1. "pending" \in DocumentState
      BY DEF DocumentState
    <3>2. /\ rows2[p][d] # None /\ rows2[p][d].state = "pending"
          /\ \A q \in Project, e \in Doc : q # p \/ e # d => rows2[q][e] = rows[q][e]
      BY <1>10, <2>3, <3>1 DEF ResetDocumentPending
    <3>3. w2.pc = "refreshing" /\ w2.run = r
      BY <1>1, <2>3 DEF AtRound, Run
    <3>4. Moves(rows, rows2, p, d, {"pending", "ready"})
      BY <3>2 DEF Moves
    <3>5. PassOK(w2, rows2)
      BY <1>6, <2>1, <3>3, <3>4, PassGoesOn
    <3>6. QED
      BY <1>8, <3>3, <3>5
  <2>4. \/ /\ worker'[t] = [worker[t] EXCEPT !.pc = "preparing"]
           /\ UNCHANGED vars
           /\ source[p][d] = staged[Run(t)][p][d].obs
        \/ /\ AtRound(worker'[t], worker[t])
           /\ ResetDocumentPending(Run(t), t, p, d)
        \/ worker'[t] = [worker[t] EXCEPT !.pc = "pausing"]
    BY <1>3, <1>12, ReadTakes
  <2>5. QED
    BY <1>1, <1>2, <1>9, <2>2, <2>3, <2>4
<1>13. CASE Prepare(t, p, d)
  <2>1. w.pc = "preparing" /\ w.doc = <<p, d>>
    BY <1>1, <1>13 DEF Prepare, At
  <2>2. CASE HasTodo(w2, w, w.todo) /\ CheckpointDocument(r, t, p, d, staged[r][p][d].obs)
    <3>1. PICK row, obs : row = rows[p][d] /\ obs = staged[r][p][d].obs
      OBVIOUS
    <3>2. PICK row2 : row2 = [row EXCEPT !.state = "ready", !.payload = obs]
      OBVIOUS
    <3>3. Checkpoint(r, t, p, d, "processing", row2)
      BY <1>2, <2>2, <3>1, <3>2 DEF CheckpointDocument
    <3>4. /\ rows2[p][d] = row2 /\ row \in StagedDocument
          /\ \A q \in Project, e \in Doc : q # p \/ e # d => rows2[q][e] = rows[q][e]
      BY <1>2, <1>6, <3>1, <3>3, CheckpointRows
    <3>5. obs \in Observation
      <4>1. HasState(row, "processing")
        BY <1>6, <2>1, <3>1 DEF PassOK
      <4>2. obs \in FilesAt(d)
        BY <1>2, <1>6, <2>1, <3>1 DEF PassOK
      <4>3. QED
        BY <4>2, FilesAtObservation
    <3>6. row2 \in StagedDocument /\ row2.state = "ready"
      BY <3>2, <3>4, <3>5 DEF StagedDocument, DocumentState
    <3>7. w2.pc = "processing" /\ w2.todo = w.todo /\ w2.run = r
      BY <1>1, <2>2 DEF HasTodo, SameMemory, Run
    <3>8. rows2[p][d] # None /\ rows2[p][d].state = "ready"
      BY <3>4, <3>6, NoneAssumption
    <3>9. Moves(rows, rows2, p, d, {"pending", "ready"})
      BY <3>4, <3>8 DEF Moves
    <3>10. PassOK(w2, rows2)
      BY <1>6, <2>1, <3>7, <3>9, PassGoesOn
    <3>11. QED
      BY <1>8, <3>7, <3>10
  <2>3. QED
    BY <1>1, <1>3, <1>9, <1>13, <2>2, PrepareTakes
<1>14. QED
  BY <1>11, <1>12, <1>13

LEMMA AllBegunKnows ==
    ASSUME RunnerFacts, NEW t \in Token, AllBegun(t), Has(t)'
    PROVE  Knows(t)'
<1>1. /\ At(t, "processing") /\ Active(t) /\ JournalBy(t) /\ worker[t] \in Worker
      /\ worker'[t] = NextRound(worker[t], TRUE) /\ UNCHANGED vars /\ seen' = seen
  BY AllBegunTakes, ActiveAt DEF AllBegun, At, Active, RunnerFacts
<1>2. TRUE \in BOOLEAN
  OBVIOUS
<1>3. PICK w, w2, rows : w = worker[t] /\ w2 = worker'[t] /\ rows = staged[Run(t)]
  OBVIOUS
<1>4. w2.pc = "refreshing" /\ w2.run = Run(t) /\ w.pc = "processing"
  BY <1>1, <1>2, <1>3, NextRoundType DEF Run, At
<1>5. /\ runs' = runs /\ UNCHANGED <<staged, digest, corpusVars>> /\ ~At(t, "failing")
  BY <1>1 DEF vars, corpusVars, At
<1>6. Has(t)
  BY <1>1, <1>3, <1>4, <1>5, HadBefore
<1>7. PassOK(w2, rows)
  BY <1>3, <1>4, <1>6, HasOwner, PassQuiet
<1>8. OwnerOK(t, w2, seen[t], Basis(Run(t)), rows, digest[Run(t)])
  BY <1>4, <1>7, NothingSettled
<1>9. QED
  BY <1>1, <1>3, <1>4, <1>5, <1>6, <1>8, KnowsAfter

LEMMA PublishKnows ==
    ASSUME RunnerFacts, NEW t \in Token, Publish(t) \/ Commit(t), Has(t)'
    PROVE  Knows(t)'
<1>1. RunnerBase
  BY DEF RunnerFacts
<1>2. PICK w, w2, rows : w = worker[t] /\ w2 = worker'[t] /\ rows = staged[Run(t)]
  OBVIOUS
<1>3. /\ w.pc \in {"publishing", "committing"} /\ Active(t) /\ JournalBy(t)
      /\ ~At(t, "failing") /\ ~Owns(t, Run(t)) /\ w \in Worker
  BY <1>1, <1>2, PublishTakes, CommitTakes, ActiveAt
     DEF Publish, Commit, At, Active, RunnerBase, WorksOnRun
<1>4. /\ seen' = seen /\ UNCHANGED <<journalVars, corpusVars>>
      /\ \/ w2 = [w EXCEPT !.pc = "committing"] /\ w.pc = "publishing"
         \/ w2 = [w EXCEPT !.pc = "failing"]
  <2>1. worker'[t].pc # "done"
    BY EndedHasNot
  <2>2. CASE Publish(t)
    BY <1>1, <1>2, <2>1, <2>2, PublishTakes DEF PreparePublication, vars, journalVars, corpusVars, At
  <2>3. CASE Commit(t)
    BY <1>1, <1>2, <2>1, <2>3, CommitTakes DEF RollBackPublication
  <2>4. QED
    BY <2>2, <2>3
<1>5. runs' = runs /\ staged' = staged /\ digest' = digest /\ w2.run = Run(t)
  BY <1>2, <1>3, <1>4 DEF journalVars, Worker, Run
<1>6. Has(t)
  BY <1>2, <1>3, <1>5, HadBefore
<1>7. /\ OwnerOK(t, w, seen[t], Basis(Run(t)), rows, digest[Run(t)])
      /\ PassOK(w, rows)
  BY <1>2, <1>6, HasOwner
<1>8. CASE w2 = [w EXCEPT !.pc = "committing"] /\ w.pc = "publishing"
  <2>1. w2.pc = "committing"
    BY <1>3, <1>8 DEF Worker
  <2>2. PassOK(w2, rows)
    BY <1>7, <1>8, <2>1 DEF PassOK
  <2>3. OwnerOK(t, w2, seen[t], Basis(Run(t)), rows, digest[Run(t)])
    BY <1>7, <1>8, <2>1, <2>2, StaysSettled
  <2>4. QED
    BY <1>2, <1>3, <1>4, <1>5, <1>6, <2>1, <2>3, KnowsAfter
<1>9. CASE w2 = [w EXCEPT !.pc = "failing"]
  <2>1. w2.pc = "failing"
    BY <1>3, <1>9 DEF Worker
  <2>2. OwnerOK(t, w2, seen[t], Basis(Run(t)), rows, digest[Run(t)])
    BY <2>1, PassBroken, NothingSettled
  <2>3. ~Owns(t, Run(t))'
    BY <1>2, <1>3, <1>5 DEF Owns, InState, Exists, Run
  <2>4. QED
    BY <1>2, <1>3, <1>4, <1>5, <1>6, <2>1, <2>2, <2>3, KnowsAfter
<1>10. QED
  BY <1>4, <1>8, <1>9

LEMMA ActsKnows ==
    ASSUME RunnerFacts, NEW t \in Token, Acts(t), Has(t)'
    PROVE  Knows(t)'
<1>1. RunnerBase
  BY DEF RunnerFacts
<1>2. CASE Start(t) \/ \E r \in RunId : StartNamed(t, r)
  BY <1>2, StartKnows
<1>3. CASE Claim(t)
  BY <1>3, ClaimKnows
<1>4. CASE Refused(t) \/ Interrupted(t)
  BY <1>4, RefusedKnows
<1>5. CASE Fail(t) \/ Pause(t) \/ Crash(t)
  <2>1. Ends(t)
    BY <1>5 DEF Fail, Pause, Crash
  <2>2. worker'[t].pc = "done"
    BY <1>1, <2>1, NewWorkerType
       DEF Ends, Becomes, Ended, NewWorker, RunnerBase, RunnerTypeOK
  <2>3. QED
    BY <2>2, EndedHasNot
<1>6. CASE Refresh(t)
  BY <1>6, RefreshKnows
<1>7. CASE \E p \in Project : List(t, p)
  BY <1>7, ListKnows
<1>8. CASE \E p \in Project : Reconcile(t, p)
  BY <1>8, ReconcileKnows
<1>9. CASE \E d \in Doc : Observe(t, d)
  BY <1>9, ObserveKnows
<1>10. CASE CountRound(t)
  BY <1>10, CountRoundKnows
<1>11. CASE Settle(t)
  BY <1>11, SettleKnows
<1>12. CASE \E p \in Project, d \in Doc : Begin(t, p, d) \/ Read(t, p, d) \/ Prepare(t, p, d)
  BY <1>12, DocumentKnows
<1>13. CASE AllBegun(t)
  BY <1>13, AllBegunKnows
<1>14. CASE Publish(t) \/ Commit(t)
  BY <1>14, PublishKnows
<1>15. QED
  BY <1>2, <1>3, <1>4, <1>5, <1>6, <1>7, <1>8, <1>9, <1>10, <1>11, <1>12, <1>13, <1>14
     DEF Acts, Proceed

-----------------------------------------------------------------------------
(* The invariant holds.                                                    *)

LEMMA KnowledgeStays ==
    ASSUME RunnerFacts, [RunnerNext]_allVars
    PROVE  \A o \in Token : Has(o)' => Knows(o)'
<1>1. /\ RunnerBase /\ RunnerStep
      /\ \A o \in Token : WorksOnRun(o) /\ (Has(o) => Knows(o))
  BY RunnerSteps DEF RunnerFacts, RunnerBase
<1>2. ASSUME NEW o \in Token, Aside(o), Has(o)'
      PROVE  Knows(o)'
  BY <1>1, <1>2, AsideKnows
<1>3. QED
  BY <1>1, <1>2, ActsKnows DEF RunnerStep

\* What the journal keeps, of which every use of it may be sure.
JournalFacts ==
    /\ OneConfiguration /\ PreparedDocumentsCurrent /\ PreparedIsPublishable
    /\ DigestDescribesRows

RunnerKnowledge ==
    /\ DataInv /\ BasisInv /\ PublishedConfig
    /\ \A t \in Token : Has(t) => Knows(t)

LEMMA JournalFactsHold == RunnerSafety => []JournalFacts
<1>1. Init => PreparedIsPublishable
  BY DEF Init, PreparedIsPublishable
<1>2. SchemaInv /\ PreparedIsPublishable /\ [Next]_vars => PreparedIsPublishable'
  BY PreparedStaysPublishable DEF SchemaInv
<1>3. Spec => []PreparedIsPublishable
  BY <1>1, <1>2, SchemaInvariant, PTL DEF Spec
<1>4. OneConfiguration /\ PreparedDocumentsCurrent /\ PreparedIsPublishable
        /\ DigestDescribesRows => JournalFacts
  BY DEF JournalFacts
<1>5. QED
  BY <1>3, <1>4, RunnerImplementsJournal, ConfigurationIsOne, PreparedCurrent,
     DigestsDescribe, PTL

LEMMA RunnerInitKnowledge ==
    ASSUME RunnerInit
    PROVE  RunnerKnowledge
<1>1. Init /\ source = InitialSource /\ worker = [t \in Token |-> NewWorker]
  BY DEF RunnerInit
<1>2. \A r \in RunId, p \in Project, d \in Doc : staged[r][p][d] = None
  BY <1>1 DEF Init, NoDocuments
<1>3. DataInv
  <2>1. \A r \in RunId, p \in Project, d \in Doc : Authentic(d, staged[r][p][d])
    BY <1>2 DEF Authentic
  <2>2. \A p \in Project, d \in Doc : live[p][d] = None
    BY <1>1 DEF Init, NoDocuments
  <2>3. \A p \in Project, d \in Doc : source[p][d] \in FilesAt(d) \cup {None}
    BY <1>1, RunnerAssumption
  <2>4. QED
    BY <2>1, <2>2, <2>3 DEF DataInv
<1>4. BasisInv
  BY <1>2 DEF BasisInv, ActsOn
<1>5. PublishedConfig
  BY <1>1 DEF Init, PublishedConfig
<1>6. \A t \in Token : ~Has(t)
  BY <1>1 DEF Has, Active, NewWorker
<1>7. QED
  BY <1>3, <1>4, <1>5, <1>6 DEF RunnerKnowledge

LEMMA RunnerFactsHold == RunnerSafety => [](RunnerFacts /\ DigestDescribesRows)
<1>1. RunnerInit => RunnerKnowledge
  BY RunnerInitKnowledge
<1>2. RunnerBase /\ JournalFacts /\ RunnerKnowledge <=> RunnerFacts /\ DigestDescribesRows
  BY DEF RunnerFacts, RunnerKnowledge, JournalFacts
<1>3. RunnerBase /\ JournalFacts /\ RunnerKnowledge /\ [RunnerNext]_allVars => RunnerKnowledge'
  BY <1>2, DataStays, BasisStays, ConfigPublished, KnowledgeStays DEF RunnerKnowledge
<1>4. QED
  BY <1>1, <1>2, <1>3, RunnerBaseHolds, JournalFactsHold, PTL DEF RunnerSafety

-----------------------------------------------------------------------------
(* A ready run can be published.                                           *)

\* The rows of a run an invocation is about to publish.
LEMMA ReadyRows ==
    ASSUME RunnerFacts, NEW t \in Token, worker[t].pc \in {"publishing", "committing"},
           InState(Run(t), {"ready"}), runs[Run(t)].owner = t
    PROVE  /\ Has(t) /\ Run(t) \in RunId /\ runs[Run(t)].scope = ScopeOf[t]
           /\ AllReady(staged[Run(t)]) /\ ConfigOK(t)
           /\ \A p \in ScopeOf[t] :
                /\ digest[Run(t)][p] # None
                /\ \A d \in Doc :
                     Told(t, seen[t], Basis(Run(t)), p, d, staged[Run(t)][p][d])
<1>1. Active(t)
  BY DEF Active
<1>2. Has(t)
  BY <1>1 DEF Has, Holding, InState
<1>3. ConfigOK(t) /\ Run(t) \in RunId /\ runs[Run(t)].scope = ScopeOf[t]
  BY <1>2, <1>1, HasOwner DEF RunnerFacts, Knows, WorksOnRun
<1>4. OwnerOK(t, worker[t], seen[t], Basis(Run(t)), staged[Run(t)], digest[Run(t)])
  BY <1>2, HasOwner
<1>5. Settled(t, worker[t]) = ScopeOf[t]
  BY DEF Settled
<1>6. QED
  BY <1>2, <1>3, <1>4, <1>5 DEF OwnerOK, DoneOK, PassOK

\* When an invocation reaches its publication, nothing it did itself is in the
\* way: the rows, digests, settings, metadata targets and paths are in order,
\* whatever happened between the refresh, the passes and the takeover of the run.
THEOREM ReadyRunsPublishable == RunnerSafety => []ReadyIsPublishable
<1>1. ASSUME RunnerFacts, DigestDescribesRows
      PROVE  ReadyIsPublishable
  <2>1. SUFFICES ASSUME NEW t \in Token, worker[t].pc \in {"publishing", "committing"},
                        InState(Run(t), {"ready"}), runs[Run(t)].owner = t,
                        runs[Run(t)].base = generation
                 PROVE  Publishable(staged[Run(t)]) /\ Committable(Run(t), t, staged[Run(t)])
    BY DEF ReadyIsPublishable
  <2>2. PICK r, rows : r = Run(t) /\ rows = staged[r]
    OBVIOUS
  <2>3. /\ r \in RunId /\ runs[r].scope = ScopeOf[t] /\ AllReady(rows) /\ ConfigOK(t)
        /\ \A p \in ScopeOf[t] : digest[r][p] # None
    BY <1>1, <2>1, <2>2, ReadyRows
  <2>4. TypeOK /\ RowsSatisfySchema /\ DataInv /\ BasisInv /\ ScopeOf[t] \subseteq Project
    BY <1>1, ScopeType DEF RunnerFacts, RunnerBase, SchemaInv
  <2>5. ASSUME NEW p \in Project, NEW d \in Doc, rows[p][d] # None
        PROVE  /\ rows[p][d] \in StagedDocument /\ WellFormedRow(rows[p][d])
               /\ Authentic(d, rows[p][d]) /\ ActsOn(live[p][d], rows[p][d])
               /\ rows[p][d].state = "ready"
    <3>1. Unfinished(r) /\ live \in Basis(r)
      BY <2>1, <2>2 DEF Unfinished, InState, UnfinishedState, Basis
    <3>2. QED
      BY <2>2, <2>3, <2>4, <2>5, <3>1, StagedIsNested
         DEF RowsSatisfySchema, DataInv, BasisInv, AllReady
  <2>6. ASSUME NEW p \in Project, NEW d \in Doc, rows[p][d] # None
        PROVE  /\ IsPublishable(rows[p][d])
               /\ rows[p][d].payload \in {None, rows[p][d].obs}
    BY <2>5, <2>6 DEF WellFormedRow, Authentic, IsPublishable
  <2>7. Publishable(rows)
    BY <2>3, <2>6 DEF Publishable, IsPublishable
  <2>8. PublishableRows(rows) = StagedRows(rows)
    BY <2>6 DEF PublishableRows, StagedRows
  <2>9. ASSUME NEW p \in ScopeOf[t]
        PROVE  digest[r][p] = DigestOf(rows[p])
    BY <1>1, <2>2, <2>3, <2>4, <2>6, <2>9 DEF DigestDescribesRows
  <2>10. StillPublishable(r, t, rows)
    BY <2>1, <2>2, <2>3, <2>8, <2>9 DEF StillPublishable
  <2>11. AcceptsConfig(runs[r].config, runs[r].scope)
    BY <2>1, <2>2, <2>3 DEF ConfigOK, At
  <2>12. ASSUME NEW p \in Project
         PROVE  MetadataTargetsExist(live[p], rows[p]) /\ UniquePaths(LiveAfter(live[p], rows[p]))
    <3>1. ASSUME NEW d \in Doc
          PROVE  /\ LiveAfter(live[p], rows[p])[d] \in FilesAt(d) \cup {None}
                 /\ rows[p][d] # None /\ rows[p][d].action = "metadata" => live[p][d] # None
      <4>1. PICK file, row : file = live[p][d] /\ row = rows[p][d]
        OBVIOUS
      <4>2. file \in FilesAt(d) \cup {None}
        BY <2>4, <4>1 DEF DataInv
      <4>3. CASE row = None
        BY <4>1, <4>2, <4>3 DEF LiveAfter
      <4>4. CASE row # None
        <5>1. /\ row \in StagedDocument /\ WellFormedRow(row) /\ Authentic(d, row)
              /\ ActsOn(file, row) /\ row.state = "ready"
          BY <2>5, <4>1, <4>4
        <5>2. /\ FileAfter(file, row) \in FilesAt(d) \cup {None}
              /\ row.action # "delete" => (row.action = "metadata" => file # None)
          BY <4>2, <5>1, PublishedFile
        <5>3. LiveAfter(live[p], rows[p])[d] = FileAfter(file, row)
          BY <4>1, <4>4 DEF LiveAfter
        <5>4. QED
          BY <4>1, <4>4, <5>2, <5>3
      <4>5. QED
        BY <4>3, <4>4
    <3>2. MetadataTargetsExist(live[p], rows[p])
      BY <3>1 DEF MetadataTargetsExist
    <3>3. PICK files : files = LiveAfter(live[p], rows[p])
      OBVIOUS
    <3>4. \A d \in Doc : files[d] # None => files[d].path = d
      BY <3>1, <3>3, FilesAtObservation
    <3>5. UniquePaths(files)
      BY <3>4 DEF UniquePaths
    <3>6. QED
      BY <3>2, <3>3, <3>5
  <2>13. Committable(r, t, rows)
    BY <2>3, <2>4, <2>10, <2>11, <2>12 DEF Committable
  <2>14. QED
    BY <2>2, <2>7, <2>13
<1>2. QED
  BY <1>1, RunnerFactsHold, PTL

-----------------------------------------------------------------------------
(* No work is done twice.                                                  *)

\* Only a refresh gives up a payload: nothing else changes a row that has one.
LEMMA RowDiscarded ==
    ASSUME RunnerFacts, TypeOK', RowsSatisfySchema', NEW t \in Token, Acts(t),
           NEW r \in RunId, NEW p \in Project, NEW d \in Doc, Discards(r, p, d)
    PROVE  Reconciles(t, r, p, d)
<1>1. RunnerBase /\ TypeOK /\ RowsSatisfySchema
  BY DEF RunnerFacts, RunnerBase, SchemaInv
<1>2. PICK row, row2 : row = staged[r][p][d] /\ row2 = staged'[r][p][d]
  OBVIOUS
<1>3. row # None /\ row.payload # None /\ row2 # row
  BY <1>2 DEF Discards
<1>4. row \in StagedDocument /\ row2 \in StagedDocument \cup {None}
  BY <1>1, <1>2, <1>3 DEF TypeOK, StagedDocuments
<1>5. WellFormedRow(row) /\ (row2 # None => WellFormedRow(row2))
  BY <1>1, <1>2, <1>3 DEF RowsSatisfySchema
<1>6. ~SameData(row, row2)
  <2>1. SUFFICES ASSUME SameData(row, row2)
                 PROVE  row2 = row
    BY <1>3
  <2>2. /\ row2 \in StagedDocument /\ row2.obs = row.obs /\ row2.action = row.action
        /\ row2.payload = row.payload
    BY <1>3, <1>4, <2>1 DEF SameData
  <2>3. row.state = "ready" /\ row2.state = "ready"
    BY <1>3, <1>4, <1>5, <2>2, NoneAssumption DEF WellFormedRow
  <2>4. QED
    BY <1>4, <2>2, <2>3 DEF StagedDocument
<1>7. ~Prepares(t, r, p, d)
  <2>1. SUFFICES ASSUME Prepares(t, r, p, d)
                 PROVE  row.state = "processing"
    BY <1>3, <1>5 DEF WellFormedRow
  <2>2. QED
    BY <1>2, <2>1 DEF Prepares, Prepare, CheckpointDocument, CheckpointDocumentError,
                      Checkpoint, Run
<1>8. RowMoves(t, r, p, d)
  BY <1>1, RowsMove
<1>9. QED
  BY <1>2, <1>6, <1>7, <1>8 DEF RowMoves

\* What a refresh must have seen to give up the payload of a row.
GivenUpFor(t, S, files, p, d, row, row2) ==
    \/ row2.obs # None /\ row2.obs.hash = ReadError
    \/ \E s \in S : s[p][d] # row.payload
    \/ t \in Trusting /\ SameRevision(files[p][d], row.payload)

LEMMA GivenUp ==
    ASSUME NEW t \in Token, NEW S, NEW files, NEW p \in Project, NEW d \in Doc,
           NEW row \in StagedDocument, row.payload # None, WellFormedRow(row),
           Authentic(d, row), ActsOn(files[p][d], row),
           NEW x \in ManifestDocument \cup {None}, NEW row2, row2 # row,
           row2 = ReconciledRow(row, x), Told(t, S, {files}, p, d, x),
           Entry({files}, p, d, x), Vouched(t, S, {files}, p, d, x, row)
    PROVE  GivenUpFor(t, S, files, p, d, row, row2)
<1> USE DEF GivenUpFor
<1>0. PICK file : file = files[p][d]
  OBVIOUS
<1>1. row # None /\ row.action = "upsert" /\ row.state = "ready"
  BY NoneAssumption DEF WellFormedRow
<1>2. row.obs # None /\ row.payload = row.obs /\ row.obs.path = d /\ row.obs \in FilesAt(d)
  BY <1>1, NoneAssumption DEF WellFormedRow, Authentic
<1>3. row.action = ActionFor(file, row.obs)
  BY <1>0, <1>1 DEF ActsOn
<1>4. row.payload # None /\ row.obs \in Observation
  BY <1>2, NoneAssumption DEF StagedDocument
<1>5. CASE x = None \/ (x # None /\ x.action = "delete")
  BY <1>4, <1>5 DEF Told, Missing
<1>6. CASE x # None /\ x.action # "delete"
  <2>1. row2 = Restaged(x) /\ ~Keeps(row, x)
    BY <1>6, RowReconciled
  <2>2. x \in ManifestDocument /\ x.obs \in Observation /\ row2.obs = x.obs /\ x.obs # None
    BY <1>6, <2>1, RestagedFields, NoneAssumption DEF ManifestDocument
  <2>3. x.obs.path = d /\ x.action = ActionFor(file, x.obs)
    BY <1>0, <1>6 DEF Entry
  <2>4. x.obs # row.obs
    BY <1>1, <1>2, <1>3, <2>1, <2>3 DEF Keeps, Fingerprint
  <2>5. CASE x.obs.hash = ReadError
    BY <2>2, <2>5
  <2>6. CASE \E s \in S : s[p][d] = x.obs
    BY <1>2, <2>4, <2>6
  <2>7. CASE t \in Trusting /\ file = x.obs /\ x.obs.hash # ReadError
    <3>1. \E s \in S : s[p][d] = x.obs \/ SameRevision(s[p][d], x.obs)
      BY <1>6, <2>7 DEF Told, Witnessed
    <3>2. PICK s \in S : s[p][d] = x.obs \/ SameRevision(s[p][d], x.obs)
      BY <3>1
    <3>3. CASE s[p][d] # row.payload
      BY <3>3
    <3>4. CASE s[p][d] = row.payload
      BY <1>0, <1>2, <1>4, <2>2, <2>4, <2>7, <3>2, <3>4 DEF SameRevision
    <3>5. QED
      BY <3>3, <3>4
  <2>8. QED
    BY <1>0, <1>6, <2>4, <2>5, <2>6, <2>7 DEF Vouched
<1>7. QED
  BY <1>5, <1>6

\* A payload that is staged is prepared again only for a reason: the source was
\* seen to differ from it, could not be read, or a trusted revision stands for it.
THEOREM RunnerKeepsStagedWork == RunnerSafety => StagedWorkKept
<1>1. ASSUME RunnerFacts, TypeOK', RowsSatisfySchema', [RunnerNext]_allVars,
             NEW r \in RunId, NEW p \in Project, NEW d \in Doc,
             Discards(r, p, d), runs[r].base = generation
      PROVE  \/ staged'[r][p][d].obs # None /\ staged'[r][p][d].obs.hash = ReadError
             \/ \E t \in Token :
                   /\ Owns(t, r)
                   /\ \/ \E s \in seen[t] : s[p][d] # staged[r][p][d].payload
                      \/ /\ t \in Trusting
                         /\ SameRevision(live[p][d], staged[r][p][d].payload)
  <2>1. RunnerBase /\ RunnerStep /\ TypeOK /\ RowsSatisfySchema /\ DataInv /\ BasisInv
    BY <1>1, RunnerSteps DEF RunnerFacts, RunnerBase, SchemaInv
  <2>2. staged' # staged
    BY <1>1 DEF Discards
  <2>3. PICK t \in Token : Acts(t)
    BY <2>1, <2>2 DEF RunnerStep
  <2>4. Reconciles(t, r, p, d)
    BY <1>1, <2>3, RowDiscarded
  <2>5. PICK row, row2, x : /\ row = staged[r][p][d] /\ row2 = staged'[r][p][d]
                            /\ x = worker[t].manifest[p][d]
    OBVIOUS
  <2>6. Reconcile(t, p) /\ r = Run(t) /\ row2 = ReconciledRow(row, x)
    BY <2>4, <2>5 DEF Reconciles
  <2>7. /\ Owns(t, r) /\ Told(t, seen[t], Basis(r), p, d, x) /\ Entry(Basis(r), p, d, x)
        /\ Vouched(t, seen[t], Basis(r), p, d, x, row)
    BY <1>1, <2>5, <2>6, ManifestSays
  <2>8. Basis(r) = {live}
    BY <1>1 DEF Basis
  <2>9. row # None /\ row.payload # None /\ row2 # row
    BY <1>1, <2>5 DEF Discards
  <2>10. row \in StagedDocument /\ WellFormedRow(row) /\ Authentic(d, row)
    BY <2>1, <2>5, <2>9 DEF TypeOK, StagedDocuments, RowsSatisfySchema, DataInv
  <2>11. ActsOn(live[p][d], row)
    BY <2>1, <2>5, <2>7, <2>8 DEF BasisInv, Unfinished, Owns, InState, UnfinishedState
  <2>12. x \in ManifestDocument \cup {None}
    <3>1. worker[t].manifest[p] \in Manifest
      BY <2>1, <2>6, ReconcileTakes
    <3>2. QED
      BY <2>5, <3>1 DEF Manifest
  <2>13. PICK S : S = seen[t]
    OBVIOUS
  <2>14. /\ Told(t, S, {live}, p, d, x) /\ Entry({live}, p, d, x)
         /\ Vouched(t, S, {live}, p, d, x, row)
    BY <2>7, <2>8, <2>13
  <2>15. GivenUpFor(t, S, live, p, d, row, row2)
    BY <2>6, <2>9, <2>10, <2>11, <2>12, <2>14, GivenUp
  <2>16. QED
    BY <2>5, <2>7, <2>13, <2>15 DEF GivenUpFor
<1>2. RunnerFacts => TypeOK /\ RowsSatisfySchema
  BY DEF RunnerFacts, RunnerBase, SchemaInv
<1>3. RunnerFacts /\ TypeOK' /\ RowsSatisfySchema' /\ [RunnerNext]_allVars =>
        [\A r \in RunId, p \in Project, d \in Doc :
          Discards(r, p, d) /\ runs[r].base = generation =>
              \/ staged'[r][p][d].obs # None /\ staged'[r][p][d].obs.hash = ReadError
              \/ \E t \in Token :
                    /\ Owns(t, r)
                    /\ \/ \E s \in seen[t] : s[p][d] # staged[r][p][d].payload
                       \/ /\ t \in Trusting
                          /\ SameRevision(live[p][d], staged[r][p][d].payload)
        ]_allVars
  BY <1>1
<1>4. QED
  BY <1>2, <1>3, RunnerFactsHold, PTL DEF RunnerSafety, StagedWorkKept

-----------------------------------------------------------------------------
(* What is published was true.                                             *)

LEMMA PublishedIsTrue ==
    ASSUME RunnerFacts, [Next]_vars, NEW t \in Token, NEW p \in Project, NEW d \in Doc,
           At(t, "committing"), runs[Run(t)].owner = t,
           generation' # generation, generation' = Run(t), p \in ScopeOf[t]
    PROVE  \E s \in seen[t] :
              \/ live'[p][d] = s[p][d]
              \/ /\ t \in Trusting /\ SameRevision(live'[p][d], s[p][d])
                 /\ live'[p][d] \in FilesAt(d)
<1>1. PICK n \in RunId : Publishes(n)
  BY CorpusMoves DEF corpusVars
<1>2. n = Run(t) /\ InState(n, {"ready"}) /\ runs[n].base = generation
  BY <1>1 DEF Publishes
<1>3. PICK S, row, file : S = seen[t] /\ row = staged[n][p][d] /\ file = live'[p][d]
  OBVIOUS
<1>4. Basis(n) = {live}
  BY <1>2 DEF Basis
<1>5. runs[n].scope = ScopeOf[t] /\ Told(t, S, {live}, p, d, row)
  BY <1>2, <1>3, <1>4, ReadyRows DEF At
<1>6. IF row = None THEN file = live[p][d]
      ELSE IF row.action = "delete" THEN file = None
      ELSE file = row.obs /\ file \in FilesAt(d)
  BY <1>1, <1>3, <1>5, PublishedLive
<1>7. CASE row = None \/ (row # None /\ row.action = "delete")
  <2>1. file = None /\ Missing(S, p, d)
    BY <1>5, <1>6, <1>7 DEF Told
  <2>2. QED
    BY <1>3, <2>1 DEF Missing
<1>8. CASE row # None /\ row.action # "delete"
  <2>1. file = row.obs /\ file \in FilesAt(d) /\ Witnessed(t, S, p, d, file)
    BY <1>5, <1>6, <1>8 DEF Told
  <2>2. file.hash # ReadError
    BY <2>1, FilesAtObservation
  <2>3. QED
    BY <1>3, <2>1, <2>2 DEF Witnessed, SameRevision
<1>9. QED
  BY <1>7, <1>8

\* Every content, revision and absence an invocation publishes was the source's
\* at some moment after its last refresh began, whatever was edited, resumed,
\* taken over or published meanwhile.
THEOREM RunnerPublishesTruth == RunnerSafety => PublishedWasTrue
<1>1. RunnerFacts /\ [RunnerNext]_allVars =>
        [\A t \in Token, p \in Project, d \in Doc :
          At(t, "committing") /\ runs[Run(t)].owner = t
                /\ generation' # generation /\ generation' = Run(t)
                /\ p \in ScopeOf[t]
              => \E s \in seen[t] :
                    \/ live'[p][d] = s[p][d]
                    \/ /\ t \in Trusting /\ SameRevision(live'[p][d], s[p][d])
                       /\ live'[p][d] \in FilesAt(d)]_allVars
  <2>1. SUFFICES ASSUME RunnerFacts, [RunnerNext]_allVars
                 PROVE  \A t \in Token, p \in Project, d \in Doc :
          At(t, "committing") /\ runs[Run(t)].owner = t
                /\ generation' # generation /\ generation' = Run(t)
                /\ p \in ScopeOf[t]
              => \E s \in seen[t] :
                    \/ live'[p][d] = s[p][d]
                    \/ /\ t \in Trusting /\ SameRevision(live'[p][d], s[p][d])
                       /\ live'[p][d] \in FilesAt(d)
    OBVIOUS
  <2>2. [Next]_vars
    BY <2>1, RunnerSteps DEF RunnerFacts
  <2>3. QED
    BY <2>1, <2>2, PublishedIsTrue
<1>2. QED
  BY <1>1, RunnerFactsHold, PTL DEF RunnerSafety, PublishedWasTrue

-----------------------------------------------------------------------------
(* A run fails for its configuration only.                                 *)

\* A step that leaves the status of a run, or gives it another one than failed.
Unbroken(r) == runs'[r] # None /\ runs'[r].status = "failed" => InState(r, {"failed"})

LEMMA SameRunsUnbroken ==
    ASSUME NEW r \in RunId, runs'[r] = runs[r]
    PROVE  Unbroken(r)
BY DEF Unbroken, InState, Exists

LEMMA TouchedUnbroken ==
    ASSUME TypeOK, NEW k \in RunId, NEW run, runs' = [runs EXCEPT ![k] = run],
           run.status # "failed", NEW r \in RunId
    PROVE  Unbroken(r)
BY DEF Unbroken, InState, Exists, TypeOK

LEMMA RenewedUnbroken ==
    ASSUME TypeOK, NEW k \in RunId, NEW t \in Token, Owns(t, k),
           runs' = [runs EXCEPT ![k] = Renewed(runs[k])], NEW r \in RunId
    PROVE  Unbroken(r)
<1>1. runs[k] \in IndexRun /\ runs[k].status = "running"
  BY DEF Owns, InState, Exists, TypeOK
<1>2. PICK run : run = Renewed(runs[k])
  OBVIOUS
<1>3. run.status = "running"
  BY <1>1, <1>2 DEF Renewed, IndexRun
<1>4. QED
  BY <1>2, <1>3, TouchedUnbroken

LEMMA ReleasedUnbroken ==
    ASSUME TypeOK, NEW k \in RunId, Exists(k), NEW status, status # "failed",
           runs' = [runs EXCEPT ![k] = Released(runs[k], status)], NEW r \in RunId
    PROVE  Unbroken(r)
<1>1. runs[k] \in IndexRun
  BY DEF Exists, TypeOK
<1>2. PICK run : run = Released(runs[k], status)
  OBVIOUS
<1>3. run.status = status
  BY <1>1, <1>2 DEF Released, IndexRun
<1>4. QED
  BY <1>2, <1>3, TouchedUnbroken

\* The calls of the journal, but for fail_run.
LEMMA CallsUnbroken ==
    ASSUME TypeOK, NEW t \in Token, NEW k \in RunId, NEW r \in RunId,
           \/ ClaimRun(k, t) \/ Heartbeat(k, t) \/ PauseRun(k, t) \/ MarkRunReady(k, t)
           \/ \E p \in Project, manifest \in Manifest : ReconcileManifest(k, t, p, manifest)
    PROVE  Unbroken(r)
<1>1. CASE ClaimRun(k, t)
  <2>1. runs[k] \in IndexRun /\ runs' = [runs EXCEPT ![k] = Claimed(runs[k], t)]
    BY <1>1 DEF ClaimRun, Claimable, InState, Exists, TypeOK
  <2>2. PICK run : run = Claimed(runs[k], t)
    OBVIOUS
  <2>3. run.status = "running"
    BY <2>1, <2>2, ClaimedFields
  <2>4. QED
    BY <2>1, <2>2, <2>3, TouchedUnbroken
<1>2. CASE \/ Heartbeat(k, t)
           \/ \E p \in Project, manifest \in Manifest : ReconcileManifest(k, t, p, manifest)
  BY <1>2, RenewedUnbroken DEF Heartbeat, ReconcileManifest
<1>3. CASE PauseRun(k, t)
  BY <1>3, ReleasedUnbroken DEF PauseRun, InState
<1>4. CASE MarkRunReady(k, t)
  <2>1. PICK run : run = [Renewed(runs[k]) EXCEPT !.status = "ready"]
    OBVIOUS
  <2>2. runs[k] \in IndexRun /\ runs' = [runs EXCEPT ![k] = run]
    BY <1>4, <2>1 DEF MarkRunReady, Owns, InState, Exists, TypeOK
  <2>3. run.status = "ready"
    BY <2>1, <2>2 DEF Renewed, IndexRun
  <2>4. QED
    BY <2>2, <2>3, TouchedUnbroken
<1>5. QED
  BY <1>1, <1>2, <1>3, <1>4

LEMMA OverruledUnbroken ==
    ASSUME TypeOK, NEW k \in RunId, NEW r \in RunId,
           LeaseExpires(k) \/ AbandonRun(k) \/ SupersedeRun(k)
    PROVE  Unbroken(r)
<1>1. CASE LeaseExpires(k)
  <2>1. PICK run : run = [runs[k] EXCEPT !.fresh = FALSE]
    OBVIOUS
  <2>2. /\ runs[k] \in IndexRun /\ runs[k].status = "running"
        /\ runs' = [runs EXCEPT ![k] = run]
    BY <1>1, <2>1 DEF LeaseExpires, InState, Exists, TypeOK
  <2>3. run.status = "running"
    BY <2>1, <2>2, ExpiredFields
  <2>4. QED
    BY <2>2, <2>3, TouchedUnbroken
<1>2. CASE AbandonRun(k) \/ SupersedeRun(k)
  <2>1. Exists(k) /\ \E status \in {"abandoned", "superseded"} :
                        runs' = [runs EXCEPT ![k] = Released(runs[k], status)]
    BY <1>2 DEF AbandonRun, SupersedeRun, Unfinished, InState
  <2>2. QED
    BY <2>1, ReleasedUnbroken
<1>3. QED
  BY <1>1, <1>2

\* fail_run is called by the invocation that owns the run, and only then fails one.
LEMMA OnlyFailFails ==
    ASSUME RunnerBase, NEW t \in Token, Acts(t), NEW r \in RunId, ~Unbroken(r)
    PROVE  At(t, "failing") /\ r = Run(t) /\ Owns(t, r)
<1>1. TypeOK /\ runs'[r] # runs[r]
  BY SameRunsUnbroken DEF RunnerBase, SchemaInv
<1>2. CASE Fail(t)
  <2>1. /\ At(t, "failing") /\ FailRun(Run(t), t) /\ InState(Run(t), {"running"})
    BY <1>1, <1>2 DEF Fail, vars
  <2>2. runs' = [runs EXCEPT ![Run(t)] = Released(runs[Run(t)], "failed")]
          /\ Owns(t, Run(t))
    BY <2>1 DEF FailRun, Owns
  <2>3. r = Run(t)
    BY <1>1, <2>2 DEF TypeOK
  <2>4. QED
    BY <2>1, <2>2, <2>3
<1>3. CASE Start(t)
  <2>1. PICK c \in Config, forceNew \in BOOLEAN : CreateOrResumeRun(ScopeOf[t], c, forceNew)
    BY <1>3, RunnerAssumption DEF Start
  <2>2. \/ runs'[r] = runs[r]
        \/ Unfinished(r) /\ runs'[r] = Released(runs[r], "superseded")
        \/ ~Exists(r) /\ runs'[r] = NewRun(ScopeOf[t], c)
    BY <1>1, <2>1, ScopeType, CreateEffect
  <2>3. ASSUME Unfinished(r), runs'[r] = Released(runs[r], "superseded")
        PROVE  FALSE
    <3>1. runs[r] \in IndexRun
      BY <1>1, <2>3 DEF Unfinished, InState, Exists, TypeOK
    <3>2. Released(runs[r], "superseded").status = "superseded"
      BY <3>1 DEF Released, IndexRun
    <3>3. QED
      BY <2>3, <3>2 DEF Unbroken
  <2>4. ASSUME runs'[r] = NewRun(ScopeOf[t], c)
        PROVE  FALSE
    BY <2>4 DEF Unbroken, NewRun
  <2>5. QED
    BY <1>1, <2>2, <2>3, <2>4
<1>4. CASE Claim(t)
  <2>1. Run(t) \in RunId /\ ClaimRun(Run(t), t)
    BY <1>1, <1>4, ActiveAt DEF Claim, At, Active, vars
  <2>2. QED
    BY <1>1, <2>1, CallsUnbroken
<1>5. CASE Refresh(t) \/ CountRound(t)
  <2>1. Run(t) \in RunId /\ Heartbeat(Run(t), t)
    BY <1>5, ActiveAt DEF Refresh, CountRound, At, Active
  <2>2. QED
    BY <1>1, <2>1, CallsUnbroken
<1>6. CASE Pause(t)
  <2>1. Run(t) \in RunId /\ PauseRun(Run(t), t)
    BY <1>6, ActiveAt DEF Pause, At, Active
  <2>2. QED
    BY <1>1, <2>1, CallsUnbroken
<1>7. CASE Settle(t)
  <2>1. Run(t) \in RunId /\ (Heartbeat(Run(t), t) \/ MarkRunReady(Run(t), t))
    BY <1>1, <1>7, ActiveAt DEF Settle, At, Active, vars, Run
  <2>2. QED
    BY <1>1, <2>1, CallsUnbroken
<1>8. ASSUME NEW p \in Project, Reconcile(t, p)
      PROVE  FALSE
  <2>1. PICK k, manifest : k = Run(t) /\ manifest = worker[t].manifest[p]
    OBVIOUS
  <2>2. k \in RunId /\ manifest \in Manifest
    BY <1>8, <2>1, ActiveAt, ReconcileTakes DEF Reconcile, At, Active
  <2>3. ReconcileManifest(k, t, p, manifest)
    BY <1>8, <2>1 DEF Reconcile, Run
  <2>4. QED
    BY <1>1, <2>2, <2>3, CallsUnbroken
<1>9. CASE Commit(t)
  <2>1. CommitPublication(t)
    BY <1>1, <1>9 DEF Commit, RollBackPublication, journalVars
  <2>2. PICK n \in RunId : Publishes(n)
    BY <1>1, <2>1, CommitPublishes
  <2>3. Exists(n) /\ runs' = [runs EXCEPT ![n] = Released(runs[n], "committed")]
    BY <2>2 DEF Publishes, InState
  <2>4. QED
    BY <1>1, <2>3, ReleasedUnbroken
<1>10. CASE \/ \E k \in RunId : StartNamed(t, k)
            \/ Refused(t) \/ Interrupted(t) \/ AllBegun(t) \/ Publish(t) \/ Crash(t)
            \/ \E p \in Project : List(t, p)
            \/ \E d \in Doc : Observe(t, d)
  BY <1>1, <1>10, CrashTakes
     DEF StartNamed, ReportCommitted, Refused, Interrupted, AllBegun, Publish,
         PreparePublication, List, Observe, vars, journalVars
<1>11. ASSUME NEW p \in Project, NEW d \in Doc,
              Begin(t, p, d) \/ Read(t, p, d) \/ Prepare(t, p, d)
       PROVE  FALSE
  BY <1>1, <1>11
     DEF Begin, Read, Prepare, BeginDocument, ResetDocumentPending,
         CheckpointDocument, CheckpointDocumentError, Checkpoint, vars
<1>12. QED
  BY <1>2, <1>3, <1>4, <1>5, <1>6, <1>7, <1>8, <1>9, <1>10, <1>11 DEF Acts, Proceed

\* An invocation never breaks its own run by a call the journal refuses: only a
\* publication with other settings or locators makes a run fail.
THEOREM RunnerFailsByConfiguration == RunnerSafety => FailsOnlyByConfiguration
<1>1. ASSUME RunnerFacts, [RunnerNext]_allVars, NEW r \in RunId,
             ~InState(r, {"failed"}), Exists(r), runs'[r].status = "failed"
      PROVE  \E s \in RunId : InState(s, {"committed"}) /\ Disagree(runs[r], runs[s])
  <2>1. RunnerBase /\ TypeOK /\ SchemaInv /\ SafetyInv
    BY <1>1 DEF RunnerFacts, RunnerBase, SchemaInv
  <2>2. CASE \E t \in Token : Acts(t)
    <3>1. PICK t \in Token : Acts(t) /\ JournalBy(t)
      BY <2>1, <2>2, ActsWorks
    <3>2. runs'[r] # None
      BY <1>1, <2>1, <3>1, CallKeeps DEF Kept, Exists
    <3>3. At(t, "failing") /\ r = Run(t) /\ Owns(t, r)
      BY <1>1, <2>1, <3>1, <3>2, OnlyFailFails DEF Unbroken
    <3>4. Has(t)
      BY <3>3, OwnsHas DEF At, Active
    <3>5. ConfigOK(t)
      BY <1>1, <3>4 DEF RunnerFacts, Knows
    <3>6. QED
      BY <3>3, <3>5 DEF ConfigOK
  <2>3. CASE Overrule
    <3>1. \A k \in RunId : Kept(k)
      BY <2>1, <2>3, OverruleTakes
    <3>2. PICK k \in RunId : LeaseExpires(k) \/ AbandonRun(k) \/ SupersedeRun(k)
      BY <2>3 DEF Overrule
    <3>3. Unbroken(r)
      BY <2>1, <3>2, OverruledUnbroken
    <3>4. QED
      BY <1>1, <3>1, <3>3 DEF Kept, Exists, Unbroken
  <2>4. runs' # runs
    BY <1>1 DEF InState
  <2>5. QED
    BY <1>1, <2>2, <2>3, <2>4
       DEF RunnerNext, Environment, Acts, Edit, Cancel, vars, allVars
<1>2. RunnerFacts /\ [RunnerNext]_allVars =>
        [\A r \in RunId :
          ~InState(r, {"failed"}) /\ Exists(r) /\ runs'[r].status = "failed"
              => \E s \in RunId : InState(s, {"committed"}) /\ Disagree(runs[r], runs[s])
        ]_allVars
  BY <1>1
<1>3. QED
  BY <1>2, RunnerFactsHold, PTL DEF RunnerSafety, FailsOnlyByConfiguration
=============================================================================
