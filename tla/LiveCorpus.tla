----------------------------- MODULE LiveCorpus -----------------------------
(***************************************************************************)
(* What works on the published corpus of one project while publications    *)
(* go on: the embedding loop (indexer's embed.rs), enrichment through a    *)
(* language server (lsp) and snapshots (sqlite).  A document has one unit, *)
(* which is its entity; a text is named by its hash, a number, and its     *)
(* implementation is the channel that is embedded.  Rows are the rowids of *)
(* files, units and the lexical index, which SQLite hands out again.       *)
(* Publication is the transaction of RunJournal, here with its rows; each  *)
(* other step is one statement or transaction, one file or one backend.    *)
(***************************************************************************)
EXTENDS Naturals, FiniteSets, FiniteSetsExt

CONSTANTS
    Doc,         \* documents, numbers in the order they are published in
    Text,        \* contents, numbered as their hashes are ordered
    Embedder,    \* embedding runs
    ModelOf,     \* [Embedder -> ...]: the contract of their backend
    Enricher,    \* enrichment runs
    Reader,      \* snapshots
    Sources,     \* SUBSET [Doc -> Text or None]: what was published first
    Retention,   \* SUBSET BOOLEAN: whether the corpus may keep contents
    PageSize,    \* pending_page_size
    BatchSize,   \* items of a batch
    None,
    MaxPublish,  \* generations, the first included
    MaxEdits,    \* edits of a source that no publication follows at once
    MaxPasses    \* embedding runs, enrichments and snapshots that begin

ASSUME CorpusAssumption ==
    /\ Doc \subseteq Nat \ {0} /\ Text \subseteq Nat \ {0} /\ None \notin Nat
    /\ IsFiniteSet(Doc) /\ IsFiniteSet(Text)
    /\ Sources \subseteq [Doc -> Text \cup {None}] /\ Retention \subseteq BOOLEAN
    /\ PageSize \in Nat \ {0} /\ BatchSize \in Nat \ {0}
    /\ MaxPublish \in Nat \ {0} /\ MaxEdits \in Nat /\ MaxPasses \in Nat
    /\ \A e \in Embedder : ModelOf[e] # None

VARIABLES
    source,     \* [Doc -> Text or None]: the files
    retained,   \* RetentionMode::Full, fixed by the first publication
    row,        \* [Doc -> Row or None]: files, code_units, representations
    lexical,    \* lexical_index
    generation,
    vectors,    \* embeddings of the space
    space,      \* embedding_spaces: the contract of the space, or None
    relations,
    embedder, enricher, reader,
    edits, passes,
    published,  \* history: what each generation published
    steady,     \* history: hashes that are live since an embedding run began
    raced       \* history: enrichments during which a publication was made

storeVars == <<retained, row, lexical, generation, vectors, space, relations>>
passVars == <<embedder, enricher, reader>>
history == <<published, steady, raced>>
vars == <<source, storeVars, passVars, edits, passes, history>>

Signature == [of : Doc, raced : BOOLEAN]
Row == [id : Nat, text : Text, signature : Signature \cup {None}]
ASSUME NoneAssumption == None \notin Row \cup Signature
Unit == [doc : Doc, id : Nat]
Relation == [generation : Nat, from : Doc, to : Doc]
Vector == [hash : Text, text : Text, model : {ModelOf[e] : e \in Embedder}]

LiveDocs == {d \in Doc : row[d] # None}
LiveTexts == {row[d].text : d \in LiveDocs}
Embedded == {v.hash : v \in vectors}
RowsOf(corpus) == {[doc |-> d, text |-> corpus[d].text] : d \in {x \in Doc : corpus[x] # None}}
Largest(n, S) == {x \in S : Cardinality({y \in S : y > x}) < n}
Smallest(n, S) == {x \in S : Cardinality({y \in S : y < x}) < n}

(* Publication *************************************************************)

\* The documents whose action is an upsert or a delete.
Replaced == {d \in Doc : IF row[d] = None THEN source[d] # None
                         ELSE source[d] # row[d].text}
Kept == [d \in Doc |-> IF d \in Replaced THEN None ELSE row[d]]
LastId(rows) == Max({rows[d].id : d \in {x \in Doc : rows[x] # None}} \cup {0})

\* Faulty: a unit with a reused id meets what a deleted one left.
FreshKept(d, id) ==
    [id |-> id, text |-> source[d],
     signature |-> IF \E x \in LiveDocs : row[x].id = id
                   THEN (CHOOSE s \in {row[x].signature : x \in {y \in LiveDocs : row[y].id = id}} : TRUE)
                   ELSE None]

\* Deleting a file cascades to its units and their representations.
Fresh(d, id) == [id |-> id, text |-> source[d], signature |-> None]

\* All deletions first, then the insertions in document order, each with the
\* rowid after the largest.
Inserted ==
    [d \in Doc |->
        IF d \in Replaced /\ source[d] # None
        THEN Fresh(d, LastId(Kept) +
                 Cardinality({x \in Replaced : x <= d /\ source[x] # None}))
        ELSE Kept[d]]

\* Faulty: the index is left to cascade as well, which it does not.
LexicalAfterCascade(rows) ==
    {x \in lexical : \A d \in Doc : rows[d] # None => rows[d].id # x.id} \cup
    {[id |-> rows[d].id, text |-> rows[d].text] : d \in {x \in Doc : rows[x] # None}}

\* The rows of replaced documents are cleared before their files are deleted.
LexicalAfter(rows) ==
    {x \in lexical : \A d \in Replaced : row[d] # None => row[d].id # x.id} \cup
    {[id |-> rows[d].id, text |-> rows[d].text] :
        d \in {x \in Replaced : source[x] # None}}

\* The sweep of embeddings whose hash no representation has any more, made
\* only if a document was replaced.
Swept(rows) ==
    IF Replaced = {} THEN vectors
    ELSE {v \in vectors : \E d \in Doc : rows[d] # None /\ rows[d].text = v.hash}

Publish ==
    /\ generation < MaxPublish
    /\ row' = Inserted
    /\ lexical' = LexicalAfter(Inserted)
    /\ vectors' = Swept(Inserted)
    /\ generation' = generation + 1
    /\ published' = [published EXCEPT ![generation + 1] = RowsOf(Inserted)]
    /\ steady' = [e \in Embedder |-> steady[e] \cap {x.text : x \in RowsOf(Inserted)}]
    /\ raced' = {n \in Enricher : enricher[n].at # "new"}
    /\ UNCHANGED <<source, retained, space, relations, passVars, edits, passes>>

(* Embedding ***************************************************************)

\* batch: what the backend embeds now; todo: the rest of the page, with the
\* texts it resolved to.
EmbedderState ==
    [at : {"new", "space", "creating", "page", "locate", "recover", "batch", "insert", "done",
           "failed"},
     after : Nat, missing : SUBSET Text, located : SUBSET Doc,
     todo : SUBSET [hash : Text, text : Text], batch : SUBSET [hash : Text, text : Text],
     unresolved : SUBSET Text]
NewEmbedder == [at |-> "new", after |-> 0, missing |-> {}, located |-> {},
                todo |-> {}, batch |-> {}, unresolved |-> {}]
Failed == [NewEmbedder EXCEPT !.at = "failed"]
EmbedderAt(e, place) == embedder[e].at = place
Embeds(e, s) == embedder' = [embedder EXCEPT ![e] = s]
EmbedOnly == UNCHANGED <<source, retained, row, lexical, generation, relations,
                         enricher, reader, edits, published, raced>>

Begins == passes < MaxPasses /\ passes' = passes + 1

BeginEmbedding(e) ==
    /\ EmbedderAt(e, "new") /\ Begins
    /\ Embeds(e, [embedder[e] EXCEPT !.at = "space"])
    /\ steady' = [steady EXCEPT ![e] = LiveTexts]
    /\ EmbedOnly /\ UNCHANGED <<vectors, space>>

\* Faulty: a space is found by its name alone.
AcceptsAnySpace(e) == space # None

\* find_or_create_space, the read: another contract under the id is an error.
AcceptsSpace(e) == space # None /\ space = ModelOf[e]

FindSpace(e) ==
    /\ EmbedderAt(e, "space")
    /\ Embeds(e, IF space = None THEN [embedder[e] EXCEPT !.at = "creating"]
                 ELSE IF AcceptsSpace(e) THEN [embedder[e] EXCEPT !.at = "page"]
                 ELSE Failed)
    /\ EmbedOnly /\ UNCHANGED <<vectors, space, steady, passes>>

\* The insertion, which fails if the space was created in between.
CreateSpace(e) ==
    /\ EmbedderAt(e, "creating")
    /\ \/ space = None /\ space' = ModelOf[e]
          /\ Embeds(e, [embedder[e] EXCEPT !.at = "page"])
       \/ space # None /\ UNCHANGED space /\ Embeds(e, Failed)
    /\ EmbedOnly /\ UNCHANGED <<vectors, steady, passes>>

Pending(e) == {h \in LiveTexts \ Embedded : h > embedder[e].after}

\* Faulty: the page is ordered the other way.
PageDescending(e) == Largest(PageSize, Pending(e))

PageOf(e) == Smallest(PageSize, Pending(e))

\* The cursor is the last hash of the page.
Cursor(e) == Max(PageOf(e))

\* unembedded_hashes_page.  Contents that were not kept have to be recovered.
ReadPage(e) ==
    /\ EmbedderAt(e, "page")
    /\ IF PageOf(e) = {} THEN Embeds(e, [embedder[e] EXCEPT !.at = "done"])
       ELSE Embeds(e, [embedder[e] EXCEPT
            !.at = IF retained THEN "batch" ELSE "locate",
            !.after = Cursor(e),
            !.missing = IF retained THEN {} ELSE PageOf(e),
            !.todo = IF retained THEN {[hash |-> h, text |-> h] : h \in PageOf(e)} ELSE {}])
    /\ EmbedOnly /\ UNCHANGED <<vectors, space, steady, passes>>

\* locations_for_content_hashes: one document of each hash that still has one.
Locate(e) ==
    /\ EmbedderAt(e, "locate")
    /\ \E found \in SUBSET LiveDocs :
         /\ \A h \in embedder[e].missing \cap LiveTexts : \E d \in found : row[d].text = h
         /\ Cardinality(found) = Cardinality(embedder[e].missing \cap LiveTexts)
         /\ {row[d].text : d \in found} \subseteq embedder[e].missing
         /\ Embeds(e, [embedder[e] EXCEPT !.at = "recover", !.located = found])
    /\ EmbedOnly /\ UNCHANGED <<vectors, space, steady, passes>>

\* Faulty: what a file holds now is taken for what was indexed.
RecoveredUnchecked(e) ==
    {x \in [hash : embedder[e].missing, text : Text] :
        \E d \in embedder[e].located : source[d] = x.text}

\* recover_channel_texts: the files are extracted again and count by their hash.
Recovered(e) ==
    {[hash |-> h, text |-> h] :
        h \in {source[d] : d \in embedder[e].located} \cap embedder[e].missing}

Recover(e) ==
    /\ EmbedderAt(e, "recover")
    /\ LET found == Recovered(e) IN
         Embeds(e, [embedder[e] EXCEPT
            !.at = "batch", !.missing = {}, !.located = {}, !.todo = found,
            !.unresolved = @ \cup (embedder[e].missing \ {x.hash : x \in found})])
    /\ EmbedOnly /\ UNCHANGED <<vectors, space, steady, passes>>

\* pack_batches: longest first, here the larger numbers; the backend may fail.
TakeBatch(e) ==
    /\ EmbedderAt(e, "batch")
    /\ LET hashes == Largest(BatchSize, {x.hash : x \in embedder[e].todo})
           batch == {x \in embedder[e].todo : x.hash \in hashes} IN
         IF batch = {} THEN Embeds(e, [embedder[e] EXCEPT !.at = "page"])
         ELSE \/ Embeds(e, [embedder[e] EXCEPT
                    !.at = "insert", !.batch = batch, !.todo = @ \ batch])
              \/ Embeds(e, Failed)
    /\ EmbedOnly /\ UNCHANGED <<vectors, space, steady, passes>>

\* Faulty: whatever was embedded is stored.
StorableAll(x) == x.hash \notin Embedded

\* insert_embeddings: not twice, and not if no representation has the hash.
Storable(x) == x.hash \in LiveTexts \ Embedded

InsertBatch(e) ==
    /\ EmbedderAt(e, "insert")
    /\ vectors' = vectors \cup {[hash |-> x.hash, text |-> x.text, model |-> ModelOf[e]] :
                                x \in {y \in embedder[e].batch : Storable(y)}}
    /\ Embeds(e, [embedder[e] EXCEPT !.at = "batch", !.batch = {}])
    /\ EmbedOnly /\ UNCHANGED <<space, steady, passes>>

Embed(e) ==
    \/ BeginEmbedding(e) \/ FindSpace(e) \/ CreateSpace(e) \/ ReadPage(e) \/ Locate(e)
    \/ Recover(e) \/ TakeBatch(e) \/ InsertBatch(e)

(* Enrichment **************************************************************)

EnricherState ==
    [at : {"new", "files", "units", "hover", "relations", "done", "failed"},
     generation : Nat, unlisted : SUBSET Nat, units : SUBSET Unit, unhovered : SUBSET Unit]
NewEnricher == [at |-> "new", generation |-> 0, unlisted |-> {}, units |-> {},
                unhovered |-> {}]
EnricherAt(n, place) == enricher[n].at = place
Enriches(n, s) == enricher' = [enricher EXCEPT ![n] = s]
EnrichOnly == UNCHANGED <<source, retained, lexical, generation, vectors, space,
                          embedder, reader, edits, published, steady>>

\* enrich_project looks at the generation first ...
BeginEnrichment(n) ==
    /\ EnricherAt(n, "new") /\ Begins
    /\ Enriches(n, [enricher[n] EXCEPT !.at = "files", !.generation = generation])
    /\ raced' = raced \ {n}
    /\ EnrichOnly /\ UNCHANGED <<row, relations>>

\* ... then lists the files ...
ListFiles(n) ==
    /\ EnricherAt(n, "files")
    /\ Enriches(n, [enricher[n] EXCEPT
            !.at = "units", !.unlisted = {row[d].id : d \in LiveDocs}])
    /\ EnrichOnly /\ UNCHANGED <<row, relations, passes, raced>>

\* ... and then the units of each, by the id of the file.
ListUnits(n) ==
    /\ EnricherAt(n, "units")
    /\ IF enricher[n].unlisted = {}
       THEN Enriches(n, [enricher[n] EXCEPT !.at = "hover", !.unhovered = enricher[n].units])
       ELSE LET id == Min(enricher[n].unlisted) IN
            Enriches(n, [enricher[n] EXCEPT
                !.unlisted = @ \ {id},
                !.units = @ \cup {[doc |-> d, id |-> id] :
                                  d \in {x \in LiveDocs : row[x].id = id}}])
    /\ EnrichOnly /\ UNCHANGED <<row, relations, passes, raced>>

\* upsert_representation by the id of the unit, which may be gone, and then is
\* an error, or be the id of another unit; or the server has no hover for it.
Hover(n) ==
    /\ EnricherAt(n, "hover") /\ enricher[n].unhovered # {}
    /\ \E u \in enricher[n].unhovered :
         LET targets == {d \in LiveDocs : row[d].id = u.id}
             next == [enricher[n] EXCEPT !.unhovered = @ \ {u}] IN
         \/ /\ targets # {}
            /\ row' = [d \in Doc |->
                  IF d \in targets
                  THEN [row[d] EXCEPT !.signature = [of |-> u.doc, raced |-> n \in raced]]
                  ELSE row[d]]
            /\ Enriches(n, next)
         \/ /\ targets = {}
            /\ Enriches(n, [NewEnricher EXCEPT !.at = "failed"])
            /\ UNCHANGED row
         \/ Enriches(n, next) /\ UNCHANGED row
    /\ EnrichOnly /\ UNCHANGED <<relations, passes, raced>>

Hovered(n) ==
    /\ EnricherAt(n, "hover") /\ enricher[n].unhovered = {}
    /\ Enriches(n, [enricher[n] EXCEPT !.at = "relations"])
    /\ EnrichOnly /\ UNCHANGED <<row, relations, passes, raced>>

\* Faulty: the relations are those of the generation at the end.
GenerationNow(n) == generation

\* The relations are those of the generation the pass began with.
GenerationOf(n) == enricher[n].generation

\* replace_relations, of the one server there is.
Relate(n) ==
    /\ EnricherAt(n, "relations")
    /\ LET g == GenerationOf(n)
           seen == {u.doc : u \in enricher[n].units} IN
         relations' = {r \in relations : r.generation # g} \cup
                      [generation : {g}, from : seen, to : seen]
    /\ Enriches(n, [NewEnricher EXCEPT !.at = "done"])
    /\ EnrichOnly /\ UNCHANGED <<row, passes, raced>>

Enrich(n) == BeginEnrichment(n) \/ ListFiles(n) \/ ListUnits(n) \/ Hover(n)
             \/ Hovered(n) \/ Relate(n)

(* Snapshots ***************************************************************)

Listed == [doc : Doc, text : Text]
DatabaseState ==
    [units : SUBSET Listed, vectors : SUBSET Vector, generation : Nat,
     relations : SUBSET Relation]
ReaderState ==
    [at : {"new", "vectors", "generation", "relations", "done"}, pinned : DatabaseState,
     units : SUBSET Listed, vectors : SUBSET Text, generation : Nat,
     relations : SUBSET Relation]
Nothing == [units |-> {}, vectors |-> {}, generation |-> 0, relations |-> {}]
Database == [units |-> RowsOf(row), vectors |-> vectors, generation |-> generation,
             relations |-> relations]
NewReader == [at |-> "new", pinned |-> Nothing, units |-> {}, vectors |-> {},
              generation |-> 0, relations |-> {}]
ReaderAt(s, place) == reader[s].at = place
Reads(s, x) == reader' = [reader EXCEPT ![s] = x]
ReadOnly == UNCHANGED <<source, storeVars, embedder, enricher, edits, history>>

\* Faulty: every statement is a transaction of its own.
SeesLatest(s) == Database

\* A deferred transaction sees what its first statement saw.
Sees(s) == reader[s].pinned

ReadUnits(s) ==
    /\ ReaderAt(s, "new") /\ Begins
    /\ Reads(s, [reader[s] EXCEPT !.at = "vectors", !.pinned = Database,
                                  !.units = Database.units])
    /\ ReadOnly

\* The vectors of each space that a unit refers to.
ReadVectors(s) ==
    /\ ReaderAt(s, "vectors")
    /\ Reads(s, [reader[s] EXCEPT !.at = "generation",
            !.vectors = {v.hash : v \in Sees(s).vectors} \cap {u.text : u \in reader[s].units}])
    /\ ReadOnly /\ UNCHANGED passes

ReadGeneration(s) ==
    /\ ReaderAt(s, "generation")
    /\ Reads(s, [reader[s] EXCEPT !.at = "relations", !.generation = Sees(s).generation])
    /\ ReadOnly /\ UNCHANGED passes

ReadRelations(s) ==
    /\ ReaderAt(s, "relations")
    /\ Reads(s, [reader[s] EXCEPT !.at = "done", !.pinned = Nothing,
            !.relations = {r \in Sees(s).relations : r.generation = reader[s].generation}])
    /\ ReadOnly /\ UNCHANGED passes

Snapshot(s) == ReadUnits(s) \/ ReadVectors(s) \/ ReadGeneration(s) \/ ReadRelations(s)

(* The files, and the whole ************************************************)

Edit(d, text) ==
    /\ edits < MaxEdits /\ source[d] # text
    /\ source' = [source EXCEPT ![d] = text]
    /\ edits' = edits + 1
    /\ UNCHANGED <<storeVars, passVars, passes, history>>

\* Right after the first publication.
Init ==
    /\ source \in Sources
    /\ retained \in Retention
    /\ row = [d \in Doc |->
          IF source[d] = None THEN None
          ELSE [id |-> Cardinality({x \in Doc : x <= d /\ source[x] # None}),
                text |-> source[d], signature |-> None]]
    /\ lexical = {[id |-> row[d].id, text |-> row[d].text] : d \in LiveDocs}
    /\ generation = 1 /\ vectors = {} /\ space = None /\ relations = {}
    /\ embedder = [e \in Embedder |-> NewEmbedder]
    /\ enricher = [n \in Enricher |-> NewEnricher]
    /\ reader = [s \in Reader |-> NewReader]
    /\ edits = 0 /\ passes = 0
    /\ published = [g \in 1 .. MaxPublish |-> IF g = 1 THEN RowsOf(row) ELSE {}]
    /\ steady = [e \in Embedder |-> {}]
    /\ raced = {}

Next ==
    \/ Publish
    \/ \E d \in Doc : \E text \in Text \cup {None} : Edit(d, text)
    \/ \E e \in Embedder : Embed(e)
    \/ \E n \in Enricher : Enrich(n)
    \/ \E s \in Reader : Snapshot(s)

Spec == Init /\ [][Next]_vars

(* Properties **************************************************************)

\* Every variable has its type.
CorpusTypeOK ==
    /\ source \in [Doc -> Text \cup {None}] /\ retained \in BOOLEAN
    /\ row \in [Doc -> Row \cup {None}]
    /\ lexical \subseteq [id : Nat, text : Text]
    /\ generation \in 1 .. MaxPublish
    /\ vectors \subseteq Vector
    /\ space \in {ModelOf[e] : e \in Embedder} \cup {None}
    /\ relations \subseteq Relation
    /\ embedder \in [Embedder -> EmbedderState]
    /\ enricher \in [Enricher -> EnricherState]
    /\ reader \in [Reader -> ReaderState]
    /\ edits \in Nat /\ passes \in Nat
    /\ published \in [1 .. MaxPublish -> SUBSET Listed]
    /\ steady \in [Embedder -> SUBSET Text]
    /\ raced \subseteq Enricher

\* Nothing outlives the unit it was derived from.  Neither a sweep that ran
\* before a batch was stored nor a hash that was published away while the
\* backend embedded it leaves a vector behind, and lexical search finds every
\* unit under its own text, whoever had its row id before.
NothingOutlivesItsUnit ==
    /\ Embedded \subseteq LiveTexts
    /\ lexical = {[id |-> row[d].id, text |-> row[d].text] : d \in LiveDocs}

\* A vector was computed from the text its hash names, under the contract of
\* its space, even if files changed before their text was recovered and another
\* run with another model had the same idea at the same time.
VectorsMeanTheirHash ==
    \A v \in vectors : v.text = v.hash /\ v.model = space

\* An embedding run that ends has embedded every hash that was live all along,
\* or counted it as unresolved, whatever was published between its pages.
FinishedEmbeddingIsComplete ==
    \A e \in Embedder : EmbedderAt(e, "done") =>
        steady[e] \subseteq Embedded \cup embedder[e].unresolved

\* A snapshot is one generation: its units are those its generation published,
\* its vectors and relations are of them.
SnapshotIsOneGeneration ==
    \A s \in Reader : ReaderAt(s, "done") =>
        /\ reader[s].units = published[reader[s].generation]
        /\ \A r \in reader[s].relations :
             {r.from, r.to} \subseteq {u.doc : u \in reader[s].units}

\* What an enrichment pass stored is of the units it was computed for: the
\* relations of a generation connect its units, and, unless a publication
\* overtook the pass, deleted units leave no signature to whoever gets their ids.
AnalysisIsOfItsUnits ==
    /\ \A r \in relations : r.generation = generation => {r.from, r.to} \subseteq LiveDocs
    /\ \A d \in LiveDocs : row[d].signature # None =>
         row[d].signature.of = d \/ row[d].signature.raced

=============================================================================
