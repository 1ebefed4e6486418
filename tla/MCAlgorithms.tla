---------------------------- MODULE MCAlgorithms ----------------------------
(***************************************************************************)
(* Small instances of what one caller runs by itself: a search, the        *)
(* chunking of a text and of a document, a sequence of edits, a pass of    *)
(* the embedding loop; and of the two caches that several share, the index *)
(* of searches and the directory of a model.  An execution is of one of    *)
(* them, the subject, chosen initially.                                    *)
(***************************************************************************)
EXTENDS HybridSearch, ProseChunks, UnitIdentity, BatchPacking, SearchCache, ModelCache, TLC

CONSTANTS s1, s2, p1, p2, l1, l2

VARIABLE subject

(* A search ****************************************************************)

Stored(kind, name, file, start, end, scope, hash) ==
    [kind |-> kind, name |-> name, file |-> file, start |-> start, end |-> end,
     scope |-> scope, hash |-> hash, nodes |-> end - start, testName |-> FALSE,
     entity |-> <<file, name, kind>>]

\* Equal code in two files, a fragment of one of them, and a test.
SmallCorpus ==
    <<Stored("function", "f", "other", 0, 9, Missing, "h1"),
      Stored("function", "f", "file", 0, 9, Missing, "h1"),
      Stored("fragment", "f", "file", 4, 6, Missing, "h2"),
      Stored("test", "t", "file", 10, 12, "tests", "h3")>>

Edge(u, v) == [from |-> SmallCorpus[u].entity, to |-> SmallCorpus[v].entity]
Unresolved == [from |-> SmallCorpus[1].entity, to |-> Missing]
SomeLinks == {<<>>, <<Edge(1, 2), Unresolved>>, <<Edge(2, 1), Edge(4, 3), Edge(1, 2)>>}

V(a, b, c) ==
    [h \in {"h1", "h2", "h3"} |-> IF h = "h1" THEN a ELSE IF h = "h2" THEN b ELSE c]
SomeVectors ==
    {V("one", "one", "one"), V("none", "one", "one"), V("one", "none", "two"),
     V("one", "one", "none"), V("misshapen", "one", "one")}
AllScores == [{"h1", "h2", "h3"} -> 0 .. 1]

\* No rank of a list is rounded.
ASSUME ScaleAssumption == Len(Corpus) <= 4

Anything == [kinds |-> {}, scopes |-> {}, minNodes |-> 0, tests |-> Missing]
Question ==
    [filter |-> Anything, tests |-> Missing, words |-> 6, terms |-> 4, compact |-> FALSE,
     compress |-> "auto", retrieval |-> "hybrid", space |-> "stored", graph |-> TRUE,
     task |-> "profile", prompts |-> "paired", limit |-> 2]
SomeAsks ==
    {[Question EXCEPT !.tests = t] : t \in {Missing, "include", "only"}} \cup
    {[Question EXCEPT !.words = 25], [Question EXCEPT !.words = 5],
     [Question EXCEPT !.compress = "always", !.graph = FALSE],
     [Question EXCEPT !.retrieval = "lexical", !.filter.tests = "include"],
     [Question EXCEPT !.retrieval = "dense", !.filter.kinds = {"function"}],
     [Question EXCEPT !.space = Missing, !.filter.scopes = {"tests"}, !.tests = "include"],
     [Question EXCEPT !.compress = "off", !.filter.minNodes = 3, !.words = 25],
     [Question EXCEPT !.task = "unknown"], [Question EXCEPT !.space = "gone"],
     [Question EXCEPT !.prompts = "symmetric"]}

(* Texts and documents *****************************************************)

SmallCharacters ==
    {<<"letter">>, <<"letter", "rest">>, <<"space">>, <<"newline">>, <<"period">>}
AllCharacters == SmallCharacters \cup {<<"letter", "blank rest", "rest">>}
SmallOptions ==
    {[target |-> 1, min |-> 1, overlap |-> 0], [target |-> 2, min |-> 2, overlap |-> 1],
     [target |-> 3, min |-> 2, overlap |-> 0]}
AllLines == {"h1", "h2", "h3", "text", "blank", "dashes", "ticks", "tildes"}

(* Sources *****************************************************************)

Entity(symbol, body, start, end) ==
    [symbol |-> symbol, name |-> IF symbol = "m.f" THEN "f" ELSE symbol,
     body |-> body, start |-> start, end |-> end]
Call(at, callee) == [at |-> at, callee |-> callee]

SomeBodies(n) ==
    CASE n = 1 -> {<<"a">>, <<"b">>} [] n = 2 -> {<<"a", "a">>, <<"a", "b">>}
      [] n = 3 -> {<<"a", "a", "b">>, <<"a", "b", "a">>}
Flat(n) ==
    {[entities |-> [i \in 1 .. n |-> Entity(s[i], b[i], 2 * i, 2 * i + 2)],
      calls |-> <<Call(2 * n, "f")>>] :
        s \in [1 .. n -> {"f", "m.f"}], b \in SomeBodies(n)}
Nested ==
    [entities |-> <<Entity("g", "b", 1, 9), Entity("f", "a", 4, 6)>>,
     calls |-> <<Call(5, "g"), Call(7, "f"), Call(0, "f")>>]
Other ==
    [entities |-> <<Entity("h", "a", 1, 9), Entity("f", "a", 4, 6), Entity("k", "b", 4, 8)>>,
     calls |-> <<Call(5, "f"), Call(5, "g"), Call(8, "h")>>]
\* The fragment "g.g#1" ends inside f.
Fragmented ==
    [entities |-> <<Entity("g", "b", 1, 9), Entity("g.g#1", "a", 2, 6), Entity("f", "a", 4, 8)>>,
     calls |-> <<Call(5, "g"), Call(3, "f"), Call(7, "h")>>]
SmallSources == "one" :> (Flat(1) \cup Flat(2) \cup Flat(3) \cup {Nested, Fragmented}) @@ "two" :> {Other}

(* Batches *****************************************************************)

SmallTexts == UNION {[1 .. n -> [chars : {1, 3}, tokens : {1, 3}]] : n \in 1 .. 4}
Local == [items |-> 3, chars |-> 5, area |-> 8, page |-> 3, prompts |-> "plain",
          own |-> Unmeasured, padded |-> TRUE]
SmallSettings ==
    {Local, [Local EXCEPT !.page = 4, !.chars = 9, !.area = 9],
     [Local EXCEPT !.own = [items |-> 4, chars |-> 4], !.padded = FALSE],
     [Local EXCEPT !.prompts = "paired"]}
SomeMemory == {0, 2, Unmeasured}

(* Models ******************************************************************)

Decoder == [pooling |-> "last", weights |-> Weights, decoder |-> TRUE, compatible |-> TRUE]
SomeRepositories ==
    {Decoder, [Decoder EXCEPT !.pooling = "undeclared"], [Decoder EXCEPT !.decoder = FALSE],
     [Decoder EXCEPT !.pooling = "mean", !.weights = {"safetensors"}],
     [Decoder EXCEPT !.compatible = FALSE]}

(* One of them *************************************************************)

Subjects == {"search", "prose", "identity", "batches", "cache", "model"}

AlgorithmsInit ==
    /\ subject \in Subjects
    /\ IF subject = "search" THEN SearchInit ELSE SearchInit /\ ask = Question
    /\ IF subject = "prose" THEN ProseInit ELSE ProseInit /\ options.target = 2
    /\ IdentityInit
    /\ IF subject = "batches" THEN PackingInit
       ELSE PackingInit /\ setting = Local /\ texts = <<[chars |-> 1, tokens |-> 1]>>
    /\ Init
    /\ IF subject = "model" THEN CacheInit ELSE CacheInit /\ repository = Decoder

Of(s, Step) == subject = s /\ Step

AlgorithmsNext ==
    /\ UNCHANGED subject
    /\ \/ Of("search", SearchNext) /\ UNCHANGED <<proseVars, identityVars, packingVars, vars, cacheVars>>
       \/ Of("prose", ProseNext) /\ UNCHANGED <<searchVars, identityVars, packingVars, vars, cacheVars>>
       \/ Of("identity", IdentityNext) /\ UNCHANGED <<searchVars, proseVars, packingVars, vars, cacheVars>>
       \/ Of("batches", PackingNext) /\ UNCHANGED <<searchVars, proseVars, identityVars, vars, cacheVars>>
       \/ Of("cache", Next) /\ UNCHANGED <<searchVars, proseVars, identityVars, packingVars, cacheVars>>
       \/ Of("model", CacheNext)
          /\ UNCHANGED <<searchVars, proseVars, identityVars, packingVars, vars>>

AlgorithmsSpec ==
    AlgorithmsInit
    /\ [][AlgorithmsNext]_<<subject, searchVars, proseVars, identityVars, packingVars, vars,
                            cacheVars>>

Symmetry == Permutations(Search) \cup Permutations(Publisher) \cup Permutations(Loader)
=============================================================================
