----------------------------- MODULE HybridSearch -----------------------------
(***************************************************************************)
(* One search over a loaded snapshot (search's SearchIndex, VectorStore,   *)
(* query's filters and fusion, the daemon's hybrid_search): dense and      *)
(* compressed lists, a lexical list whose weight adapts, reciprocal-rank   *)
(* fusion, and the units the relations of the best hits lead to.           *)
(* What a model or BM25 thinks of a text is any ranking.                   *)
(***************************************************************************)
EXTENDS Naturals, Sequences, FiniteSets, SequencesExt, FiniteSetsExt

CONSTANTS
    Corpus,         \* the units of the snapshot, in its order
    StoredLinks,    \* the sequences of relations an analyzer may have stored
    StoredVectors,  \* [Hash -> {"none", "one", "two", "misshapen"}], some of them
    Asks,           \* the searches asked for
    Scores,         \* how near texts may be to a query: a set [Hash -> Nat]
    Candidates,     \* depth of a list; five times the limit, at least 50, in the code
    SeedCount,      \* 10 in the code
    AgreementDepth, \* 5 in the code
    MaxHits,        \* bounds what the lexical index finds
    Missing

Unit == DOMAIN Corpus
Hash == {Corpus[u].hash : u \in Unit}

ASSUME SearchAssumption ==
    /\ Corpus \in Seq(ToSet(Corpus)) /\ Missing \notin Nat
    /\ \A stored \in StoredLinks : stored \in Seq(ToSet(stored))
    /\ StoredVectors \subseteq [Hash -> {"none", "one", "two", "misshapen"}]
    /\ Scores \subseteq [Hash -> Nat]
    /\ \A a \in Asks : {a.words, a.limit} \subseteq Nat
    /\ {Candidates, SeedCount, AgreementDepth} \subseteq Nat \ {0} /\ MaxHits \in Nat

VARIABLES
    stage,    \* where the search is
    ask,      \* SearchParams
    store,    \* VectorStore: the hash behind each row, the row of each unit
    links,    \* SearchIndex.relations
    nearness, \* the scores behind the last dense list
    lists,    \* the ranked lists to fuse
    fused,    \* the ranking
    seeds     \* history: the ranking before the graph list

searchVars == <<stage, ask, store, links, nearness, lists, fused, seeds>>

Take(s, n) == SubSeq(s, 1, IF n < Len(s) THEN n ELSE Len(s))

\* The elements of s that are in S, in their order.
Filtered(s, S) ==
    LET filtered[n \in 0 .. Len(s)] ==
          IF n = 0 THEN <<>>
          ELSE IF s[n] \in S THEN Append(filtered[n - 1], s[n]) ELSE filtered[n - 1]
    IN filtered[Len(s)]

\* A sort: each element of S once.
InOrder(S, Before(_, _)) ==
    CHOOSE s \in SetToSeqs(S) : \A i, j \in DOMAIN s : i < j => Before(s[i], s[j])

(* Filters *****************************************************************)

\* The fourth disjunct stands for the conventions on paths and names.
LooksLikeTest(u) ==
    \/ Corpus[u].kind = "test"
    \/ Corpus[u].scope = "tests"
    \/ Corpus[u].testName

\* apply_tests_policy over an explicit tests= clause.
TestsPolicy(a) ==
    IF a.filter.tests # Missing THEN a.filter.tests
    ELSE IF a.tests = Missing THEN "exclude" ELSE a.tests

\* WhereFilter::matches; kinds stands for every clause of equal values.
Matches(a, u) ==
    /\ a.filter.kinds = {} \/ Corpus[u].kind \in a.filter.kinds
    /\ a.filter.scopes = {} \/ Corpus[u].scope \in a.filter.scopes \ {Missing}
    /\ Corpus[u].nodes >= a.filter.minNodes
    /\ TestsPolicy(a) = "exclude" => ~LooksLikeTest(u)
    /\ TestsPolicy(a) = "only" => LooksLikeTest(u)

(* The index ***************************************************************)

\* Faulty: the first unit whose name fits.
FragmentParentsByName(f) ==
    {u \in Unit : u # f /\ Corpus[u].name = Corpus[f].name /\ Corpus[u].kind # "fragment"}

\* fragment_parent: the first unit that contains the fragment and is no fragment.
FragmentParents(f) ==
    {u \in Unit :
        /\ u # f /\ Corpus[u].kind # "fragment"
        /\ Corpus[u].file = Corpus[f].file
        /\ Corpus[u].name = Corpus[f].name  \* the fragment's, before its #
        /\ Corpus[u].start <= Corpus[f].start /\ Corpus[u].end >= Corpus[f].end}
FragmentParent(f) ==
    IF Corpus[f].kind = "fragment" /\ FragmentParents(f) # {}
    THEN Min(FragmentParents(f)) ELSE Missing

Fragments == Filtered([u \in Unit |-> u], {u \in Unit : FragmentParent(u) # Missing})
PartOf ==
    [i \in DOMAIN Fragments |->
        [from |-> Corpus[Fragments[i]].entity, to |-> Corpus[FragmentParent(Fragments[i])].entity]]

\* from_snapshot refuses vectors of another width or not finite, and hashes twice.
Malformed(vectors) == \E h \in Hash : vectors[h] \in {"two", "misshapen"}

\* One turn of VectorStore::from_unit_vectors: a unit without a vector has no row.
StoresUnit(vectors, s, u) ==
    IF vectors[Corpus[u].hash] = "none"
    THEN [rows |-> s.rows, unitRow |-> Append(s.unitRow, Missing)]
    ELSE [rows |-> Append(s.rows, Corpus[u].hash), unitRow |-> Append(s.unitRow, Len(s.rows) + 1)]

EmptyStore == [rows |-> <<>>, unitRow |-> <<>>]
StoreOf(vectors) ==
    LET stored[n \in 0 .. Len(Corpus)] ==
          IF n = 0 THEN EmptyStore ELSE StoresUnit(vectors, stored[n - 1], n)
    IN stored[Len(Corpus)]

Embedded(u) == store.unitRow[u] # Missing
VectorOf(u) == store.rows[store.unitRow[u]]

(* Rankings ****************************************************************)

\* rank_candidates over the filtered, embedded units: ties by position.
RankCandidates(near, a) ==
    InOrder({u \in Unit : Matches(a, u) /\ Embedded(u)},
            LAMBDA u, v : \/ near[VectorOf(u)] > near[VectorOf(v)]
                          \/ near[VectorOf(u)] = near[VectorOf(v)] /\ u < v)

\* Faulty: keeps a later unit of equal score.
RanksBeforeLater(near, u, v) ==
    \/ near[VectorOf(u)] > near[VectorOf(v)]
    \/ near[VectorOf(u)] = near[VectorOf(v)] /\ u > v

\* pair_ranks_before.
RanksBefore(near, u, v) ==
    \/ near[VectorOf(u)] > near[VectorOf(v)]
    \/ near[VectorOf(u)] = near[VectorOf(v)] /\ u < v

\* One turn of top_k_between: insertion into a list of the best k so far.
KeepsBest(near, a, k, best, u) ==
    IF ~Matches(a, u) \/ ~Embedded(u) THEN best
    ELSE IF Len(best) = k /\ ~RanksBefore(near, u, best[k]) THEN best
    ELSE Take(InsertAt(best, Cardinality({i \in DOMAIN best : RanksBefore(near, best[i], u)}) + 1,
                       u), k)

\* top_k_between for one unit of `from`.
TopK(near, a, k) ==
    LET best[n \in 0 .. Len(Corpus)] ==
          IF n = 0 THEN <<>> ELSE KeepsBest(near, a, k, best[n - 1], n)
    IN best[Len(Corpus)]

\* lexical_search and the lookup by version: a hit the snapshot does not know
\* drops, the filter comes after the limit of the store.
LexicalList(hits, a) ==
    Take(Filtered(Take(hits, 2 * Candidates), {u \in Unit : Matches(a, u)}), Candidates)

\* compress_query: too short, too few terms or nothing to leave out give none.
Compressible(a) ==
    /\ a.compress \in {"auto", "always"}
    /\ a.compress = "auto" => a.words >= 25
    /\ a.terms >= 4 /\ ~a.compact

(* Fusion ******************************************************************)

K == 60
Scale == 61 * 62 * 63 * 64  \* exact reciprocals of the first four ranks, rounded ones below
Tenths(weight, rank) == weight * (Scale \div (K + rank))

Rank(list, u) == CHOOSE i \in DOMAIN list.units : list.units[i] = u
Contribution(list, u) ==
    IF u \in ToSet(list.units) THEN Tenths(list.weight, Rank(list, u)) ELSE 0
Score(ls, u) ==
    LET sum[n \in 0 .. Len(ls)] ==
          IF n = 0 THEN 0 ELSE sum[n - 1] + Contribution(ls[n], u)
    IN sum[Len(ls)]

\* reciprocal_rank_fusion.
ReciprocalRankFusion(ls) ==
    LET score == [u \in UNION {ToSet(ls[i].units) : i \in DOMAIN ls} |-> Score(ls, u)] IN
    InOrder(DOMAIN score,
            LAMBDA u, v : score[u] > score[v] \/ (score[u] = score[v] /\ u < v))

\* Faulty: always the full weight.
FullLexicalWeight(dense, lexical, words) == 10

\* adaptive_lexical_weight, in tenths.
AdaptiveLexicalWeight(dense, lexical, words) ==
    IF \/ words < 6 \/ dense = <<>> \/ lexical = <<>>
       \/ dense[1] \in ToSet(Take(lexical, AgreementDepth))
    THEN 10 ELSE 4

ListsOf(source) == {i \in DOMAIN lists : lists[i].source = source}
Units(source) == IF ListsOf(source) = {} THEN <<>> ELSE lists[Min(ListsOf(source))].units
Joined(source, weight, units) ==
    IF units = <<>> THEN lists
    ELSE Append(lists, [source |-> source, weight |-> weight, units |-> units])

(* The graph ***************************************************************)

\* by_entity keeps the last unit of an entity.
UnitOf(e) ==
    LET of == {u \in Unit : Corpus[u].entity = e} IN
    IF of = {} THEN Missing ELSE Max(of)

Neighbor(seed, link) ==
    IF link.from = Corpus[seed].entity THEN UnitOf(link.to)
    ELSE IF link.to = Corpus[seed].entity THEN UnitOf(link.from)
    ELSE Missing

\* Faulty: a seed may reach a seed.
ReachableSeeds(from) ==
    {u \in Unit : \E i \in DOMAIN from, j \in DOMAIN links : Neighbor(from[i], links[j]) = u}

Reachable(from) ==
    {u \in Unit \ ToSet(from) :
        \E i \in DOMAIN from, j \in DOMAIN links : Neighbor(from[i], links[j]) = u}

\* The places, of a seed and a link, where u is found.
Edges(from, u) ==
    {e \in (DOMAIN from) \X (DOMAIN links) : Neighbor(from[e[1]], links[e[2]]) = u}
Earlier(e, f) == e[1] < f[1] \/ (e[1] = f[1] /\ e[2] < f[2])

\* expand_by_relations: by the number of edges from seeds, then by discovery.
ExpandByRelations(from) ==
    Take(InOrder(Reachable(from),
                 LAMBDA u, v :
                     \/ Cardinality(Edges(from, u)) > Cardinality(Edges(from, v))
                     \/ /\ Cardinality(Edges(from, u)) = Cardinality(Edges(from, v))
                        /\ \E e \in Edges(from, u) : \A f \in Edges(from, v) : Earlier(e, f)),
         Candidates)

\* Faulty: adds what the relations lead to as it is.
GraphListUnfiltered(from, a) == ExpandByRelations(from)

GraphList(from, a) == Filtered(ExpandByRelations(from), {u \in Unit : Matches(a, u)})

(* A search ****************************************************************)

SearchInit ==
    /\ stage = "load" /\ ask \in Asks
    /\ store = EmptyStore /\ links = <<>>
    /\ nearness = [h \in Hash |-> 0]
    /\ lists = <<>> /\ fused = <<>> /\ seeds = <<>>

DenseWanted == ask.retrieval # "lexical" /\ ask.space # Missing

\* resolve_task and the lookup of the space, given, configured or the only one.
Resolvable(a) ==
    a.task # "unknown" /\ (a.retrieval = "lexical" \/ a.space # "gone")

\* render_input of a query: what the model's prompt contract does with the task.
QueryRenders(a) ==
    /\ a.prompts \in {"symmetric", "prefixes"} => a.task = Missing
    /\ a.prompts = "instruction" => a.task # Missing
    /\ a.prompts = "paired" => a.task = "profile"

LoadsSnapshot ==
    /\ stage = "load"
    /\ \E vectors \in StoredVectors, stored \in StoredLinks :
         IF Malformed(vectors) THEN stage' = "failed" /\ UNCHANGED <<store, links>>
         ELSE /\ store' = StoreOf(vectors)
              /\ links' = stored \o PartOf
              /\ stage' = "resolve"
    /\ UNCHANGED <<ask, nearness, lists, fused, seeds>>

ResolvesTask ==
    /\ stage = "resolve"
    /\ stage' = IF Resolvable(ask) THEN "dense" ELSE "failed"
    /\ UNCHANGED <<ask, store, links, nearness, lists, fused, seeds>>

RanksDense ==
    /\ stage = "dense"
    /\ IF DenseWanted /\ QueryRenders(ask)
       THEN \E near \in Scores :
              /\ nearness' = near
              /\ lists' = Joined("dense", 10, Take(RankCandidates(near, ask), Candidates))
       ELSE UNCHANGED <<nearness, lists>>
    /\ stage' = IF DenseWanted /\ ~QueryRenders(ask) THEN "failed" ELSE "compressed"
    /\ UNCHANGED <<ask, store, links, fused, seeds>>

RanksCompressed ==
    /\ stage = "compressed"
    /\ IF DenseWanted /\ Compressible(ask)
       THEN \E near \in Scores :
              /\ nearness' = near
              /\ lists' = Joined("dense-compressed", 7,
                                 Take(RankCandidates(near, ask), Candidates))
       ELSE UNCHANGED <<nearness, lists>>
    /\ stage' = "lexical"
    /\ UNCHANGED <<ask, store, links, fused, seeds>>

RanksLexical ==
    /\ stage = "lexical"
    /\ IF ask.retrieval = "dense" THEN UNCHANGED lists
       ELSE \E n \in 0 .. MaxHits : \E hits \in [1 .. n -> Unit \cup {Missing}] :
              /\ \A i, j \in 1 .. n : hits[i] = hits[j] => i = j \/ hits[i] = Missing
              /\ LET found == LexicalList(hits, ask) IN
                 lists' = Joined("lexical",
                                 AdaptiveLexicalWeight(Units("dense"), found, ask.words), found)
    /\ stage' = "fuse"
    /\ UNCHANGED <<ask, store, links, nearness, fused, seeds>>

Fuses ==
    /\ stage = "fuse"
    /\ fused' = ReciprocalRankFusion(lists)
    /\ seeds' = Take(fused', SeedCount)
    /\ stage' = "expand"
    /\ UNCHANGED <<ask, store, links, nearness, lists>>

Expands ==
    /\ stage = "expand"
    /\ IF ask.graph /\ GraphList(seeds, ask) # <<>>
       THEN /\ lists' = Joined("graph", 5, GraphList(seeds, ask))
            /\ fused' = ReciprocalRankFusion(lists')
       ELSE UNCHANGED <<lists, fused>>
    /\ stage' = "shaped"
    /\ UNCHANGED <<ask, store, links, nearness, seeds>>

SearchNext ==
    \/ LoadsSnapshot \/ ResolvesTask \/ RanksDense \/ RanksCompressed
    \/ RanksLexical \/ Fuses \/ Expands

SearchSpec == SearchInit /\ [][SearchNext]_searchVars

\* shape_results: what is shown, each fragment with its parent.
Shown == [i \in DOMAIN Take(fused, ask.limit) |->
             [unit |-> fused[i], parent |-> FragmentParent(fused[i])]]

(* Properties **************************************************************)

Position(s, u) == CHOOSE i \in DOMAIN s : s[i] = u

\* A question whose lexical hits do not contain the best dense hit near their
\* top loses that hit's place to no unit that only words or edges suggest.
DenseTopHolds ==
    LET dense == Units("dense") IN
    /\ dense # <<>> /\ ask.words >= 6
    /\ dense[1] \notin ToSet(Take(Units("lexical"), AgreementDepth))
    => \A i \in 1 .. (Position(fused, dense[1]) - 1) :
           fused[i] \in ToSet(dense) \cup ToSet(Units("dense-compressed"))

\* The graph adds units around the seeds and never reorders or drops a seed.
SeedsKeepOrder ==
    /\ ToSet(seeds) \subseteq ToSet(fused)
    /\ \A i, j \in DOMAIN seeds :
         i < j => Position(fused, seeds[i]) < Position(fused, seeds[j])

\* Whatever list brought a hit in, the filter admits it, and it is shown once.
HitsAdmitted == IsInjective(fused) /\ \A i \in DOMAIN fused : Matches(ask, fused[i])

\* A fragment is shown with a unit that contains it, and brings it in, if its
\* entity names this unit and nothing that the seeds lead to is cut off.
FragmentsBringParents ==
    /\ \A i \in DOMAIN Shown :
         LET p == Shown[i].parent IN
         p # Missing => /\ Corpus[p].file = Corpus[fused[i]].file
                        /\ Corpus[p].start <= Corpus[fused[i]].start
                        /\ Corpus[fused[i]].end <= Corpus[p].end
    /\ ask.graph => \A i \in DOMAIN seeds :
         LET p == FragmentParent(seeds[i]) IN
         /\ p # Missing /\ Matches(ask, p)
         /\ UnitOf(Corpus[p].entity) = p /\ Cardinality(Reachable(seeds)) <= Candidates
         => p \in ToSet(fused)

\* The bounded insertion of top_k_between "matches the previous
\* sort-and-truncate exactly", each unit scored by its own vector.
TopKIsSortAndTruncate ==
    /\ \A u \in Unit : Embedded(u) => VectorOf(u) = Corpus[u].hash
    /\ \A k \in 1 .. 3 : TopK(nearness, ask, k) = Take(RankCandidates(nearness, ask), k)

\* Units are ranked by their own vectors; fusing the rankings of several sources
\* and expanding them keeps what each source was confident of, and lets in
\* nothing that was not asked for.
RankingIsSound ==
    /\ stage = "lexical" => TopKIsSortAndTruncate
    /\ stage = "shaped" =>
         DenseTopHolds /\ SeedsKeepOrder /\ HitsAdmitted /\ FragmentsBringParents

=============================================================================
