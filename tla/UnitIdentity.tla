----------------------------- MODULE UnitIdentity -----------------------------
(***************************************************************************)
(* What stays the same when a document changes: the entity ids its units   *)
(* take over from their predecessors (indexer's assign_identity), the unit *)
(* each call belongs to (prepare_document), and the usage of every unit of *)
(* the project, rebuilt by each publication (rebuild_usage).  Documents    *)
(* are published one after another; what a source says is chosen anew.     *)
(* An entity id is what it was minted from.                                *)
(***************************************************************************)
EXTENDS Naturals, Sequences, FiniteSets, SequencesExt, FiniteSetsExt

CONSTANTS
    Document,
    Source  \* [Document -> SUBSET SourceText]: what a document may say

\* In the order of extraction: symbol is the kind, scope and name of an entity,
\* name what symbol_name makes of its name, body its kind and normalized body.
Extracted == [symbol : STRING, name : STRING, body : STRING, start : Nat, end : Nat]
CallSite == [at : Nat, callee : STRING]
SourceText == [entities : Seq(Extracted), calls : Seq(CallSite)]

\* extract_units sorts by where spans begin, then by where they end.  They need not
\* nest: a fragment may end inside a unit that begins in it.
SortedBySpan(entities) ==
    \A i, j \in DOMAIN entities :
        i < j => \/ entities[i].start < entities[j].start
                 \/ entities[i].start = entities[j].start /\ entities[i].end <= entities[j].end

\* Prose is not sorted, and has no calls.
ASSUME SourceAssumption ==
    /\ Source \in [Document -> SUBSET SourceText]
    /\ \A d \in Document : \A source \in Source[d] :
          source.calls # <<>> => SortedBySpan(source.entities)

VARIABLES
    units,  \* [Document -> Seq(Unit)]: code_units in the order of their ids
    calls,  \* [Document -> SUBSET [caller, callee]]: references_raw, the caller by its position
    usage,  \* the usage representations, by document and position
    spoken  \* history: the source each document was last published from

identityVars == <<units, calls, usage, spoken>>

NoSource == [entities |-> <<>>, calls |-> <<>>]

(* Identity ****************************************************************)

IdsOf(prior, places) == {prior[i].id : i \in places}

\* list_units_for_file: in the order of the first byte.
Until(prior, j, i) ==
    prior[j].start < prior[i].start \/ (prior[j].start = prior[i].start /\ j <= i)

\* by_key keeps the last unit of a symbol.
SameSymbol(prior, e) ==
    LET bearers == {i \in DOMAIN prior : prior[i].symbol = e.symbol}
    IN {i \in bearers : \A j \in bearers : Until(prior, j, i)}

SameBody(prior, e) == {i \in DOMAIN prior : prior[i].body = e.body}

Mint(d, e) == [document |-> d, symbol |-> e.symbol, start |-> e.start]

\* Faulty: an id may be taken over twice.
AvailableTwice(prior, places, consumed) == places

Available(prior, places, consumed) == {i \in places : prior[i].id \notin consumed}

\* Faulty: the body decides before the symbol.
MatchedByBody(prior, e, consumed) ==
    LET body == Available(prior, SameBody(prior, e), consumed) IN
    IF Cardinality(body) = 1 THEN IdsOf(prior, body)
    ELSE IdsOf(prior, Available(prior, SameSymbol(prior, e), consumed))

\* Faulty: guesses among equal bodies.
MatchedGuess(prior, e, consumed) ==
    LET symbol == Available(prior, SameSymbol(prior, e), consumed)
        body == Available(prior, SameBody(prior, e), consumed) IN
    IF symbol # {} THEN IdsOf(prior, symbol)
    ELSE IF body # {} THEN {prior[Min(body)].id} ELSE {}

\* The exact symbol, else the only body left like this one.
Matched(prior, e, consumed) ==
    LET symbol == Available(prior, SameSymbol(prior, e), consumed)
        body == Available(prior, SameBody(prior, e), consumed) IN
    IF symbol # {} THEN IdsOf(prior, symbol)
    ELSE IF Cardinality(body) = 1 THEN IdsOf(prior, body) ELSE {}

\* The ids that the first entities have taken over.
Consumed(prior, entities) ==
    LET consumed[n \in 0 .. Len(entities)] ==
          IF n = 0 THEN {}
          ELSE consumed[n - 1] \cup Matched(prior, entities[n], consumed[n - 1])
    IN consumed

\* What entity n takes over: an id or nothing.
Taken(prior, entities, n) ==
    Matched(prior, entities[n], Consumed(prior, entities)[n - 1])

Identified(e, id) ==
    [symbol |-> e.symbol, name |-> e.name, body |-> e.body,
     start |-> e.start, end |-> e.end, id |-> id]

\* assign_identity: one pass, in the order of extraction.
AssignIdentity(d, entities) ==
    [n \in DOMAIN entities |->
        LET taken == Taken(units[d], entities, n)
        IN Identified(entities[n], IF taken = {} THEN Mint(d, entities[n])
                                    ELSE CHOOSE id \in taken : TRUE)]

(* Calls and usage *********************************************************)

Around(entities, at) ==
    {i \in DOMAIN entities : entities[i].start <= at /\ at < entities[i].end}

\* Faulty: the first unit around the call.
CallerFirst(entities, at) == Min(Around(entities, at))

\* prepare_document: the unit around the call that begins last, the first of equals.
Caller(entities, at) ==
    LET around == Around(entities, at)
        latest == {i \in around : \A j \in around : entities[j].start <= entities[i].start}
    IN Min(latest)

\* The calls that are in a unit.
Attributed(source) ==
    {[caller |-> Caller(source.entities, c.at), callee |-> c.callee] :
        c \in {call \in Range(source.calls) : Around(source.entities, call.at) # {}}}

Place(us) == UNION {{<<d, i>> : i \in DOMAIN us[d]} : d \in Document}
At(us, p) == us[p[1]][p[2]]

\* Faulty: the callers of one document replace those of another.
UsageOfOne(us, cs, p) ==
    LET lines(d) ==
          {[caller |-> At(us, <<d, c.caller>>).symbol, callee |-> c.callee] :
              c \in {call \in cs[d] : call.callee = At(us, p).name /\ <<d, call.caller>> # p}}
        callers == {d \in Document : lines(d) # {}}
    IN IF callers = {} THEN {} ELSE lines(CHOOSE d \in callers : TRUE)

\* Every call of the project to the name of a unit, but its own; the caller
\* by its qualified name.
UsageOf(us, cs, p) ==
    UNION {{[caller |-> At(us, <<d, c.caller>>).symbol, callee |-> c.callee] :
              c \in {call \in cs[d] : call.callee = At(us, p).name /\ <<d, call.caller>> # p}} :
           d \in Document}

\* Faulty: only the usage of the units published now.
RebuildUsageOf(us, cs, d) ==
    [p \in Place(us) |-> IF p[1] # d /\ p \in DOMAIN usage THEN usage[p] ELSE UsageOf(us, cs, p)]

\* rebuild_usage: of the whole project, after any publication.
RebuildUsage(us, cs, d) == [p \in Place(us) |-> UsageOf(us, cs, p)]

(* Publications ************************************************************)

IdentityInit ==
    /\ units = [d \in Document |-> <<>>] /\ calls = [d \in Document |-> {}]
    /\ usage = [p \in {} |-> {}]
    /\ spoken = [d \in Document |-> NoSource]

Publishes(d, source) ==
    /\ units' = [units EXCEPT ![d] = AssignIdentity(d, source.entities)]
    /\ calls' = [calls EXCEPT ![d] = Attributed(source)]
    /\ usage' = RebuildUsage(units', calls', d)
    /\ spoken' = [spoken EXCEPT ![d] = source]

Deletes(d) ==
    /\ units[d] # <<>>
    /\ Publishes(d, NoSource)

IdentityNext == \E d \in Document : Deletes(d) \/ \E s \in Source[d] : Publishes(d, s)

IdentitySpec == IdentityInit /\ [][IdentityNext]_identityVars

(* Properties **************************************************************)

Reminted(u, d) == u.id = Mint(d, u)

\* Two units of the corpus share an entity id only when an id was carried to a
\* renamed or moved unit and a new one appeared where the id was first minted:
\* whatever is published in whatever order, no id is taken over twice.
IdsCollideOnlyByReminting ==
    \A p, q \in Place(units) :
        p # q /\ At(units, p).id = At(units, q).id =>
            /\ p[1] = q[1]
            /\ Reminted(At(units, p), p[1]) \/ Reminted(At(units, q), q[1])

Sole(s, i, T(_, _)) == \A j \in DOMAIN s : T(s[j], s[i]) => j = i
SameSymbols(u, v) == u.symbol = v.symbol
SameBodies(u, v) == u.body = v.body
SameIds(u, v) == u.id = v.id

\* then[j] and now[i] bear a symbol that each has once: the id stays, unless a
\* unit above, whose body it also is, has taken it.
SymbolKeepsItsId(d, then, now, j, i) ==
    SameSymbols(then[j], now[i]) /\ Sole(then, j, SameSymbols) /\ Sole(then, j, SameIds) =>
        \E k \in 1 .. i : now[k].id = then[j].id /\ (SameSymbols(now[k], then[j]) \/ SameBodies(now[k], then[j]))

\* A body that each has once, under a symbol that is gone and one that is new.
RenameKeepsItsId(d, then, now, j, i) ==
    /\ SameBodies(then[j], now[i]) /\ Sole(then, j, SameBodies) /\ Sole(now, i, SameBodies)
    /\ Sole(then, j, SameIds)
    /\ \A k \in DOMAIN now : ~SameSymbols(then[j], now[k])
    /\ \A k \in DOMAIN then : ~SameSymbols(then[k], now[i])
    => now[i].id = then[j].id

\* Bodies that several units had, and a new symbol above everything else.
NobodyGuesses(d, then, now, i) ==
    /\ i = 1 /\ \A k \in DOMAIN then : ~SameSymbols(then[k], now[i])
    /\ Cardinality({then[k].id : k \in {m \in DOMAIN then : SameBodies(then[m], now[i])}}) > 1
    => Reminted(now[i], d)

EntitiesKept(d, then, now) ==
    \A i \in DOMAIN now :
        /\ NobodyGuesses(d, then, now, i)
        /\ \A j \in DOMAIN then :
             SymbolKeepsItsId(d, then, now, j, i) /\ RenameKeepsItsId(d, then, now, j, i)

\* An edit lets a unit keep its entity: by its symbol, through a rename by its
\* body, and never by a guess between equal bodies.
IdentityFollowsUnits ==
    [][\A d \in Document : units'[d] # units[d] => EntitiesKept(d, units[d], units'[d])]_identityVars

\* u is a smaller span, inside that of v.
Inside(u, v) ==
    /\ v.start <= u.start /\ u.end <= v.end
    /\ <<u.start, u.end>> # <<v.start, v.end>>

\* The units around a call that have no other one around it inside them.
Innermost(entities, at) ==
    {i \in Around(entities, at) :
        \A j \in Around(entities, at) : ~Inside(entities[j], entities[i])}

\* The calls that a document's published source makes in some unit, and of each
\* the unit it is attributed to and its line of usage.
CallsMade(d) ==
    {c \in DOMAIN spoken[d].calls : Around(spoken[d].entities, spoken[d].calls[c].at) # {}}
CallerOf(d, c) == Caller(spoken[d].entities, spoken[d].calls[c].at)
LineOf(d, c) ==
    [caller |-> spoken[d].entities[CallerOf(d, c)].symbol, callee |-> spoken[d].calls[c].callee]

\* Call c of document d is to the name of the unit at p, and not its own.
Mentions(d, c, p) ==
    spoken[d].calls[c].callee = At(units, p).name /\ <<d, CallerOf(d, c)>> # p

\* The usage of a unit has a line for each caller that the sources published last
\* have, and no other line, whichever document was published before or after
\* which; and a call belongs to an innermost unit around it, also where a fragment
\* and a unit overlap.
UsageIsOfThePublishedSources ==
    /\ DOMAIN usage = Place(units)
    /\ \A d \in Document : \A c \in CallsMade(d) :
          /\ CallerOf(d, c) \in Innermost(spoken[d].entities, spoken[d].calls[c].at)
          /\ \A p \in Place(units) : Mentions(d, c, p) => LineOf(d, c) \in usage[p]
    /\ \A p \in Place(units) : \A line \in usage[p] :
          \E d \in Document : \E c \in CallsMade(d) : Mentions(d, c, p) /\ line = LineOf(d, c)

=============================================================================
