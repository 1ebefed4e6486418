-------------------------- MODULE AlgorithmsProofs --------------------------
(***************************************************************************)
(* What callers run by themselves, and the caches that several share.      *)
(*                                                                         *)
(* Entity ids, for any documents and sources: what one pass takes over,    *)
(* entity by entity, grows and is never taken again (TakenOnce), so an id  *)
(* occurs twice only where it was minted again; and the usage of a unit is *)
(* of the calls that the sources published last have.                      *)
(*                                                                         *)
(* The warm search index, for any number of searches and writers: the      *)
(* files always show every commit (SearchTypeOK), and an index is built    *)
(* after its stamp was read, so it is at least as new as anything the      *)
(* stamp shows (CacheHonest).                                              *)
(*                                                                         *)
(* Trust on first use, for any number of loaders, loads, versions and      *)
(* crashes.  The invariant (CacheInv) is about the files that were neither *)
(* touched while they were fetched nor left by a crash: one loader at most *)
(* fetches such a file, it is in the cache as it first was, and every      *)
(* lockfile, the one on disk and those in memory, has that hash or none.   *)
(*                                                                         *)
(* The batches of a pass, for any store, limits and memory: the loop cuts  *)
(* a page into batches that keep the limits and leave out nothing that     *)
(* would have fitted (PackBatchesCuts, by induction over the turns of the  *)
(* loop), the order of a page names each of its hashes once (ByLengthIs),  *)
(* and what is embedded is what the pages so far named, but for what is    *)
(* left of this one (PassInv).                                             *)
(*                                                                         *)
(* The chunks of a text and the sections of a document, of any length and  *)
(* for any options.  Ranges lead from one end of a span to the other, each *)
(* of them short or around a long word (Tiles): a hard cut yields such     *)
(* ranges (HardCutTiles), a level of packing does if the level below does  *)
(* (PackedTiles, by induction over the offsets of the span, with what lies *)
(* between the last cut and the point looked at), and merging keeps them   *)
(* (MergedTiles).  A line is in one section at most (OneSection).          *)
(***************************************************************************)
EXTENDS UnitIdentity, SearchCache, ModelCache, BatchPacking, ProseChunks, Induction,
        FiniteSetTheorems, SequenceTheorems, TLAPS

-----------------------------------------------------------------------------
(* Units.                                                                  *)

Identity == [document : Document, symbol : STRING, start : Nat]
Unit == [symbol : STRING, name : STRING, body : STRING, start : Nat, end : Nat, id : Identity]

-----------------------------------------------------------------------------
(* Identity.                                                               *)

\* What an entity takes over is one id, of a unit with its symbol or body,
\* and was not taken before.
LEMMA MatchedIs ==
    ASSUME NEW prior \in Seq(Unit), NEW e \in Extracted, NEW consumed,
           NEW id \in Matched(prior, e, consumed)
    PROVE  /\ id \notin consumed
           /\ Matched(prior, e, consumed) = {id}
           /\ \E p \in DOMAIN prior :
                 prior[p].id = id /\ (prior[p].symbol = e.symbol \/ prior[p].body = e.body)
<1> DEFINE symbol == Available(prior, SameSymbol(prior, e), consumed)
           body == Available(prior, SameBody(prior, e), consumed)
<1>1. Len(prior) \in Nat /\ DOMAIN prior = 1 .. Len(prior)
  OBVIOUS
<1>2. ASSUME NEW p \in DOMAIN prior PROVE prior[p].start \in Nat /\ p \in Nat
  <2>1. prior[p] \in Unit
    OBVIOUS
  <2>2. QED
    BY <1>1, <2>1 DEF Unit
<1>3. /\ symbol \subseteq {p \in DOMAIN prior : prior[p].symbol = e.symbol}
      /\ body \subseteq {p \in DOMAIN prior : prior[p].body = e.body}
      /\ \A p \in symbol \cup body : prior[p].id \notin consumed
  BY DEF Available, SameSymbol, SameBody
<1>4. ASSUME NEW p \in symbol, NEW q \in symbol PROVE p = q
  <2>1. Until(prior, p, q) /\ Until(prior, q, p)
    BY DEF Available, SameSymbol
  <2>2. QED
    BY <1>2, <1>3, <2>1 DEF Until
<1>5. IsFiniteSet(body)
  <2>1. IsFiniteSet(1 .. Len(prior))
    BY <1>1, FS_Interval
  <2>2. body \subseteq 1 .. Len(prior)
    BY <1>1, <1>3
  <2>3. QED
    BY <2>1, <2>2, FS_Subset
<1>6. Matched(prior, e, consumed) =
        IF symbol # {} THEN IdsOf(prior, symbol)
        ELSE IF Cardinality(body) = 1 THEN IdsOf(prior, body) ELSE {}
  BY DEF Matched
<1> HIDE DEF symbol, body
<1>7. \E p \in symbol \cup body :
         id = prior[p].id /\ Matched(prior, e, consumed) = {prior[p].id}
  <2>1. CASE symbol # {}
    <3>1. PICK p \in symbol : symbol = {p}
      BY <1>4, <2>1
    <3>2. Matched(prior, e, consumed) = {prior[p].id}
      BY <1>6, <2>1, <3>1 DEF IdsOf
    <3>3. QED
      BY <3>2
  <2>2. CASE symbol = {}
    <3>1. Cardinality(body) = 1
      BY <1>6, <2>2
    <3>2. PICK p : body = {p}
      BY <1>5, <3>1, FS_Singleton
    <3>3. Matched(prior, e, consumed) = {prior[p].id}
      BY <1>6, <2>2, <3>1, <3>2 DEF IdsOf
    <3>4. QED
      BY <3>2, <3>3
  <2>3. QED
    BY <2>1, <2>2
<1>8. QED
  BY <1>3, <1>7

LEMMA MatchedIn ==
    ASSUME NEW prior, NEW e, NEW consumed
    PROVE  Matched(prior, e, consumed) \subseteq IdsOf(prior, DOMAIN prior)
<1>1. /\ Available(prior, SameSymbol(prior, e), consumed) \subseteq DOMAIN prior
      /\ Available(prior, SameBody(prior, e), consumed) \subseteq DOMAIN prior
  BY DEF Available, SameSymbol, SameBody
<1>2. \A places \in SUBSET DOMAIN prior : IdsOf(prior, places) \subseteq IdsOf(prior, DOMAIN prior)
  BY DEF IdsOf
<1>3. QED
  BY <1>1, <1>2 DEF Matched

\* The ids taken over are those of the entities above and what this one takes.
LEMMA ConsumedIs ==
    ASSUME NEW prior, NEW entities \in Seq(Extracted)
    PROVE  /\ Consumed(prior, entities)[0] = {}
           /\ \A n \in 1 .. Len(entities) :
                 Consumed(prior, entities)[n] =
                   Consumed(prior, entities)[n - 1] \cup Taken(prior, entities, n)
<1> DEFINE N == Len(entities)
           T == SUBSET IdsOf(prior, DOMAIN prior)
           F == [p \in (1 .. N) \X T |-> p[2] \cup Matched(prior, entities[p[1]], p[2])]
<1>1. N \in Nat
  OBVIOUS
<1>2. F \in [(1 .. N) \X T -> T]
  BY MatchedIn
<1>3. {} \in T
  OBVIOUS
<1>4. PICK g \in [0 .. N -> T] : RecursiveUpTo(g, N, {}, F)
  <2> HIDE DEF T, F, N
  <2>1. QED
    BY <1>1, <1>2, <1>3, RecursionUpTo
<1>5. g[0] = {}
  BY <1>4 DEF RecursiveUpTo
<1>6. ASSUME NEW k \in 1 .. N PROVE g[k] = g[k - 1] \cup Matched(prior, entities[k], g[k - 1])
  <2>1. g[k] = F[<<k, g[k - 1]>>]
    BY <1>4 DEF RecursiveUpTo
  <2>2. g[k - 1] \in T
    BY <1>1
  <2>3. <<k, g[k - 1]>> \in (1 .. N) \X T
    BY <2>2
  <2>4. QED
    BY <2>1, <2>3
<1>7. g = [n \in 0 .. Len(entities) |->
            IF n = 0 THEN {} ELSE g[n - 1] \cup Matched(prior, entities[n], g[n - 1])]
  BY <1>1, <1>5, <1>6
<1> DEFINE C == Consumed(prior, entities)
<1>8. C = [n \in 0 .. Len(entities) |->
            IF n = 0 THEN {} ELSE C[n - 1] \cup Matched(prior, entities[n], C[n - 1])]
  BY <1>7 DEF Consumed
<1> HIDE DEF C
<1>9. C[0] = {} /\ \A n \in 1 .. N : C[n] = C[n - 1] \cup Matched(prior, entities[n], C[n - 1])
  <2> DEFINE D == [n \in 0 .. N |-> IF n = 0 THEN {} ELSE C[n - 1] \cup Matched(prior, entities[n], C[n - 1])]
  <2>1. D[0] = {}
    BY <1>1
  <2>2. ASSUME NEW n \in 1 .. N
        PROVE  D[n] = C[n - 1] \cup Matched(prior, entities[n], C[n - 1])
    BY <1>1
  <2>3. C = D
    BY <1>8
  <2> HIDE DEF D
  <2>4. QED
    BY <2>1, <2>2, <2>3
<1>10. QED
  BY <1>9 DEF C, Taken

\* An id that was taken over was taken by one of the entities above.
LEMMA ConsumedByOne ==
    ASSUME NEW prior, NEW entities \in Seq(Extracted),
           NEW n \in 0 .. Len(entities), NEW id \in Consumed(prior, entities)[n]
    PROVE  \E k \in 1 .. n : id \in Taken(prior, entities, k)
<1> DEFINE C == Consumed(prior, entities)
           S == {m \in 0 .. Len(entities) :
                    id \in C[m] => \E k \in 1 .. m : id \in Taken(prior, entities, k)}
<1>1. Len(entities) \in Nat
  OBVIOUS
<1>2. 0 \in S
  BY ConsumedIs
<1>3. ASSUME NEW m \in 1 .. Len(entities), m - 1 \in S PROVE m \in S
  <2>1. C[m] = C[m - 1] \cup Taken(prior, entities, m)
    BY ConsumedIs
  <2>2. \A k \in 1 .. m - 1 : k \in 1 .. m
    OBVIOUS
  <2>3. m \in 1 .. m
    OBVIOUS
  <2> HIDE DEF C
  <2>4. QED
    BY <1>3, <2>1, <2>2, <2>3
<1>4. 0 .. Len(entities) \subseteq S
  <2> HIDE DEF S
  <2>1. QED
    BY <1>1, <1>2, <1>3, NatUpTo
<1>5. QED
  BY <1>4

\* What was taken over once is taken for good.
LEMMA ConsumedGrows ==
    ASSUME NEW prior, NEW entities \in Seq(Extracted),
           NEW n \in 0 .. Len(entities), NEW m \in 1 .. n
    PROVE  Taken(prior, entities, m) \subseteq Consumed(prior, entities)[n]
<1> DEFINE C == Consumed(prior, entities)
           S == {i \in 0 .. Len(entities) :
                    m <= i => Taken(prior, entities, m) \subseteq C[i]}
<1>1. Len(entities) \in Nat
  OBVIOUS
<1>2. 0 \in S
  OBVIOUS
<1>3. ASSUME NEW i \in 1 .. Len(entities), i - 1 \in S PROVE i \in S
  <2>1. C[i] = C[i - 1] \cup Taken(prior, entities, i)
    BY ConsumedIs
  <2>2. m <= i => m <= i - 1 \/ m = i
    OBVIOUS
  <2> HIDE DEF C
  <2>3. QED
    BY <1>3, <2>1, <2>2
<1>4. 0 .. Len(entities) \subseteq S
  <2> HIDE DEF S
  <2>1. QED
    BY <1>1, <1>2, <1>3, NatUpTo
<1>5. QED
  BY <1>4

\* No id is taken over twice.
LEMMA TakenOnce ==
    ASSUME NEW prior \in Seq(Unit), NEW entities \in Seq(Extracted),
           NEW m \in DOMAIN entities, NEW n \in DOMAIN entities,
           NEW id \in Taken(prior, entities, m), id \in Taken(prior, entities, n)
    PROVE  m = n
<1>1. ASSUME NEW i \in DOMAIN entities, NEW j \in DOMAIN entities, i < j,
             id \in Taken(prior, entities, i), id \in Taken(prior, entities, j)
      PROVE  FALSE
  <2>1. j - 1 \in 0 .. Len(entities) /\ i \in 1 .. j - 1
    BY <1>1
  <2>2. id \in Consumed(prior, entities)[j - 1]
    BY <1>1, <2>1, ConsumedGrows
  <2>3. entities[j] \in Extracted
    OBVIOUS
  <2>4. id \notin Consumed(prior, entities)[j - 1]
    BY <1>1, <2>3, MatchedIs DEF Taken
  <2>5. QED
    BY <2>2, <2>4
<1>2. m < n \/ n < m \/ m = n
  OBVIOUS
<1>3. QED
  BY <1>1, <1>2

\* Every unit is of its entity, with the id that this takes over, or a new one.
IsAssigned(d, prior, entities, now) ==
    /\ now \in Seq(Unit)
    /\ DOMAIN now = DOMAIN entities
    /\ \A n \in DOMAIN entities :
          /\ now[n].symbol = entities[n].symbol
          /\ now[n].name = entities[n].name
          /\ now[n].body = entities[n].body
          /\ now[n].start = entities[n].start
          /\ now[n].id.document = d
          /\ Taken(prior, entities, n) = {} => now[n].id = Mint(d, entities[n])
          /\ Taken(prior, entities, n) # {} => Taken(prior, entities, n) = {now[n].id}

\* The ids of a document are its own.
Owned(d, us) == \A n \in DOMAIN us : us[n].id.document = d

LEMMA Assigned ==
    ASSUME NEW d \in Document, NEW entities \in Seq(Extracted),
           units[d] \in Seq(Unit), Owned(d, units[d])
    PROVE  IsAssigned(d, units[d], entities, AssignIdentity(d, entities))
<1> DEFINE prior == units[d]
           now == AssignIdentity(d, entities)
           Id(n) == IF Taken(prior, entities, n) = {} THEN Mint(d, entities[n])
                    ELSE CHOOSE id \in Taken(prior, entities, n) : TRUE
<1>1. now = [n \in DOMAIN entities |-> Identified(entities[n], Id(n))]
  BY DEF AssignIdentity
<1>2. ASSUME NEW n \in DOMAIN entities
      PROVE  /\ Id(n) \in Identity
             /\ Id(n).document = d
             /\ Taken(prior, entities, n) = {} => Id(n) = Mint(d, entities[n])
             /\ Taken(prior, entities, n) # {} => Taken(prior, entities, n) = {Id(n)}
  <2>1. entities[n] \in Extracted
    OBVIOUS
  <2>2. CASE Taken(prior, entities, n) = {}
    <3>1. Id(n) = Mint(d, entities[n])
      BY <2>2
    <3>2. Mint(d, entities[n]) \in Identity /\ Mint(d, entities[n]).document = d
      BY <2>1 DEF Mint, Identity, Extracted
    <3> HIDE DEF Id
    <3>3. QED
      BY <2>2, <3>1, <3>2
  <2>3. CASE Taken(prior, entities, n) # {}
    <3>1. PICK id \in Taken(prior, entities, n) : TRUE
      BY <2>3
    <3>2. /\ Taken(prior, entities, n) = {id}
          /\ \E p \in DOMAIN prior : prior[p].id = id
      BY <2>1, <3>1, MatchedIs DEF Taken
    <3>3. Id(n) = id
      BY <3>2
    <3>4. PICK p \in DOMAIN prior : prior[p].id = id
      BY <3>2
    <3>5. prior[p] \in Unit
      OBVIOUS
    <3>6. id \in Identity /\ id.document = d
      BY <3>4, <3>5 DEF Unit, Owned
    <3> HIDE DEF Id
    <3>7. QED
      BY <2>3, <3>2, <3>3, <3>6
  <2>4. QED
    BY <2>2, <2>3
<1> HIDE DEF Id, now
<1>3. ASSUME NEW n \in DOMAIN entities
      PROVE  /\ now[n] \in Unit
             /\ now[n].symbol = entities[n].symbol
             /\ now[n].name = entities[n].name
             /\ now[n].body = entities[n].body
             /\ now[n].start = entities[n].start
             /\ now[n].id = Id(n)
  <2>1. now[n] = Identified(entities[n], Id(n))
    BY <1>1
  <2>2. entities[n] \in Extracted
    OBVIOUS
  <2>3. QED
    BY <1>2, <2>1, <2>2 DEF Identified, Extracted, Unit
<1>4. DOMAIN now = DOMAIN entities
  BY <1>1
<1>5. now \in Seq(Unit)
  <2>1. Len(entities) \in Nat /\ DOMAIN entities = 1 .. Len(entities)
    OBVIOUS
  <2>2. now \in [1 .. Len(entities) -> Unit]
    BY <1>1, <1>3, <2>1
  <2>3. QED
    BY <2>1, <2>2
<1>6. QED
  BY <1>2, <1>3, <1>4, <1>5 DEF IsAssigned, now

\* Two units of a document that share an id.
LEMMA CollidingUnits ==
    ASSUME NEW d \in Document, NEW prior \in Seq(Unit), NEW entities \in Seq(Extracted),
           NEW now, IsAssigned(d, prior, entities, now),
           NEW m \in DOMAIN now, NEW n \in DOMAIN now, m # n, now[m].id = now[n].id
    PROVE  Reminted(now[m], d) \/ Reminted(now[n], d)
<1>1. m \in DOMAIN entities /\ n \in DOMAIN entities
  BY DEF IsAssigned
<1>2. ASSUME NEW k \in DOMAIN entities, Taken(prior, entities, k) = {}
      PROVE  Reminted(now[k], d)
  BY <1>2 DEF IsAssigned, Reminted, Mint
<1>3. CASE Taken(prior, entities, m) # {} /\ Taken(prior, entities, n) # {}
  <2>1. now[m].id \in Taken(prior, entities, m) /\ now[m].id \in Taken(prior, entities, n)
    BY <1>1, <1>3 DEF IsAssigned
  <2>2. QED
    BY <1>1, <2>1, TakenOnce
<1>4. QED
  BY <1>1, <1>2, <1>3

-----------------------------------------------------------------------------
(* The invariant.                                                          *)

\* Of the units of a document.
Sound(d, us) ==
    /\ us \in Seq(Unit)
    /\ Owned(d, us)
    /\ \A m, n \in DOMAIN us :
          m # n /\ us[m].id = us[n].id => Reminted(us[m], d) \/ Reminted(us[n], d)

IdentityInv ==
    /\ DOMAIN units = Document
    /\ \A d \in Document : Sound(d, units[d])

LEMMA AssignedSound ==
    ASSUME NEW d \in Document, NEW prior \in Seq(Unit), NEW entities \in Seq(Extracted),
           NEW now, IsAssigned(d, prior, entities, now)
    PROVE  Sound(d, now)
<1>1. now \in Seq(Unit) /\ Owned(d, now)
  BY DEF IsAssigned, Owned
<1>2. QED
  BY <1>1, CollidingUnits DEF Sound

\* A step publishes one document.
LEMMA OnePublication ==
    ASSUME IdentityNext
    PROVE  \E d \in Document, s \in SourceText : Publishes(d, s) /\ (s = NoSource \/ s \in Source[d])
<1>1. NoSource \in SourceText
  BY DEF NoSource, SourceText
<1>2. QED
  BY <1>1, SourceAssumption DEF IdentityNext, Deletes

\* What a publication makes of the units.
LEMMA PublishedUnits ==
    ASSUME IdentityInv, NEW d \in Document, NEW s \in SourceText, Publishes(d, s)
    PROVE  /\ DOMAIN units' = Document
           /\ IsAssigned(d, units[d], s.entities, units'[d])
           /\ \A c \in Document : c # d => units'[c] = units[c]
<1>1. s.entities \in Seq(Extracted)
  BY DEF SourceText
<1>2. units[d] \in Seq(Unit) /\ Owned(d, units[d])
  BY DEF IdentityInv, Sound
<1>3. IsAssigned(d, units[d], s.entities, AssignIdentity(d, s.entities))
  BY <1>1, <1>2, Assigned
<1>4. units' = [units EXCEPT ![d] = AssignIdentity(d, s.entities)]
  BY DEF Publishes
<1>5. QED
  BY <1>3, <1>4 DEF IdentityInv

LEMMA IdentityStep == IdentityInv /\ [IdentityNext]_identityVars => IdentityInv'
<1> SUFFICES ASSUME IdentityInv, [IdentityNext]_identityVars PROVE IdentityInv'
  OBVIOUS
<1>1. ASSUME IdentityNext PROVE IdentityInv'
  <2>1. PICK d \in Document, s \in SourceText : Publishes(d, s)
    BY <1>1, OnePublication
  <2>2. s.entities \in Seq(Extracted) /\ units[d] \in Seq(Unit)
    BY DEF SourceText, IdentityInv, Sound
  <2>3. Sound(d, units'[d])
    BY <2>1, <2>2, PublishedUnits, AssignedSound
  <2>4. \A c \in Document : Sound(c, units'[c])
    BY <2>1, <2>3, PublishedUnits DEF IdentityInv
  <2>5. QED
    BY <2>1, <2>4, PublishedUnits DEF IdentityInv
<1>2. CASE UNCHANGED identityVars
  BY <1>2 DEF identityVars, IdentityInv
<1>3. QED
  BY <1>1, <1>2

LEMMA IdentityBegins == IdentityInit => IdentityInv
<1> SUFFICES ASSUME IdentityInit PROVE IdentityInv
  OBVIOUS
<1>1. ASSUME NEW d \in Document PROVE units[d] = <<>>
  BY DEF IdentityInit
<1>2. ASSUME NEW d \in Document PROVE Sound(d, <<>>)
  BY DEF Sound, Owned
<1>3. DOMAIN units = Document
  BY DEF IdentityInit
<1>4. QED
  BY <1>1, <1>2, <1>3 DEF IdentityInv

LEMMA IdentityKept == IdentitySpec => []IdentityInv
BY IdentityBegins, IdentityStep, PTL DEF IdentitySpec

\* Whatever is published in whatever order, two units share an entity id only
\* where a new unit appeared at the place the id was first minted.
THEOREM IdsAreCarriedOnce == IdentitySpec => []IdsCollideOnlyByReminting
<1>1. ASSUME IdentityInv PROVE IdsCollideOnlyByReminting
  <2>1. SUFFICES ASSUME NEW p \in Place(units), NEW q \in Place(units),
                        p # q, At(units, p).id = At(units, q).id
                 PROVE  /\ p[1] = q[1]
                        /\ Reminted(At(units, p), p[1]) \/ Reminted(At(units, q), q[1])
    BY DEF IdsCollideOnlyByReminting
  <2>2. PICK c \in Document : \E m \in DOMAIN units[c] : p = <<c, m>>
    BY DEF Place
  <2>3. PICK m \in DOMAIN units[c] : p = <<c, m>>
    BY <2>2
  <2>4. PICK d \in Document : \E n \in DOMAIN units[d] : q = <<d, n>>
    BY DEF Place
  <2>5. PICK n \in DOMAIN units[d] : q = <<d, n>>
    BY <2>4
  <2>6. At(units, p) = units[c][m] /\ At(units, q) = units[d][n] /\ p[1] = c /\ q[1] = d
    BY <2>3, <2>5 DEF At
  <2>7. Sound(c, units[c]) /\ Sound(d, units[d])
    BY <1>1 DEF IdentityInv
  <2>8. units[c][m].id.document = c /\ units[d][n].id.document = d
    BY <2>7 DEF Sound, Owned
  <2>9. c = d
    BY <2>1, <2>6, <2>8
  <2>10. m # n
    BY <2>1, <2>3, <2>5, <2>9
  <2>11. Reminted(units[c][m], c) \/ Reminted(units[d][n], d)
    BY <2>1, <2>6, <2>7, <2>9, <2>10 DEF Sound
  <2>12. QED
    BY <2>6, <2>9, <2>11
<1>2. QED
  BY <1>1, IdentityKept, PTL

-----------------------------------------------------------------------------
(* Units keep their entities.                                              *)

\* The unit above n that took an id over, and from whom.
LEMMA TakenAbove ==
    ASSUME NEW d \in Document, NEW prior \in Seq(Unit), NEW entities \in Seq(Extracted),
           NEW now, IsAssigned(d, prior, entities, now),
           NEW n \in DOMAIN now, NEW id \in Consumed(prior, entities)[n - 1]
    PROVE  \E k \in 1 .. n - 1, p \in DOMAIN prior :
              /\ k \in DOMAIN now /\ now[k].id = id /\ prior[p].id = id
              /\ SameSymbols(now[k], prior[p]) \/ SameBodies(now[k], prior[p])
<1>1. n \in 1 .. Len(entities) /\ DOMAIN entities = 1 .. Len(entities) /\ DOMAIN now = DOMAIN entities
  BY DEF IsAssigned
<1>2. n - 1 \in 0 .. Len(entities)
  BY <1>1
<1>3. PICK k \in 1 .. n - 1 : id \in Taken(prior, entities, k)
  BY <1>2, ConsumedByOne
<1>4. k \in DOMAIN entities /\ entities[k] \in Extracted
  BY <1>1
<1>5. PICK p \in DOMAIN prior :
         prior[p].id = id /\ (prior[p].symbol = entities[k].symbol \/ prior[p].body = entities[k].body)
  BY <1>3, <1>4, MatchedIs DEF Taken
<1>6. now[k].id = id
  BY <1>3, <1>4 DEF IsAssigned
<1>7. now[k].symbol = entities[k].symbol /\ now[k].body = entities[k].body
  BY <1>4 DEF IsAssigned
<1>8. QED
  BY <1>1, <1>3, <1>4, <1>5, <1>6, <1>7 DEF SameSymbols, SameBodies

LEMMA SymbolKept ==
    ASSUME NEW d \in Document, NEW prior \in Seq(Unit), NEW entities \in Seq(Extracted),
           NEW now, IsAssigned(d, prior, entities, now),
           NEW j \in DOMAIN prior, NEW i \in DOMAIN now
    PROVE  SymbolKeepsItsId(d, prior, now, j, i)
<1>1. SUFFICES ASSUME SameSymbols(prior[j], now[i]), Sole(prior, j, SameSymbols),
                      Sole(prior, j, SameIds)
               PROVE  \E k \in 1 .. i : /\ now[k].id = prior[j].id
                                        /\ \/ SameSymbols(now[k], prior[j])
                                           \/ SameBodies(now[k], prior[j])
  BY DEF SymbolKeepsItsId
<1> DEFINE C == Consumed(prior, entities)[i - 1]
<1>2. i \in DOMAIN entities /\ i \in Nat \ {0} /\ entities[i] \in Extracted
  BY DEF IsAssigned
<1>3. CASE prior[j].id \in C
  <2>1. PICK k \in 1 .. i - 1, p \in DOMAIN prior :
              /\ k \in DOMAIN now /\ now[k].id = prior[j].id /\ prior[p].id = prior[j].id
              /\ SameSymbols(now[k], prior[p]) \/ SameBodies(now[k], prior[p])
    BY <1>3, TakenAbove
  <2>2. p = j
    BY <1>1, <2>1 DEF Sole, SameIds
  <2>3. k \in 1 .. i
    BY <1>2
  <2>4. QED
    BY <2>1, <2>2, <2>3
<1>4. CASE prior[j].id \notin C
  <2>1. now[i].symbol = entities[i].symbol
    BY <1>2 DEF IsAssigned
  <2>2. {p \in DOMAIN prior : prior[p].symbol = entities[i].symbol} = {j}
    BY <1>1, <2>1 DEF Sole, SameSymbols
  <2>3. Until(prior, j, j)
    <3>1. j \in Nat
      OBVIOUS
    <3>2. QED
      BY <3>1 DEF Until
  <2>4. SameSymbol(prior, entities[i]) = {j}
    BY <2>2, <2>3 DEF SameSymbol
  <2>5. Available(prior, SameSymbol(prior, entities[i]), C) = {j}
    BY <1>4, <2>4 DEF Available
  <2>6. Taken(prior, entities, i) = {prior[j].id}
    BY <2>5 DEF Taken, Matched, IdsOf
  <2>7. now[i].id = prior[j].id
    BY <1>2, <2>6 DEF IsAssigned
  <2>8. i \in 1 .. i
    BY <1>2
  <2>9. SameSymbols(now[i], prior[j])
    BY <1>1 DEF SameSymbols
  <2>10. QED
    BY <2>7, <2>8, <2>9
<1>5. QED
  BY <1>3, <1>4

\* Without a predecessor of its symbol an entity looks for its body.
LEMMA BodyDecides ==
    ASSUME NEW prior \in Seq(Unit), NEW e, NEW consumed,
           \A k \in DOMAIN prior : prior[k].symbol # e.symbol
    PROVE  Matched(prior, e, consumed) =
             IF Cardinality(Available(prior, SameBody(prior, e), consumed)) = 1
             THEN IdsOf(prior, Available(prior, SameBody(prior, e), consumed)) ELSE {}
<1>1. Available(prior, SameSymbol(prior, e), consumed) = {}
  BY DEF Available, SameSymbol
<1>2. QED
  BY <1>1 DEF Matched

LEMMA RenameKept ==
    ASSUME NEW d \in Document, NEW prior \in Seq(Unit), NEW entities \in Seq(Extracted),
           NEW now, IsAssigned(d, prior, entities, now),
           NEW j \in DOMAIN prior, NEW i \in DOMAIN now
    PROVE  RenameKeepsItsId(d, prior, now, j, i)
<1>1. SUFFICES ASSUME SameBodies(prior[j], now[i]), Sole(prior, j, SameBodies),
                      Sole(now, i, SameBodies), Sole(prior, j, SameIds),
                      \A k \in DOMAIN now : ~SameSymbols(prior[j], now[k]),
                      \A k \in DOMAIN prior : ~SameSymbols(prior[k], now[i])
               PROVE  now[i].id = prior[j].id
  BY DEF RenameKeepsItsId
<1> DEFINE C == Consumed(prior, entities)[i - 1]
<1>2. i \in DOMAIN entities /\ i \in Nat \ {0} /\ entities[i] \in Extracted
  BY DEF IsAssigned
<1>3. now[i].symbol = entities[i].symbol /\ now[i].body = entities[i].body
  BY <1>2 DEF IsAssigned
<1>4. prior[j].id \notin C
  <2>1. SUFFICES ASSUME prior[j].id \in C PROVE FALSE
    OBVIOUS
  <2>2. PICK k \in 1 .. i - 1, p \in DOMAIN prior :
              /\ k \in DOMAIN now /\ now[k].id = prior[j].id /\ prior[p].id = prior[j].id
              /\ SameSymbols(now[k], prior[p]) \/ SameBodies(now[k], prior[p])
    BY <2>1, TakenAbove
  <2>3. p = j
    BY <1>1, <2>2 DEF Sole, SameIds
  <2>4. SameBodies(now[k], prior[j])
    BY <1>1, <2>2, <2>3 DEF SameSymbols
  <2>5. k = i
    BY <1>1, <2>2, <2>4 DEF Sole, SameBodies
  <2>6. QED
    BY <1>2, <2>5
<1>5. SameBody(prior, entities[i]) = {j}
  BY <1>1, <1>3 DEF SameBody, Sole, SameBodies
<1>6. Available(prior, SameBody(prior, entities[i]), C) = {j}
  BY <1>4, <1>5 DEF Available
<1>7. Cardinality({j}) = 1
  BY FS_Singleton
<1>8. Taken(prior, entities, i) = {prior[j].id}
  <2>1. \A k \in DOMAIN prior : prior[k].symbol # entities[i].symbol
    BY <1>1, <1>3 DEF SameSymbols
  <2>2. Matched(prior, entities[i], C) = IdsOf(prior, {j})
    BY <1>6, <1>7, <2>1, BodyDecides
  <2>3. QED
    BY <2>2 DEF Taken, IdsOf
<1>9. QED
  BY <1>2, <1>8 DEF IsAssigned

LEMMA NotGuessed ==
    ASSUME NEW d \in Document, NEW prior \in Seq(Unit), NEW entities \in Seq(Extracted),
           NEW now, IsAssigned(d, prior, entities, now), NEW i \in DOMAIN now
    PROVE  NobodyGuesses(d, prior, now, i)
<1> DEFINE places == {m \in DOMAIN prior : SameBodies(prior[m], now[i])}
           ids == {prior[k].id : k \in places}
<1>1. SUFFICES ASSUME i = 1, \A k \in DOMAIN prior : ~SameSymbols(prior[k], now[i]),
                      Cardinality(ids) > 1
               PROVE  Reminted(now[i], d)
  BY DEF NobodyGuesses
<1>2. i \in DOMAIN entities
  BY DEF IsAssigned
<1>3. now[i].symbol = entities[i].symbol /\ now[i].body = entities[i].body
  BY <1>2 DEF IsAssigned
<1>4. Consumed(prior, entities)[i - 1] = {}
  BY <1>1, ConsumedIs
<1>5. Available(prior, SameBody(prior, entities[i]), {}) = places
  BY <1>3 DEF Available, SameBody, SameBodies
<1>6. Cardinality(places) # 1
  <2>1. SUFFICES ASSUME Cardinality(places) = 1 PROVE FALSE
    OBVIOUS
  <2>2. IsFiniteSet(places)
    <3>1. IsFiniteSet(1 .. Len(prior)) /\ places \subseteq 1 .. Len(prior)
      BY FS_Interval
    <3>2. QED
      BY <3>1, FS_Subset
  <2>3. PICK k : places = {k}
    BY <2>1, <2>2, FS_Singleton
  <2>4. ids = {prior[k].id}
    BY <2>3
  <2>5. Cardinality(ids) = 1
    BY <2>4, FS_Singleton
  <2>6. QED
    BY <1>1, <2>5
<1>7. Taken(prior, entities, i) = {}
  <2>1. \A k \in DOMAIN prior : prior[k].symbol # entities[i].symbol
    BY <1>1, <1>3 DEF SameSymbols
  <2>2. QED
    BY <1>4, <1>5, <1>6, <2>1, BodyDecides DEF Taken
<1>8. QED
  BY <1>2, <1>7 DEF IsAssigned, Reminted, Mint

\* An edit lets a unit keep its entity, by its symbol or through a rename by
\* its body, and never by a guess between equal bodies.
THEOREM EditsKeepEntities == IdentitySpec => IdentityFollowsUnits
<1>1. ASSUME IdentityInv, IdentityNext, NEW c \in Document, units'[c] # units[c]
      PROVE  EntitiesKept(c, units[c], units'[c])
  <2>1. PICK d \in Document, s \in SourceText : Publishes(d, s)
    BY <1>1, OnePublication
  <2>2. c = d
    BY <1>1, <2>1, PublishedUnits
  <2>3. PICK now : now = units'[c]
    OBVIOUS
  <2>4. IsAssigned(c, units[c], s.entities, now)
    BY <1>1, <2>1, <2>2, <2>3, PublishedUnits
  <2>5. s.entities \in Seq(Extracted) /\ units[c] \in Seq(Unit)
    BY <1>1 DEF SourceText, IdentityInv, Sound
  <2>6. EntitiesKept(c, units[c], now)
    BY <2>4, <2>5, NotGuessed, SymbolKept, RenameKept DEF EntitiesKept
  <2>7. QED
    BY <2>3, <2>6
<1>2. IdentityInv /\ [IdentityNext]_identityVars =>
        [\A d \in Document : units'[d] # units[d] => EntitiesKept(d, units[d], units'[d])]_identityVars
  BY <1>1
<1>3. QED
  BY <1>2, IdentityKept, PTL DEF IdentitySpec, IdentityFollowsUnits

-----------------------------------------------------------------------------
(* Usage.                                                                  *)

\* The caller is around the call, nothing around it begins later, and it is the
\* first that begins there.
LEMMA CallerIs ==
    ASSUME NEW entities \in Seq(Extracted), NEW at \in Nat, Around(entities, at) # {}
    PROVE  /\ Caller(entities, at) \in Around(entities, at)
           /\ \A j \in Around(entities, at) :
                 /\ entities[j].start <= entities[Caller(entities, at)].start
                 /\ entities[j].start = entities[Caller(entities, at)].start
                      => Caller(entities, at) <= j
<1> DEFINE around == Around(entities, at)
           latest == {i \in around : \A j \in around : entities[j].start <= entities[i].start}
           before == {k \in Nat : \E i \in around : k = at - entities[i].start}
<1>1. \A i \in around : i \in Nat /\ entities[i].start \in Nat /\ entities[i].start <= at
  <2>1. ASSUME NEW i \in around PROVE i \in DOMAIN entities /\ entities[i].start <= at
    BY DEF Around
  <2>2. ASSUME NEW i \in DOMAIN entities PROVE i \in Nat /\ entities[i] \in Extracted
    OBVIOUS
  <2>3. QED
    BY <2>1, <2>2 DEF Extracted
<1> HIDE DEF around
<1>2. latest # {}
  <2>1. PICK i \in around : TRUE
    BY DEF around
  <2>2. before # {} /\ before \subseteq Nat
    <3>1. at - entities[i].start \in Nat
      BY <1>1, <2>1
    <3>2. QED
      BY <2>1, <3>1
  <2>3. PICK k \in before : \A n \in before : k <= n
    <3> HIDE DEF before
    <3>1. QED
      BY <2>2, LeastOf
  <2>4. PICK m \in around : k = at - entities[m].start
    OBVIOUS
  <2>5. ASSUME NEW j \in around PROVE entities[j].start <= entities[m].start
    <3>1. at - entities[j].start \in before
      BY <1>1
    <3>2. k <= at - entities[j].start
      BY <2>3, <3>1
    <3> HIDE DEF before
    <3>3. QED
      BY <1>1, <2>4, <3>2
  <2>6. QED
    BY <2>5
<1>3. latest \subseteq Nat
  BY <1>1
<1>4. Caller(entities, at) = Min(latest)
  BY DEF Caller, around
<1>5. Min(latest) \in latest /\ \A n \in latest : Min(latest) <= n
  <2>1. \E m \in latest : \A n \in latest : m <= n
    <3> HIDE DEF latest
    <3>1. QED
      BY <1>2, <1>3, LeastOf
  <2> HIDE DEF latest
  <2>2. QED
    BY <2>1 DEF Min
<1>6. Caller(entities, at) \in latest /\ \A n \in latest : Caller(entities, at) <= n
  <2> HIDE DEF latest
  <2>1. QED
    BY <1>4, <1>5
<1>7. ASSUME NEW j \in around, entities[j].start = entities[Caller(entities, at)].start
      PROVE  j \in latest
  <2>1. \A k \in around : entities[k].start <= entities[j].start
    BY <1>6, <1>7
  <2>2. QED
    BY <2>1
<1>8. QED
  BY <1>6, <1>7 DEF around

\* In the order of spans, no unit around a call is inside its caller.
LEMMA CallerIsInnermost ==
    ASSUME NEW entities \in Seq(Extracted), SortedBySpan(entities), NEW at \in Nat,
           Around(entities, at) # {}
    PROVE  Caller(entities, at) \in Innermost(entities, at)
<1>1. PICK i : i = Caller(entities, at)
  OBVIOUS
<1>2. /\ i \in Around(entities, at)
      /\ \A j \in Around(entities, at) :
            /\ entities[j].start <= entities[i].start
            /\ entities[j].start = entities[i].start => i <= j
  BY <1>1, CallerIs
<1>3. ASSUME NEW j \in Around(entities, at), Inside(entities[j], entities[i]) PROVE FALSE
  <2>1. i \in DOMAIN entities /\ j \in DOMAIN entities
    BY <1>2 DEF Around
  <2>2. entities[i] \in Extracted /\ entities[j] \in Extracted
    BY <2>1
  <2>3. /\ entities[i].start \in Nat /\ entities[i].end \in Nat
        /\ entities[j].start \in Nat /\ entities[j].end \in Nat
    BY <2>2 DEF Extracted
  <2>4. entities[i].start <= entities[j].start /\ entities[j].end <= entities[i].end
    BY <1>3 DEF Inside
  <2>5. entities[j].start = entities[i].start
    BY <1>2, <2>3, <2>4
  <2>6. i # j /\ entities[j].end # entities[i].end
    BY <1>3, <2>5 DEF Inside
  <2>7. i < j
    BY <1>2, <2>1, <2>5, <2>6
  <2>8. entities[i].end <= entities[j].end
    BY <2>1, <2>3, <2>5, <2>7 DEF SortedBySpan
  <2>9. QED
    BY <2>3, <2>4, <2>6, <2>8
<1>4. QED
  BY <1>1, <1>2, <1>3 DEF Innermost

\* What the tables hold of a document is what its source says.
ReadFrom(d) ==
    /\ spoken[d] \in SourceText
    /\ spoken[d] = NoSource \/ spoken[d] \in Source[d]
    /\ calls[d] = Attributed(spoken[d])
    /\ DOMAIN units[d] = DOMAIN spoken[d].entities
    /\ \A i \in DOMAIN units[d] : units[d][i].symbol = spoken[d].entities[i].symbol

UsageInv ==
    /\ DOMAIN spoken = Document /\ DOMAIN calls = Document
    /\ \A d \in Document : ReadFrom(d)
    /\ usage = [p \in Place(units) |-> UsageOf(units, calls, p)]

LEMMA UsageBegins == IdentityInit => UsageInv
<1> SUFFICES ASSUME IdentityInit PROVE UsageInv
  OBVIOUS
<1>1. ASSUME NEW d \in Document
      PROVE  units[d] = <<>> /\ calls[d] = {} /\ spoken[d] = NoSource
  BY DEF IdentityInit
<1>2. NoSource \in SourceText /\ NoSource.entities = <<>> /\ NoSource.calls = <<>>
  BY DEF NoSource, SourceText
<1>3. Attributed(NoSource) = {}
  <2>1. Range(NoSource.calls) = {}
    BY <1>2 DEF Range
  <2>2. QED
    BY <2>1 DEF Attributed
<1>4. \A d \in Document : ReadFrom(d)
  BY <1>1, <1>2, <1>3 DEF ReadFrom
<1>5. Place(units) = {}
  BY <1>1 DEF Place
<1>6. usage = [p \in Place(units) |-> UsageOf(units, calls, p)]
  <2>1. usage = [p \in {} |-> {}]
    BY DEF IdentityInit
  <2>2. [p \in {} |-> {}] = [p \in {} |-> UsageOf(units, calls, p)]
    OBVIOUS
  <2>3. QED
    BY <1>5, <2>1, <2>2
<1>7. DOMAIN spoken = Document /\ DOMAIN calls = Document
  BY DEF IdentityInit
<1>8. QED
  BY <1>4, <1>6, <1>7 DEF UsageInv

LEMMA UsageStep ==
    IdentityInv /\ UsageInv /\ [IdentityNext]_identityVars => UsageInv'
<1> SUFFICES ASSUME IdentityInv, UsageInv, [IdentityNext]_identityVars PROVE UsageInv'
  OBVIOUS
<1>1. ASSUME IdentityNext PROVE UsageInv'
  <2>1. PICK d \in Document, s \in SourceText : Publishes(d, s) /\ (s = NoSource \/ s \in Source[d])
    BY <1>1, OnePublication
  <2>2. /\ calls' = [calls EXCEPT ![d] = Attributed(s)]
        /\ spoken' = [spoken EXCEPT ![d] = s]
        /\ usage' = [p \in Place(units') |-> UsageOf(units', calls', p)]
    BY <2>1 DEF Publishes, RebuildUsage
  <2>3. /\ calls'[d] = Attributed(s) /\ spoken'[d] = s
        /\ \A c \in Document : c # d => calls'[c] = calls[c] /\ spoken'[c] = spoken[c]
    BY <2>2 DEF UsageInv
  <2>4. /\ IsAssigned(d, units[d], s.entities, units'[d])
        /\ \A c \in Document : c # d => units'[c] = units[c]
    BY <2>1, PublishedUnits
  <2>5. ReadFrom(d)'
    BY <2>1, <2>3, <2>4 DEF ReadFrom, IsAssigned
  <2>6. ASSUME NEW c \in Document, c # d PROVE ReadFrom(c)'
    BY <2>3, <2>4, <2>6 DEF ReadFrom, UsageInv
  <2>7. DOMAIN spoken' = Document /\ DOMAIN calls' = Document
    BY <2>2 DEF UsageInv
  <2>8. QED
    BY <2>2, <2>5, <2>6, <2>7 DEF UsageInv
<1>2. CASE UNCHANGED identityVars
  BY <1>2 DEF identityVars, UsageInv, ReadFrom, Place, UsageOf, At
<1>3. QED
  BY <1>1, <1>2

LEMMA UsageKept == IdentitySpec => []UsageInv
BY UsageBegins, UsageStep, IdentityKept, PTL DEF IdentitySpec

\* The calls of a source that are in a unit, each of its caller.
LEMMA CallsOfSource ==
    ASSUME NEW source \in SourceText
    PROVE  /\ \A r \in Attributed(source) : \E c \in DOMAIN source.calls :
                 /\ Around(source.entities, source.calls[c].at) # {}
                 /\ r.caller = Caller(source.entities, source.calls[c].at)
                 /\ r.callee = source.calls[c].callee
           /\ \A c \in DOMAIN source.calls :
                 Around(source.entities, source.calls[c].at) # {} =>
                    \E r \in Attributed(source) :
                       /\ r.caller = Caller(source.entities, source.calls[c].at)
                       /\ r.callee = source.calls[c].callee
<1>1. ASSUME NEW r \in Attributed(source)
      PROVE  \E c \in DOMAIN source.calls :
                 /\ Around(source.entities, source.calls[c].at) # {}
                 /\ r.caller = Caller(source.entities, source.calls[c].at)
                 /\ r.callee = source.calls[c].callee
  <2>1. PICK call \in Range(source.calls) :
           /\ Around(source.entities, call.at) # {}
           /\ r = [caller |-> Caller(source.entities, call.at), callee |-> call.callee]
    BY DEF Attributed
  <2>2. PICK c \in DOMAIN source.calls : call = source.calls[c]
    BY DEF Range
  <2>3. r.caller = Caller(source.entities, call.at) /\ r.callee = call.callee
    BY <2>1
  <2>4. QED
    BY <2>1, <2>2, <2>3
<1>2. ASSUME NEW c \in DOMAIN source.calls,
             Around(source.entities, source.calls[c].at) # {}
      PROVE  \E r \in Attributed(source) :
                 /\ r.caller = Caller(source.entities, source.calls[c].at)
                 /\ r.callee = source.calls[c].callee
  <2> DEFINE call == source.calls[c]
             r == [caller |-> Caller(source.entities, call.at), callee |-> call.callee]
  <2>1. call \in Range(source.calls)
    BY DEF Range
  <2>2. r \in Attributed(source)
    BY <1>2, <2>1 DEF Attributed
  <2>3. r.caller = Caller(source.entities, call.at) /\ r.callee = call.callee
    OBVIOUS
  <2> HIDE DEF r
  <2>4. QED
    BY <2>2, <2>3
<1>3. QED
  BY <1>1, <1>2

\* A call of a published source belongs to an innermost unit around it.
LEMMA AttributedToInnermost ==
    ASSUME UsageInv, NEW d \in Document, NEW c \in CallsMade(d)
    PROVE  CallerOf(d, c) \in Innermost(spoken[d].entities, spoken[d].calls[c].at)
<1>1. PICK source : source = spoken[d]
  OBVIOUS
<1>2. source \in SourceText /\ (source = NoSource \/ source \in Source[d])
  BY <1>1 DEF UsageInv, ReadFrom
<1>3. source.entities \in Seq(Extracted) /\ source.calls \in Seq(CallSite)
  BY <1>2 DEF SourceText
<1>4. c \in DOMAIN source.calls /\ Around(source.entities, source.calls[c].at) # {}
  BY <1>1 DEF CallsMade
<1>5. source.calls[c] \in CallSite
  BY <1>3, <1>4
<1>6. source.calls[c].at \in Nat
  BY <1>5 DEF CallSite
<1>7. source.calls # <<>>
  BY <1>4
<1>8. SortedBySpan(source.entities)
  BY <1>2, <1>7, SourceAssumption DEF NoSource
<1>9. Caller(source.entities, source.calls[c].at) \in Innermost(source.entities, source.calls[c].at)
  BY <1>3, <1>4, <1>6, <1>8, CallerIsInnermost
<1>10. QED
  BY <1>1, <1>9 DEF CallerOf

\* A call's caller is a unit of the tables, under the name its source gives it.
LEMMA CallerIsAUnit ==
    ASSUME UsageInv, NEW d \in Document, NEW c \in CallsMade(d)
    PROVE  At(units, <<d, CallerOf(d, c)>>).symbol = spoken[d].entities[CallerOf(d, c)].symbol
<1>1. CallerOf(d, c) \in DOMAIN spoken[d].entities
  BY AttributedToInnermost DEF Innermost, Around
<1>2. At(units, <<d, CallerOf(d, c)>>) = units[d][CallerOf(d, c)]
  BY DEF At
<1>3. QED
  BY <1>1, <1>2 DEF UsageInv, ReadFrom

\* A line of a unit's usage is of a call.
LEMMA LineIsOfACall ==
    ASSUME UsageInv, NEW p \in Place(units), NEW line \in usage[p]
    PROVE  \E d \in Document : \E c \in CallsMade(d) : Mentions(d, c, p) /\ line = LineOf(d, c)
<1>1. line \in UsageOf(units, calls, p)
  BY DEF UsageInv
<1>2. PICK d \in Document : \E r \in calls[d] :
         /\ r.callee = At(units, p).name /\ <<d, r.caller>> # p
         /\ line = [caller |-> At(units, <<d, r.caller>>).symbol, callee |-> r.callee]
  BY <1>1 DEF UsageOf
<1>3. PICK r \in calls[d] :
         /\ r.callee = At(units, p).name /\ <<d, r.caller>> # p
         /\ line = [caller |-> At(units, <<d, r.caller>>).symbol, callee |-> r.callee]
  BY <1>2
<1>4. PICK source : source = spoken[d]
  OBVIOUS
<1>5. source \in SourceText /\ r \in Attributed(source)
  BY <1>3, <1>4 DEF UsageInv, ReadFrom
<1>6. PICK c \in DOMAIN source.calls :
         /\ Around(source.entities, source.calls[c].at) # {}
         /\ r.caller = Caller(source.entities, source.calls[c].at)
         /\ r.callee = source.calls[c].callee
  BY <1>5, CallsOfSource
<1>7. c \in CallsMade(d) /\ r.caller = CallerOf(d, c) /\ r.callee = spoken[d].calls[c].callee
  BY <1>4, <1>6 DEF CallsMade, CallerOf
<1>8. At(units, <<d, r.caller>>).symbol = spoken[d].entities[r.caller].symbol
  BY <1>7, CallerIsAUnit
<1>9. Mentions(d, c, p)
  BY <1>3, <1>7 DEF Mentions
<1>10. line = LineOf(d, c)
  BY <1>3, <1>7, <1>8 DEF LineOf
<1>11. QED
  BY <1>7, <1>9, <1>10

\* A call to a unit's name, but its own, is in its usage.
LEMMA CallHasALine ==
    ASSUME UsageInv, NEW d \in Document, NEW c \in CallsMade(d),
           NEW p \in Place(units), Mentions(d, c, p)
    PROVE  LineOf(d, c) \in usage[p]
<1>1. PICK source : source = spoken[d]
  OBVIOUS
<1>2. source \in SourceText /\ calls[d] = Attributed(source)
  BY <1>1 DEF UsageInv, ReadFrom
<1>3. PICK r \in calls[d] : r.caller = CallerOf(d, c) /\ r.callee = spoken[d].calls[c].callee
  <2>1. c \in DOMAIN source.calls /\ Around(source.entities, source.calls[c].at) # {}
    BY <1>1 DEF CallsMade
  <2>2. \E r \in Attributed(source) :
           /\ r.caller = Caller(source.entities, source.calls[c].at)
           /\ r.callee = source.calls[c].callee
    BY <1>2, <2>1, CallsOfSource
  <2>3. QED
    BY <1>1, <1>2, <2>2 DEF CallerOf
<1>4. usage[p] = UsageOf(units, calls, p)
  BY DEF UsageInv
<1>5. r.callee = At(units, p).name /\ <<d, r.caller>> # p
  BY <1>3 DEF Mentions
<1>6. [caller |-> At(units, <<d, r.caller>>).symbol, callee |-> r.callee] \in UsageOf(units, calls, p)
  <2> DEFINE lines(e) == {[caller |-> At(units, <<e, q.caller>>).symbol, callee |-> q.callee] :
                q \in {call \in calls[e] : call.callee = At(units, p).name /\ <<e, call.caller>> # p}}
  <2>1. [caller |-> At(units, <<d, r.caller>>).symbol, callee |-> r.callee] \in lines(d)
    BY <1>5
  <2>2. UsageOf(units, calls, p) = UNION {lines(e) : e \in Document}
    BY DEF UsageOf
  <2> HIDE DEF lines
  <2>3. QED
    BY <2>1, <2>2
<1>7. At(units, <<d, r.caller>>).symbol = spoken[d].entities[CallerOf(d, c)].symbol
  BY <1>3, CallerIsAUnit
<1>8. QED
  BY <1>3, <1>4, <1>6, <1>7 DEF LineOf

\* The usage of every unit has a line for each caller that the sources published
\* last have, and no other; each call belongs to an innermost unit around it.
THEOREM UsageIsCurrent == IdentitySpec => []UsageIsOfThePublishedSources
<1>1. ASSUME UsageInv PROVE UsageIsOfThePublishedSources
  <2>1. DOMAIN usage = Place(units)
    BY <1>1 DEF UsageInv
  <2>2. ASSUME NEW d \in Document, NEW c \in CallsMade(d)
        PROVE  CallerOf(d, c) \in Innermost(spoken[d].entities, spoken[d].calls[c].at)
    BY <1>1, <2>2, AttributedToInnermost
  <2>3. ASSUME NEW d \in Document, NEW c \in CallsMade(d),
               NEW p \in Place(units), Mentions(d, c, p)
        PROVE  LineOf(d, c) \in usage[p]
    BY <1>1, <2>3, CallHasALine
  <2>4. ASSUME NEW p \in Place(units), NEW line \in usage[p]
        PROVE  \E d \in Document : \E c \in CallsMade(d) : Mentions(d, c, p) /\ line = LineOf(d, c)
    BY <1>1, <2>4, LineIsOfACall
  <2>5. QED
    BY <2>1, <2>2, <2>3, <2>4 DEF UsageIsOfThePublishedSources
<1>2. QED
  BY <1>1, UsageKept, PTL

-----------------------------------------------------------------------------
(* The warm search index.                                                  *)

\* Nothing that a stamp shows of the files is newer than commit c.
Within(m, w, c) == m \in Nat /\ m <= c /\ (w \in Nat => w <= c)

\* Commit c is on one of the two files that a stamp shows.
Shows(m, w, c) == IF w \in {None, Empty} THEN c <= m ELSE c <= w

CacheHonest ==
    cache # None =>
        /\ cache.index <= commits
        /\ Within(cache.stamp[1], cache.stamp[2], cache.index)

Begun(s) == search[s].at # "idle" => commits > 0

HalfStamped(s) ==
    search[s].at = "half" =>
        /\ search[s].main \in Nat
        /\ search[s].main <= main
        /\ search[s].since <= commits

Stamped(s) ==
    search[s].at \in {"stamped", "built", "closing"} =>
        /\ Within(search[s].main, search[s].wal, commits)
        /\ ~search[s].torn => Shows(search[s].main, search[s].wal, search[s].since)

BuiltAfter(s) ==
    search[s].at \in {"built", "closing"} =>
        /\ search[s].index <= commits
        /\ Within(search[s].main, search[s].wal, search[s].index)

Fresh(s) ==
    search[s].at \in {"found", "querying"} /\ ~search[s].torn
        => search[s].since <= search[s].index

SearchHonest(s) ==
    Begun(s) /\ HalfStamped(s) /\ Stamped(s) /\ BuiltAfter(s) /\ Fresh(s)

Honest == CacheHonest /\ \A s \in Search : SearchHonest(s)

IInv == SearchTypeOK /\ Honest

-----------------------------------------------------------------------------
(* The files only grow, and what was true of a stamp or of another search  *)
(* stays true.                                                             *)

FilesGrow ==
    /\ commits' \in Nat
    /\ commits <= commits'
    /\ commits > 0 => main \in Nat /\ main' \in Nat /\ main <= main'

\* A search that an action leaves alone stays honest while the files grow.
LEMMA UntouchedSearch ==
    ASSUME SearchTypeOK, FilesGrow, NEW t \in Search, SearchHonest(t),
           search'[t] = search[t]
    PROVE  SearchHonest(t)'
  <1>1. /\ search[t].main \in Optional
        /\ search[t].wal \in Optional
        /\ search[t].index \in Nat
        /\ search[t].since \in Nat
    BY DEF SearchTypeOK
  <1>2. commits \in Nat
    BY DEF SearchTypeOK
  <1>3. Begun(t)' /\ HalfStamped(t)'
    BY <1>1, <1>2 DEF FilesGrow, Begun, HalfStamped, SearchHonest
  <1>4. Stamped(t)'
    BY <1>1, <1>2, CacheAssumption
    DEF FilesGrow, Stamped, SearchHonest, Within, Shows, Empty, Optional
  <1>5. BuiltAfter(t)'
    BY <1>1, <1>2 DEF FilesGrow, BuiltAfter, SearchHonest, Within, Optional
  <1>6. Fresh(t)'
    BY DEF Fresh, SearchHonest
  <1>7. QED
    BY <1>3, <1>4, <1>5, <1>6 DEF SearchHonest

\* A cached index that an action leaves alone stays honest.
LEMMA UntouchedCache ==
    ASSUME SearchTypeOK, FilesGrow, CacheHonest, cache' = cache
    PROVE  CacheHonest'
  <1>1. commits \in Nat
    BY DEF SearchTypeOK
  <1>2. cache # None => cache.index \in Nat
    BY DEF SearchTypeOK
  <1>3. QED
    BY <1>1, <1>2 DEF FilesGrow, CacheHonest

\* An action on the files alone keeps everything honest.
LEMMA UntouchedAll ==
    ASSUME IInv, FilesGrow, UNCHANGED <<cache, search>>
    PROVE  Honest'
  <1>1. CacheHonest'
    BY UntouchedCache DEF IInv, Honest
  <1>2. ASSUME NEW t \in Search PROVE SearchHonest(t)'
    <2>1. SearchHonest(t)
      BY DEF IInv, Honest
    <2>2. QED
      BY <2>1, UntouchedSearch DEF IInv
  <1>3. QED
    BY <1>1, <1>2 DEF Honest

\* An action of search s keeps everything honest if it keeps s and the cache.
LEMMA OneSearch ==
    ASSUME IInv, FilesGrow, NEW s \in Search, SearchHonest(s)', CacheHonest',
           \A t \in Search : t # s => search'[t] = search[t]
    PROVE  Honest'
  <1>1. ASSUME NEW t \in Search PROVE SearchHonest(t)'
    <2>1. CASE t = s
      BY <2>1
    <2>2. CASE t # s
      <3>1. SearchHonest(t) /\ search'[t] = search[t]
        BY <2>2 DEF IInv, Honest
      <3>2. QED
        BY <3>1, UntouchedSearch DEF IInv
    <2>3. QED
      BY <2>1, <2>2
  <1>2. QED
    BY <1>1 DEF Honest

-----------------------------------------------------------------------------
(* The steps of the files.                                                 *)

\* Opening a WAL loses nothing: an empty one stands for the database file.
LEMMA WalOpenedKeeps ==
    ASSUME SearchTypeOK, commits > 0, UNCHANGED <<commits, main>>, wal' = WalOpened
    PROVE  /\ wal' \in Optional
           /\ wal' \in {None, Empty} => main' = commits'
           /\ wal' \notin {None, Empty} => wal' = commits'
           /\ FilesGrow
  BY CacheAssumption DEF SearchTypeOK, WalOpened, Empty, Optional, FilesGrow

LEMMA OpenKeeps ==
    ASSUME IInv, NEW p \in Publisher, Open(p)
    PROVE  IInv'
  <1>1. CASE commits = 0
    <2>1. commits' = 1 /\ main' = 1 /\ wal' = 1
      BY <1>1 DEF Open
    <2>2. SearchTypeOK'
      BY <2>1, CacheAssumption DEF IInv, SearchTypeOK, Open, Empty, Optional
    <2>3. FilesGrow
      BY <1>1, <2>1 DEF FilesGrow
    <2>4. QED
      BY <2>2, <2>3, UntouchedAll DEF IInv, Open
  <1>2. CASE commits # 0
    <2>1. commits > 0
      BY <1>2 DEF IInv, SearchTypeOK
    <2>2. UNCHANGED <<commits, main>> /\ wal' = WalOpened
      BY <1>2 DEF Open
    <2>3. /\ wal' \in Optional
          /\ wal' \in {None, Empty} => main' = commits'
          /\ wal' \notin {None, Empty} => wal' = commits'
          /\ FilesGrow
      BY <2>1, <2>2, WalOpenedKeeps DEF IInv
    <2>4. SearchTypeOK'
      BY <2>1, <2>2, <2>3 DEF IInv, SearchTypeOK, Open
    <2>5. QED
      BY <2>3, <2>4, UntouchedAll DEF IInv, Open
  <1>3. QED
    BY <1>1, <1>2

LEMMA PublishKeeps ==
    ASSUME IInv, NEW p \in Publisher, Publish(p)
    PROVE  IInv'
  <1>1. SearchTypeOK'
    BY CacheAssumption DEF IInv, SearchTypeOK, Publish, Empty, Optional
  <1>2. FilesGrow
    BY DEF IInv, SearchTypeOK, Publish, FilesGrow, Optional
  <1>3. QED
    BY <1>1, <1>2, UntouchedAll DEF IInv, Publish

LEMMA CheckpointKeeps ==
    ASSUME IInv, Checkpoint
    PROVE  IInv'
  <1>1. PICK c \in 1 .. commits : main < c /\ main' = c
    BY DEF Checkpoint
  <1>2. commits \in Nat /\ commits > 0 /\ main \in Nat /\ c \in Nat /\ c <= commits
    BY <1>1 DEF IInv, SearchTypeOK, Optional
  <1>3. wal \notin {None, Empty}
    BY <1>1, <1>2 DEF IInv, SearchTypeOK
  <1>4. SearchTypeOK'
    BY <1>1, <1>2, <1>3, CacheAssumption
    DEF IInv, SearchTypeOK, Checkpoint, Optional
  <1>5. FilesGrow
    BY <1>1, <1>2 DEF Checkpoint, FilesGrow
  <1>6. QED
    BY <1>4, <1>5, UntouchedAll DEF IInv, Checkpoint

\* Whoever disconnects, the files still hold every commit.
LEMMA DisconnectKeeps ==
    ASSUME SearchTypeOK, NEW c, Disconnect(c)
    PROVE  /\ commits' = commits /\ main' = main
           /\ wal' \in Optional
           /\ open' \subseteq Search \cup Publisher
           /\ commits' = 0 => wal' = None /\ open' = {}
           /\ commits' > 0 /\ wal' \in {None, Empty} => main' = commits'
           /\ wal' \notin {None, Empty} => wal' = commits'
           /\ FilesGrow
  BY DEF SearchTypeOK, Disconnect, Optional, FilesGrow

LEMMA CloseKeeps ==
    ASSUME IInv, NEW p \in Publisher, Close(p)
    PROVE  IInv'
  <1>1. Disconnect(p) /\ UNCHANGED <<cache, search>> /\ SearchTypeOK
    BY DEF Close, IInv
  <1>2. FilesGrow
    BY <1>1, DisconnectKeeps
  <1>3. SearchTypeOK'
    BY <1>1, DisconnectKeeps DEF SearchTypeOK
  <1>4. QED
    BY <1>1, <1>2, <1>3, UntouchedAll DEF IInv

LEMMA CrashKeeps ==
    ASSUME IInv, NEW p \in Publisher, Crash(p)
    PROVE  IInv'
  <1>1. SearchTypeOK'
    BY DEF IInv, SearchTypeOK, Crash
  <1>2. FilesGrow
    BY DEF IInv, SearchTypeOK, Crash, FilesGrow, Optional
  <1>3. QED
    BY <1>1, <1>2, UntouchedAll DEF IInv, Crash

-----------------------------------------------------------------------------
(* The steps of a search.                                                  *)

\* What the files show is untouched, so only the search is to be looked at.
LEMMA FilesSame ==
    ASSUME IInv, UNCHANGED <<commits, main>>
    PROVE  FilesGrow
  BY DEF IInv, SearchTypeOK, FilesGrow, Optional

LEMMA StatMainKeeps ==
    ASSUME IInv, NEW s \in Search, StatMain(s)
    PROVE  IInv'
  <1>1. /\ commits > 0 /\ commits \in Nat /\ main \in Nat
        /\ UNCHANGED <<commits, main, wal, open, cache>>
    BY DEF IInv, SearchTypeOK, StatMain, files, Optional
  <1>2. search' = [search EXCEPT ![s] =
                     [at |-> "half", main |-> main, wal |-> None, index |-> 0,
                      since |-> commits, torn |-> FALSE]]
    BY DEF StatMain, Without
  <1>3. search \in [Search -> [at : SearchPlace, main : Optional, wal : Optional,
                               index : Nat, since : Nat, torn : BOOLEAN]]
    BY DEF IInv, SearchTypeOK
  <1>4. SearchTypeOK'
    BY <1>1, <1>2, <1>3 DEF IInv, SearchTypeOK, Optional, SearchPlace
  <1>5. /\ search'[s] = [at |-> "half", main |-> main, wal |-> None, index |-> 0,
                         since |-> commits, torn |-> FALSE]
        /\ \A t \in Search : t # s => search'[t] = search[t]
    BY <1>2, <1>3
  <1>6. SearchHonest(s)'
    BY <1>1, <1>5 DEF SearchHonest, Begun, HalfStamped, Stamped, BuiltAfter, Fresh
  <1>7. FilesGrow
    BY <1>1, FilesSame
  <1>8. CacheHonest'
    BY <1>1, <1>7, UntouchedCache DEF IInv, Honest
  <1>9. QED
    BY <1>4, <1>5, <1>6, <1>7, <1>8, OneSearch DEF IInv

LEMMA StatWalKeeps ==
    ASSUME IInv, NEW s \in Search, StatWal(s)
    PROVE  IInv'
  <1>1. UNCHANGED <<commits, main, wal, open, cache>>
    BY DEF StatWal, files
  <1>2. search \in [Search -> [at : SearchPlace, main : Optional, wal : Optional,
                               index : Nat, since : Nat, torn : BOOLEAN]]
    BY DEF IInv, SearchTypeOK
  <1>3. /\ search'[s] = [at |-> "stamped", main |-> search[s].main, wal |-> wal,
                         index |-> 0, since |-> search[s].since,
                         torn |-> (main # search[s].main)]
        /\ search' \in [Search -> [at : SearchPlace, main : Optional, wal : Optional,
                                   index : Nat, since : Nat, torn : BOOLEAN]]
        /\ \A t \in Search : t # s => search'[t] = search[t]
    BY <1>2 DEF IInv, SearchTypeOK, StatWal, WalSeen, Without, SearchPlace
  <1>4. SearchTypeOK'
    BY <1>1, <1>3 DEF IInv, SearchTypeOK
  <1>5. /\ search[s].main \in Nat /\ commits > 0
        /\ search[s].main <= main /\ search[s].since <= commits
    BY DEF IInv, Honest, SearchHonest, Begun, HalfStamped, StatWal
  <1>6. /\ commits \in Nat /\ main \in Nat /\ main <= commits
        /\ wal \in {None, Empty} => main = commits
        /\ wal \notin {None, Empty} => wal = commits
        /\ search[s].since \in Nat
    BY <1>2, <1>5 DEF IInv, SearchTypeOK, Optional
  <1>7. search'[s].at = "stamped" /\ search'[s].main = search[s].main
        /\ search'[s].wal = wal /\ search'[s].since = search[s].since
        /\ search'[s].torn = (main # search[s].main)
    BY <1>2, <1>3
  <1>8. Within(search[s].main, wal, commits)
    BY <1>5, <1>6, CacheAssumption DEF Within, Empty
  <1>9. main = search[s].main => Shows(search[s].main, wal, search[s].since)
    BY <1>5, <1>6 DEF Shows
  <1>10. Stamped(s)'
    BY <1>1, <1>7, <1>8, <1>9 DEF Stamped
  <1>11. SearchHonest(s)'
    BY <1>1, <1>5, <1>7, <1>10 DEF SearchHonest, Begun, HalfStamped, BuiltAfter, Fresh
  <1>12. FilesGrow
    BY <1>1, FilesSame
  <1>13. CacheHonest'
    BY <1>1, <1>12, UntouchedCache DEF IInv, Honest
  <1>14. QED
    BY <1>3, <1>4, <1>11, <1>12, <1>13, OneSearch DEF IInv

LEMMA ReuseKeeps ==
    ASSUME IInv, NEW s \in Search, Reuse(s)
    PROVE  IInv'
  <1>0. commits > 0
    BY DEF IInv, Honest, SearchHonest, Begun, Reuse
  <1>1. UNCHANGED <<commits, main, wal, open, cache>>
    BY DEF Reuse, files
  <1>2. search \in [Search -> [at : SearchPlace, main : Optional, wal : Optional,
                               index : Nat, since : Nat, torn : BOOLEAN]]
    BY DEF IInv, SearchTypeOK
  <1>3. cache # None /\ cache \in [stamp : Optional \X Optional, index : Nat]
    BY DEF IInv, SearchTypeOK, Reuse, Hit
  <1>4. /\ search'[s] = [search[s] EXCEPT !.at = "found", !.index = cache.index]
        /\ search' \in [Search -> [at : SearchPlace, main : Optional, wal : Optional,
                                   index : Nat, since : Nat, torn : BOOLEAN]]
        /\ \A t \in Search : t # s => search'[t] = search[t]
    BY <1>2, <1>3 DEF Reuse, SearchPlace
  <1>5. SearchTypeOK'
    BY <1>1, <1>4 DEF IInv, SearchTypeOK
  <1>6. cache.stamp[1] = search[s].main /\ cache.stamp[2] = search[s].wal
    BY DEF Reuse, Hit, Stamp
  <1>7. Within(search[s].main, search[s].wal, cache.index)
    BY <1>3, <1>6 DEF IInv, Honest, CacheHonest
  <1>8. ~search[s].torn => Shows(search[s].main, search[s].wal, search[s].since)
    BY DEF IInv, Honest, SearchHonest, Stamped, Reuse
  <1>9. search[s].since \in Nat /\ search[s].wal \in Optional /\ cache.index \in Nat
    BY <1>2, <1>3
  <1>10. ~search[s].torn => search[s].since <= cache.index
    BY <1>7, <1>8, <1>9 DEF Within, Shows, Empty, Optional
  <1>11. /\ search'[s].at = "found" /\ search'[s].index = cache.index
         /\ search'[s].since = search[s].since /\ search'[s].torn = search[s].torn
    BY <1>2, <1>4
  <1>12. SearchHonest(s)'
    BY <1>0, <1>1, <1>10, <1>11 DEF SearchHonest, Begun, HalfStamped, Stamped, BuiltAfter, Fresh
  <1>13. FilesGrow
    BY <1>1, FilesSame
  <1>14. CacheHonest'
    BY <1>1, <1>13, UntouchedCache DEF IInv, Honest
  <1>15. QED
    BY <1>4, <1>5, <1>12, <1>13, <1>14, OneSearch DEF IInv

\* What a search that holds the lock of the cache has read of the files.
LEMMA BuildKeeps ==
    ASSUME IInv, NEW s \in Search, Build(s)
    PROVE  IInv'
  <1>1. /\ search[s].at = "stamped" /\ commits > 0
        /\ Within(search[s].main, search[s].wal, commits)
    BY DEF IInv, Honest, SearchHonest, Begun, Stamped, Build
  <1>2. UNCHANGED <<commits, main, cache>> /\ wal' = WalOpened
    BY DEF Build
  <1>3. search \in [Search -> [at : SearchPlace, main : Optional, wal : Optional,
                               index : Nat, since : Nat, torn : BOOLEAN]]
    BY DEF IInv, SearchTypeOK
  <1>4. commits \in Nat /\ commits > 0
    BY <1>1 DEF IInv, SearchTypeOK
  <1>5. /\ wal' \in Optional
        /\ wal' \in {None, Empty} => main' = commits'
        /\ wal' \notin {None, Empty} => wal' = commits'
        /\ FilesGrow
    BY <1>2, <1>4, WalOpenedKeeps DEF IInv
  <1>6. /\ search'[s] = [search[s] EXCEPT !.at = "built", !.index = commits]
        /\ search' \in [Search -> [at : SearchPlace, main : Optional, wal : Optional,
                                   index : Nat, since : Nat, torn : BOOLEAN]]
        /\ \A t \in Search : t # s => search'[t] = search[t]
    BY <1>3, <1>4 DEF Build, SearchPlace
  <1>7. SearchTypeOK'
    BY <1>2, <1>4, <1>5, <1>6 DEF IInv, SearchTypeOK, Build
  <1>8. /\ search'[s].at = "built" /\ search'[s].index = commits
        /\ search'[s].main = search[s].main /\ search'[s].wal = search[s].wal
        /\ search'[s].since = search[s].since /\ search'[s].torn = search[s].torn
    BY <1>3, <1>6
  <1>9. ~search[s].torn => Shows(search[s].main, search[s].wal, search[s].since)
    BY <1>1 DEF IInv, Honest, SearchHonest, Stamped
  <1>10. Stamped(s)' /\ BuiltAfter(s)'
    BY <1>1, <1>2, <1>4, <1>8, <1>9 DEF Stamped, BuiltAfter
  <1>11. SearchHonest(s)'
    BY <1>1, <1>2, <1>8, <1>10 DEF SearchHonest, Begun, HalfStamped, Fresh
  <1>12. CacheHonest'
    BY <1>2, <1>5, UntouchedCache DEF IInv, Honest
  <1>13. QED
    BY <1>5, <1>6, <1>7, <1>11, <1>12, OneSearch DEF IInv

LEMMA KeepKeeps ==
    ASSUME IInv, NEW s \in Search, Keep(s)
    PROVE  IInv'
  <1>0. commits > 0
    BY DEF IInv, Honest, SearchHonest, Begun, Keep
  <1>1. UNCHANGED <<commits, main, wal, open>>
    BY DEF Keep, files
  <1>2. search \in [Search -> [at : SearchPlace, main : Optional, wal : Optional,
                               index : Nat, since : Nat, torn : BOOLEAN]]
    BY DEF IInv, SearchTypeOK
  <1>3. cache' = [stamp |-> <<search[s].main, search[s].wal>>, index |-> search[s].index]
    BY DEF Keep, StampKept, Stamp
  <1>4. /\ search'[s] = [search[s] EXCEPT !.at = "closing"]
        /\ search' \in [Search -> [at : SearchPlace, main : Optional, wal : Optional,
                                   index : Nat, since : Nat, torn : BOOLEAN]]
        /\ \A t \in Search : t # s => search'[t] = search[t]
    BY <1>2 DEF Keep, SearchPlace
  <1>5. cache' \in [stamp : Optional \X Optional, index : Nat]
    BY <1>2, <1>3
  <1>6. SearchTypeOK'
    BY <1>1, <1>4, <1>5 DEF IInv, SearchTypeOK
  <1>7. Stamped(s) /\ BuiltAfter(s) /\ search[s].at = "built"
    BY DEF IInv, Honest, SearchHonest, Keep
  <1>8. /\ search'[s].at = "closing" /\ search'[s].index = search[s].index
        /\ search'[s].main = search[s].main /\ search'[s].wal = search[s].wal
        /\ search'[s].since = search[s].since /\ search'[s].torn = search[s].torn
    BY <1>2, <1>4
  <1>9. SearchHonest(s)'
    BY <1>0, <1>1, <1>7, <1>8
    DEF SearchHonest, Begun, HalfStamped, Stamped, BuiltAfter, Fresh
  <1>10. CacheHonest'
    BY <1>1, <1>3, <1>7 DEF CacheHonest, BuiltAfter
  <1>11. FilesGrow
    BY <1>1, FilesSame
  <1>12. QED
    BY <1>4, <1>6, <1>9, <1>10, <1>11, OneSearch DEF IInv

\* A search that has found its index and goes on keeps what is known of it.
LEMMA BuiltKeeps ==
    ASSUME IInv, NEW s \in Search, Built(s)
    PROVE  IInv'
  <1>0. commits > 0
    BY DEF IInv, Honest, SearchHonest, Begun, Built
  <1>1. Disconnect(s) /\ cache' = cache /\ SearchTypeOK
    BY DEF Built, IInv
  <1>2. search \in [Search -> [at : SearchPlace, main : Optional, wal : Optional,
                               index : Nat, since : Nat, torn : BOOLEAN]]
    BY <1>1 DEF SearchTypeOK
  <1>3. /\ search'[s] = [search[s] EXCEPT !.at = "found"]
        /\ search' \in [Search -> [at : SearchPlace, main : Optional, wal : Optional,
                                   index : Nat, since : Nat, torn : BOOLEAN]]
        /\ \A t \in Search : t # s => search'[t] = search[t]
    BY <1>2 DEF Built, SearchPlace
  <1>4. SearchTypeOK'
    BY <1>1, <1>3, DisconnectKeeps DEF SearchTypeOK
  <1>5. FilesGrow
    BY <1>1, DisconnectKeeps
  <1>6. Stamped(s) /\ BuiltAfter(s) /\ search[s].at = "closing"
    BY DEF IInv, Honest, SearchHonest, Built
  <1>7. /\ search[s].since \in Nat /\ search[s].index \in Nat
        /\ search[s].wal \in Optional
    BY <1>2
  <1>8. ~search[s].torn => search[s].since <= search[s].index
    BY <1>6, <1>7 DEF Stamped, BuiltAfter, Within, Shows, Empty, Optional
  <1>9. /\ search'[s].at = "found" /\ search'[s].index = search[s].index
        /\ search'[s].since = search[s].since /\ search'[s].torn = search[s].torn
    BY <1>2, <1>3
  <1>10. SearchHonest(s)'
    BY <1>0, <1>1, <1>8, <1>9, DisconnectKeeps DEF SearchHonest, Begun, HalfStamped, Stamped, BuiltAfter, Fresh
  <1>11. CacheHonest'
    BY <1>1, <1>5, UntouchedCache DEF IInv, Honest
  <1>12. QED
    BY <1>3, <1>4, <1>5, <1>10, <1>11, OneSearch DEF IInv

LEMMA QueryKeeps ==
    ASSUME IInv, NEW s \in Search, Query(s)
    PROVE  IInv'
  <1>1. UNCHANGED <<commits, main, cache>> /\ wal' = WalOpened /\ commits > 0
    BY DEF IInv, Honest, SearchHonest, Begun, Query
  <1>2. search \in [Search -> [at : SearchPlace, main : Optional, wal : Optional,
                               index : Nat, since : Nat, torn : BOOLEAN]]
    BY DEF IInv, SearchTypeOK
  <1>3. /\ wal' \in Optional
        /\ wal' \in {None, Empty} => main' = commits'
        /\ wal' \notin {None, Empty} => wal' = commits'
        /\ FilesGrow
    BY <1>1, WalOpenedKeeps DEF IInv
  <1>4. /\ search'[s] = [search[s] EXCEPT !.at = "querying"]
        /\ search' \in [Search -> [at : SearchPlace, main : Optional, wal : Optional,
                                   index : Nat, since : Nat, torn : BOOLEAN]]
        /\ \A t \in Search : t # s => search'[t] = search[t]
    BY <1>2 DEF Query, SearchPlace
  <1>5. SearchTypeOK'
    BY <1>1, <1>3, <1>4 DEF IInv, SearchTypeOK, Query
  <1>6. /\ search'[s].at = "querying" /\ search'[s].index = search[s].index
        /\ search'[s].since = search[s].since /\ search'[s].torn = search[s].torn
    BY <1>2, <1>4
  <1>7. ~search[s].torn => search[s].since <= search[s].index
    BY DEF IInv, Honest, SearchHonest, Fresh, Query
  <1>8. SearchHonest(s)'
    BY <1>1, <1>6, <1>7 DEF SearchHonest, Begun, HalfStamped, Stamped, BuiltAfter, Fresh
  <1>9. CacheHonest'
    BY <1>1, <1>3, UntouchedCache DEF IInv, Honest
  <1>10. QED
    BY <1>3, <1>4, <1>5, <1>8, <1>9, OneSearch DEF IInv

LEMMA FailKeeps ==
    ASSUME IInv, NEW s \in Search, Fail(s)
    PROVE  IInv'
  <1>1. UNCHANGED <<commits, main, wal, open, cache>>
    BY DEF Fail, files
  <1>2. search \in [Search -> [at : SearchPlace, main : Optional, wal : Optional,
                               index : Nat, since : Nat, torn : BOOLEAN]]
    BY DEF IInv, SearchTypeOK
  <1>3. /\ search'[s].at = "idle"
        /\ search' \in [Search -> [at : SearchPlace, main : Optional, wal : Optional,
                                   index : Nat, since : Nat, torn : BOOLEAN]]
        /\ \A t \in Search : t # s => search'[t] = search[t]
    BY <1>2 DEF Fail, Idle, Without, SearchPlace, Optional
  <1>4. SearchTypeOK'
    BY <1>1, <1>3 DEF IInv, SearchTypeOK
  <1>5. SearchHonest(s)'
    BY <1>3 DEF SearchHonest, Begun, HalfStamped, Stamped, BuiltAfter, Fresh
  <1>6. FilesGrow
    BY <1>1, FilesSame
  <1>7. CacheHonest'
    BY <1>1, <1>6, UntouchedCache DEF IInv, Honest
  <1>8. QED
    BY <1>3, <1>4, <1>5, <1>6, <1>7, OneSearch DEF IInv

LEMMA AnswerKeeps ==
    ASSUME IInv, NEW s \in Search, Answer(s)
    PROVE  IInv'
  <1>1. Disconnect(s) /\ cache' = cache /\ SearchTypeOK
    BY DEF Answer, IInv
  <1>2. /\ search'[s].at = "idle"
        /\ search' \in [Search -> [at : SearchPlace, main : Optional, wal : Optional,
                                   index : Nat, since : Nat, torn : BOOLEAN]]
        /\ \A t \in Search : t # s => search'[t] = search[t]
    BY <1>1 DEF SearchTypeOK, Answer, Idle, Without, SearchPlace, Optional
  <1>3. SearchTypeOK'
    BY <1>1, <1>2, DisconnectKeeps DEF SearchTypeOK
  <1>4. SearchHonest(s)'
    BY <1>2 DEF SearchHonest, Begun, HalfStamped, Stamped, BuiltAfter, Fresh
  <1>5. FilesGrow
    BY <1>1, DisconnectKeeps
  <1>6. CacheHonest'
    BY <1>1, <1>5, UntouchedCache DEF IInv, Honest
  <1>7. QED
    BY <1>2, <1>3, <1>4, <1>5, <1>6, OneSearch DEF IInv

-----------------------------------------------------------------------------

LEMMA InitHonest == Init => IInv
  BY CacheAssumption
  DEF Init, IInv, SearchTypeOK, Honest, CacheHonest, SearchHonest, Begun, HalfStamped,
      Stamped, BuiltAfter, Fresh, Idle, Without, Optional, SearchPlace, Empty

LEMMA NextHonest == IInv /\ [Next]_vars => IInv'
  <1> SUFFICES ASSUME IInv, [Next]_vars PROVE IInv'
    OBVIOUS
  <1>1. CASE \E p \in Publisher : Open(p) \/ Publish(p) \/ Close(p) \/ Crash(p)
    BY <1>1, OpenKeeps, PublishKeeps, CloseKeeps, CrashKeeps
  <1>2. CASE Checkpoint
    BY <1>2, CheckpointKeeps
  <1>3. CASE \E s \in Search :
                \/ StatMain(s) \/ StatWal(s) \/ Reuse(s)
                \/ Build(s) \/ Keep(s) \/ Built(s) \/ Fail(s)
                \/ Query(s) \/ Answer(s)
    BY <1>3, StatMainKeeps, StatWalKeeps, ReuseKeeps, BuildKeeps, KeepKeeps,
       BuiltKeeps, FailKeeps, QueryKeeps, AnswerKeeps
  <1>4. CASE UNCHANGED vars
    <2>1. UNCHANGED <<commits, main, wal, open, cache, search>>
      BY <1>4 DEF vars
    <2>2. QED
      BY <2>1 DEF IInv, SearchTypeOK, Honest, CacheHonest, SearchHonest, Begun,
                  HalfStamped, Stamped, BuiltAfter, Fresh, Within, Shows
  <1>5. QED
    BY <1>1, <1>2, <1>3, <1>4 DEF Next

LEMMA Inductive == Spec => []IInv
  BY InitHonest, NextHonest, PTL DEF Spec

\* Every variable has its type and the files always hold every commit, through
\* partial checkpoints, crashes and closes, for any number of connections.
THEOREM SearchTypeCorrect == Spec => []SearchTypeOK
  <1>1. IInv => SearchTypeOK
    BY DEF IInv
  <1>2. QED
    BY <1>1, Inductive, PTL

\* An index that would be reused now is the index of what the files hold now,
\* for any number of searches and writers.
THEOREM HitsAreCurrent == Spec => []HitIsCurrent
  <1>1. ASSUME IInv, cache # None, cache.stamp = <<main, wal>>
        PROVE  cache.index = commits
    <2>1. cache.index <= commits /\ Within(main, wal, cache.index)
      BY <1>1 DEF IInv, Honest, CacheHonest
    <2>2. commits \in Nat /\ cache.index \in Nat /\ commits > 0
      BY <1>1, <2>1, CacheAssumption DEF IInv, SearchTypeOK, Within
    <2>3. commits <= cache.index
      BY <1>1, <2>1, <2>2 DEF IInv, SearchTypeOK, Within, Empty, Optional
    <2>4. QED
      BY <2>1, <2>2, <2>3
  <1>2. IInv => HitIsCurrent
    BY <1>1 DEF HitIsCurrent
  <1>3. QED
    BY <1>2, Inductive, PTL

\* A search misses no publication that ended before it began, unless the
\* database file changed between the two halves of its stamp, for any number of
\* searches and writers.
THEOREM UntornSearchesFresh == Spec => []FreshUnlessTorn
  <1>1. ASSUME IInv, NEW s \in Search, search[s].at \in {"found", "querying"},
               ~search[s].torn
        PROVE  search[s].index >= search[s].since
    <2>1. search[s].since <= search[s].index
      BY <1>1 DEF IInv, Honest, SearchHonest, Fresh
    <2>2. search[s].since \in Nat /\ search[s].index \in Nat
      BY <1>1 DEF IInv, SearchTypeOK
    <2>3. QED
      BY <2>1, <2>2
  <1>2. IInv => FreshUnlessTorn
    BY <1>1 DEF FreshUnlessTorn
  <1>3. QED
    BY <1>2, Inductive, PTL

-----------------------------------------------------------------------------
(* The models.                                                             *)

(* The invariant.                                                          *)

Content == [version : Nat, whole : BOOLEAN]
Files == [File -> Content]

\* What the branch may hold.
Published == [version : Nat \ {0}, whole : {TRUE}]

Load == [at : {"rest", "lock", "file", "fetched", "writing", "saving", "hash",
               "load", "loaded"},
         pass : {"config", "tokenizer", "weights"}, todo : Seq(File),
         mine : Files, got : Content, weights : Weights \cup {"none"},
         hash : Content, bytes : Content]

\* Every variable has its type.
CacheTypeOK ==
    /\ repository \in Repositories
    /\ upstream \in Nat \ {0}
    /\ cached \in Files
    /\ lockfile \in [state : {"absent", "torn", "whole"}, files : Files]
    /\ load \in [Loader -> Load]
    /\ loads \in Nat
    /\ first \in Files
    /\ raced \subseteq File

\* A fetch has a file to fetch, and the weights are chosen before the second pass.
Placed(j) ==
    /\ j.at \in {"fetched", "writing"} => j.todo # <<>> /\ j.got \in Published
    /\ j.pass = "weights" \/ j.at \in {"hash", "load", "loaded"} => j.weights \in Weights

CacheTyped == CacheTypeOK /\ \A l \in Loader : Placed(load[l])

\* Who fetches f is alone with it, and f was never whole in the cache.
Alone(l, f) ==
    Fetching(l, f) =>
        /\ load[l].mine[f] = load[l].got
        /\ first[f] = Nothing
        /\ cached[f] = IF load[l].at = "fetched" THEN Nothing ELSE Half(load[l].got)
        /\ \A k \in Loader \ {l} : ~Fetching(k, f)

\* The lockfile in memory, of who does not fetch f.
Remembers(j, f) == j.mine[f] \in {Nothing, first[f]}

\* A contract and a model on the weights f.
Runs(j, f) ==
    j.weights = f =>
        /\ j.at \in {"load", "loaded"} => j.hash \in {Nothing, first[f]}
        /\ j.at = "loaded" => j.bytes = first[f] /\ first[f] # Nothing

Knows(l, f) == (~Fetching(l, f) => Remembers(load[l], f)) /\ Runs(load[l], f)

Locked(f) == lockfile.files[f] \in {Nothing, first[f]}

Kept(f) == (\A l \in Loader : ~Fetching(l, f)) => cached[f] = first[f]

FileOK(f) ==
    /\ Locked(f)
    /\ Kept(f)
    /\ \A l \in Loader : Alone(l, f) /\ Knows(l, f)

CacheInv == CacheTyped /\ \A f \in File \ raced : FileOK(f)

-----------------------------------------------------------------------------
(* Types.                                                                  *)

\* The values the model is built from.
LEMMA Values ==
    /\ Nothing \in Content
    /\ NoFiles \in Files
    /\ Resting \in Load
    /\ Placed(Resting)
    /\ \A v \in Nat \ {0} : Whole(v) \in Published
    /\ Published \subseteq Content
    /\ \A c \in Content : Half(c) \in Content
    /\ \A c \in Published : Half(c) # Nothing /\ c # Nothing
    /\ Weights \subseteq File
    /\ "config" \in File
    /\ "tokenizer" \in File
<1>1. Nothing \in Content
  BY DEF Nothing, Content
<1>2. NoFiles \in Files
  BY <1>1 DEF NoFiles, Files
<1>3. <<>> \in Seq(File)
  OBVIOUS
<1>4. Resting \in Load
  BY <1>1, <1>2, <1>3 DEF Resting, Load
<1>5. Placed(Resting)
  BY DEF Placed, Resting
<1>6. QED
  BY <1>1, <1>2, <1>4, <1>5 DEF Whole, Published, Content, Half, Nothing, Weights, File

\* What the fields of a loader are.
LEMMA LoadFields ==
    ASSUME NEW j \in Load
    PROVE  /\ j.at \in {"rest", "lock", "file", "fetched", "writing", "saving", "hash",
                        "load", "loaded"}
           /\ j.pass \in {"config", "tokenizer", "weights"}
           /\ j.todo \in Seq(File)
           /\ j.mine \in Files
           /\ j.got \in Content
           /\ j.weights \in Weights \cup {"none"}
           /\ j.hash \in Content
           /\ j.bytes \in Content
BY DEF Load

\* A loader that goes to a well-placed state of a load leaves the others there.
LEMMA GoesTyped ==
    ASSUME CacheTyped, NEW l \in Loader, NEW j \in Load, Placed(j), Goes(l, j)
    PROVE  /\ load' \in [Loader -> Load]
           /\ \A k \in Loader : Placed(load[k])'
           /\ load'[l] = j
           /\ \A k \in Loader \ {l} : load'[k] = load[k]
<1>1. load \in [Loader -> Load]
  BY DEF CacheTyped, CacheTypeOK
<1>2. load'[l] = j /\ \A k \in Loader \ {l} : load'[k] = load[k]
  BY <1>1 DEF Goes
<1>3. load' \in [Loader -> Load]
  BY <1>1 DEF Goes
<1>4. \A k \in Loader : Placed(load[k])
  BY DEF CacheTyped
<1>5. QED
  BY <1>2, <1>3, <1>4

\* A loader is in a load.
LEMMA LoaderFields ==
    ASSUME CacheTyped, NEW l \in Loader
    PROVE  load[l] \in Load /\ Placed(load[l])
BY DEF CacheTyped, CacheTypeOK

\* Initially every variable has its type.
LEMMA CacheTypesBegin == CacheInit => CacheTyped
<1> SUFFICES ASSUME CacheInit PROVE CacheTyped
  OBVIOUS
<1>1. load \in [Loader -> Load] /\ \A l \in Loader : Placed(load[l])
  BY Values DEF CacheInit
<1>2. lockfile \in [state : {"absent", "torn", "whole"}, files : Files]
  BY Values DEF CacheInit
<1>3. QED
  BY <1>1, <1>2, Values DEF CacheInit, CacheTyped, CacheTypeOK

\* The other variables of a step that touches f.
LEMMA Touched ==
    ASSUME CacheTyped, NEW l, NEW f \in File, Touches(l, f)
    PROVE  raced' \subseteq File /\ raced \subseteq raced'
BY DEF CacheTyped, CacheTypeOK, Touches

\* Types are kept by a step of one loader.
LEMMA StepTyped ==
    ASSUME CacheTyped, NEW l \in Loader, NEW j \in Load, Placed(j), Goes(l, j),
           UNCHANGED <<repository, upstream>>,
           cached' \in Files, first' \in Files, loads' \in Nat,
           lockfile' \in [state : {"absent", "torn", "whole"}, files : Files],
           raced' \subseteq File
    PROVE  CacheTyped'
BY GoesTyped DEF CacheTyped, CacheTypeOK

-----------------------------------------------------------------------------
(* A step of a loader that writes no file and ends no fetch.               *)

\* A step of l to j, no fetch, that leaves the files and races no less.
Quiet(l, j) ==
    /\ j \in Load
    /\ Placed(j)
    /\ Goes(l, j)
    /\ j.at \notin {"fetched", "writing"}
    /\ load[l].at # "writing" \/ Due(l) \in raced'
    /\ UNCHANGED <<repository, upstream, cached, first>>
    /\ loads' \in Nat
    /\ lockfile' \in [state : {"absent", "torn", "whole"}, files : Files]
    /\ raced \subseteq raced'
    /\ raced' \subseteq File

\* It keeps the invariant if what l then holds, and the lockfile, are as they
\* should be.
LEMMA QuietStep ==
    ASSUME CacheInv, NEW l \in Loader, NEW j, Quiet(l, j),
           \A f \in File \ raced' : Locked(f)' /\ Remembers(j, f) /\ Runs(j, f)
    PROVE  CacheInv'
<1>1. CacheTyped
  BY DEF CacheInv
<1>2. j \in Load /\ Placed(j) /\ Goes(l, j)
  BY DEF Quiet
<1>3. load'[l] = j /\ \A k \in Loader \ {l} : load'[k] = load[k]
  BY <1>1, <1>2, GoesTyped
<1>4. CacheTyped'
  <2>1. cached' \in Files /\ first' \in Files
    BY <1>1 DEF CacheTyped, CacheTypeOK, Quiet
  <2>2. QED
    BY <1>1, <1>2, <2>1, StepTyped DEF Quiet
<1>5. ASSUME NEW f \in File \ raced' PROVE FileOK(f)'
  <2>1. FileOK(f)
    BY DEF CacheInv, Quiet
  <2>2. cached' = cached /\ first' = first
    BY DEF Quiet
  <2>3. ~Fetching(l, f)'
    BY <1>3 DEF Fetching, Quiet
  <2>4. \A k \in Loader \ {l} : Fetching(k, f)' = Fetching(k, f)
    BY <1>3 DEF Fetching, Due
  <2>5. Fetching(l, f) => load[l].at = "fetched"
    BY DEF Fetching, Quiet
  <2>6. Fetching(l, f) => cached[f] = first[f]
    BY <2>1, <2>5 DEF FileOK, Alone
  <2>7. Kept(f)'
    BY <2>1, <2>2, <2>3, <2>4, <2>6 DEF FileOK, Kept
  <2>8. Locked(f)'
    OBVIOUS
  <2>9. Alone(l, f)' /\ Knows(l, f)'
    BY <1>3, <2>2, <2>3 DEF Alone, Knows, Remembers, Runs
  <2>10. ASSUME NEW k \in Loader \ {l} PROVE Alone(k, f)' /\ Knows(k, f)'
    <3>1. Alone(k, f) /\ Knows(k, f)
      BY <2>1 DEF FileOK
    <3>2. load'[k] = load[k] /\ Fetching(k, f)' = Fetching(k, f)
      BY <1>3, <2>4
    <3>3. Alone(k, f)'
      BY <2>2, <2>3, <2>4, <3>1, <3>2 DEF Alone
    <3>4. Knows(k, f)'
      BY <2>2, <3>1, <3>2 DEF Knows, Remembers, Runs
    <3>5. QED
      BY <3>3, <3>4
  <2>11. QED
    BY <2>7, <2>8, <2>9, <2>10 DEF FileOK
<1>6. QED
  BY <1>4, <1>5 DEF CacheInv

\* A loader that has given up holds nothing.
LEMMA RestingKnows == \A f \in File : Remembers(Resting, f) /\ Runs(Resting, f)
BY DEF Remembers, Runs, Resting, NoFiles, File, Weights

\* What a loader holds that is not fetching f.
LEMMA Known ==
    ASSUME CacheInv, NEW l \in Loader, NEW f \in File \ raced
    PROVE  /\ Locked(f)
           /\ Runs(load[l], f)
           /\ load[l].at \notin {"fetched", "writing"} => Remembers(load[l], f)
BY DEF CacheInv, FileOK, Knows, Fetching

\* A loader may give up unless it is writing.
LEMMA GivesUpKeeps ==
    ASSUME CacheInv, NEW l \in Loader, GivesUp(l),
           load[l].at # "writing" \/ Due(l) \in raced',
           UNCHANGED <<repository, upstream, cached, lockfile, loads, first>>,
           raced \subseteq raced', raced' \subseteq File
    PROVE  CacheInv'
<1>1. CacheTyped
  BY DEF CacheInv
<1>2. Resting.at = "rest"
  BY DEF Resting
<1>3. Quiet(l, Resting)
  BY <1>1, <1>2, Values DEF Quiet, GivesUp, CacheTyped, CacheTypeOK
<1>4. \A f \in File \ raced' : Locked(f)' /\ Remembers(Resting, f) /\ Runs(Resting, f)
  BY Known, RestingKnows DEF Locked
<1>5. QED
  BY <1>3, <1>4, QuietStep

-----------------------------------------------------------------------------
(* One lemma per action.                                                   *)

\* What every quiet step needs of the types.
LEMMA Rest ==
    ASSUME CacheTyped
    PROVE  /\ loads \in Nat
           /\ lockfile \in [state : {"absent", "torn", "whole"}, files : Files]
           /\ raced \subseteq File
           /\ cached \in Files /\ first \in Files /\ upstream \in Nat \ {0}
BY DEF CacheTyped, CacheTypeOK

\* A load begins with an empty lockfile in memory.
LEMMA StartsKeeps ==
    ASSUME CacheInv, NEW l \in Loader, Starts(l)
    PROVE  CacheInv'
<1> DEFINE j == [Resting EXCEPT !.at = "lock", !.todo = <<"config">>]
<1>1. CacheTyped
  BY DEF CacheInv
<1>2. <<"config">> \in Seq(File)
  BY Values
<1>3. j \in Load
  BY <1>2, Values DEF Load
<1>4. j.at = "lock" /\ j.pass = "config" /\ j.weights = "none" /\ j.mine = NoFiles
  BY DEF Resting
<1>5. Placed(j)
  BY <1>4 DEF Placed
<1>6. Quiet(l, j)
  BY <1>1, <1>3, <1>4, <1>5, Rest DEF Quiet, Starts
<1>7. \A f \in File \ raced' : Locked(f)' /\ Remembers(j, f) /\ Runs(j, f)
  BY <1>4, Known DEF Starts, Locked, Remembers, Runs, NoFiles, File, Weights
<1>8. QED
  BY <1>6, <1>7, QuietStep

\* The lockfile on disk is as good as those in memory.
LEMMA LoadsLockfileKeeps ==
    ASSUME CacheInv, NEW l \in Loader, LoadsLockfile(l)
    PROVE  CacheInv'
<1> DEFINE j == [load[l] EXCEPT !.at = "file", !.mine = lockfile.files]
<1>1. CacheTyped
  BY DEF CacheInv
<1>2. load[l] \in Load /\ Placed(load[l])
  BY <1>1, LoaderFields
<1>3. CASE GivesUp(l)
  BY <1>1, <1>3, GivesUpKeeps, Rest DEF LoadsLockfile
<1>4. CASE Goes(l, j)
  <2>1. lockfile.files \in Files
    BY <1>1, Rest
  <2>2. j \in Load
    BY <1>2, <2>1 DEF Load
  <2>3. /\ j.at = "file" /\ j.pass = load[l].pass /\ j.weights = load[l].weights
        /\ j.mine = lockfile.files
    BY <1>2 DEF Load
  <2>4. Placed(j)
    BY <1>2, <2>3 DEF Placed
  <2>5. Quiet(l, j)
    BY <1>1, <1>4, <2>2, <2>3, <2>4, Rest DEF Quiet, LoadsLockfile
  <2>6. \A f \in File \ raced' : Locked(f)' /\ Remembers(j, f) /\ Runs(j, f)
    BY <2>3, Known DEF LoadsLockfile, Locked, Remembers, Runs
  <2>7. QED
    BY <2>5, <2>6, QuietStep
<1>5. QED
  BY <1>3, <1>4 DEF LoadsLockfile

\* A cached file that nobody fetches is as it first was.
LEMMA CachedIsFirst ==
    ASSUME CacheInv, NEW l \in Loader, NEW f \in File, Touches(l, f),
           ~Fetching(l, f), f \notin raced'
    PROVE  /\ f \notin raced
           /\ \A k \in Loader : ~Fetching(k, f)
           /\ cached[f] = first[f]
<1>1. f \notin raced /\ \A k \in Loader \ {l} : ~Fetching(k, f)
  BY DEF Touches
<1>2. \A k \in Loader : ~Fetching(k, f)
  BY <1>1
<1>3. QED
  BY <1>1, <1>2 DEF CacheInv, FileOK, Kept

\* What is read of the cache is what was first there.
LEMMA ReadsCachedKeeps ==
    ASSUME CacheInv, NEW l \in Loader, ReadsCached(l)
    PROVE  CacheInv'
<1> DEFINE f == Due(l)
           lock == Recorded(load[l].mine, f, cached[f])
           j == [load[l] EXCEPT !.mine = Recorded(@, f, cached[f]), !.todo = Tail(@)]
<1>1. CacheTyped
  BY DEF CacheInv
<1>2. load[l] \in Load /\ Placed(load[l]) /\ load[l].at = "file"
  BY <1>1, LoaderFields DEF ReadsCached, Reaching
<1>3. load[l].todo \in Seq(File) /\ load[l].todo # <<>>
  BY <1>2, LoadFields DEF ReadsCached, Reaching
<1>4. f \in File /\ Tail(load[l].todo) \in Seq(File)
  BY <1>3 DEF Due
<1>5. raced' \subseteq File /\ raced \subseteq raced'
  BY <1>1, <1>4, Touched DEF ReadsCached
<1>6. CASE GivesUp(l)
  BY <1>1, <1>2, <1>5, <1>6, GivesUpKeeps DEF ReadsCached
<1>7. CASE Goes(l, j)
  <2>1. cached[f] \in Content /\ load[l].mine \in Files
    BY <1>1, <1>2, <1>4, Rest, LoadFields DEF Files
  <2>2. lock \in Files
    BY <1>4, <2>1 DEF Files, Recorded
  <2>3. j \in Load
    BY <1>2, <1>4, <2>2 DEF Load
  <2>4. /\ j.at = load[l].at /\ j.pass = load[l].pass /\ j.weights = load[l].weights
        /\ j.hash = load[l].hash /\ j.bytes = load[l].bytes /\ j.mine = lock
    BY <1>2 DEF Load
  <2>5. Placed(j)
    BY <1>2, <2>4 DEF Placed
  <2>6. Quiet(l, j)
    BY <1>1, <1>2, <1>5, <1>7, <2>3, <2>4, <2>5, Rest DEF Quiet, ReadsCached
  <2>7. ASSUME NEW g \in File \ raced' PROVE Locked(g)' /\ Remembers(j, g) /\ Runs(j, g)
    <3>1. Locked(g)' /\ Runs(j, g) /\ Remembers(load[l], g)
      BY <1>2, <1>5, <2>4, Known DEF ReadsCached, Locked, Runs
    <3>2. CASE g = f
      <4>1. ~Fetching(l, f)
        BY <1>2 DEF Fetching
      <4>2. cached[f] = first[f]
        BY <1>4, <3>2, <4>1, CachedIsFirst DEF ReadsCached
      <4>3. lock[g] = cached[f]
        BY <1>4, <2>1, <3>2 DEF Recorded, Files
      <4>4. QED
        BY <2>4, <3>1, <3>2, <4>2, <4>3 DEF Remembers
    <3>3. CASE g # f
      <4>1. lock[g] = load[l].mine[g]
        BY <2>1, <3>3 DEF Recorded, Files
      <4>2. QED
        BY <2>4, <3>1, <4>1 DEF Remembers
    <3>4. QED
      BY <3>2, <3>3
  <2>8. QED
    BY <2>6, <2>7, QuietStep
<1>8. QED
  BY <1>6, <1>7 DEF ReadsCached

\* The choice of the weights has no hash yet.
LEMMA DeclaresKeeps ==
    ASSUME CacheInv, NEW l \in Loader, Declares(l)
    PROVE  CacheInv'
<1>1. CacheTyped
  BY DEF CacheInv
<1>2. load[l] \in Load /\ Placed(load[l]) /\ load[l].at = "file"
  BY <1>1, LoaderFields DEF Declares
<1>3. CASE GivesUp(l)
  BY <1>1, <1>2, <1>3, GivesUpKeeps, Rest DEF Declares
<1>4. ASSUME NEW w \in Weights \cup {"none"},
             Goes(l, [load[l] EXCEPT !.pass = "tokenizer", !.todo = <<"tokenizer">>,
                                     !.weights = w])
      PROVE  CacheInv'
  <2> DEFINE j == [load[l] EXCEPT !.pass = "tokenizer", !.todo = <<"tokenizer">>,
                                  !.weights = w]
  <2>1. <<"tokenizer">> \in Seq(File)
    BY Values
  <2>2. j \in Load
    BY <1>2, <2>1 DEF Load
  <2>3. j.at = "file" /\ j.pass = "tokenizer" /\ j.mine = load[l].mine
    BY <1>2 DEF Load
  <2>4. Placed(j)
    BY <2>3 DEF Placed
  <2>5. Quiet(l, j)
    BY <1>1, <1>2, <1>4, <2>2, <2>3, <2>4, Rest DEF Quiet, Declares
  <2>6. \A f \in File \ raced' : Locked(f)' /\ Remembers(j, f) /\ Runs(j, f)
    BY <1>2, <2>3, Known DEF Declares, Locked, Remembers, Runs
  <2>7. QED
    BY <2>5, <2>6, QuietStep
<1>5. Artifact \in Weights
  BY DEF Artifact, Weights
<1>6. QED
  BY <1>3, <1>4, <1>5 DEF Declares

\* A truncated lockfile has no hash.
LEMMA BeginsSaveKeeps ==
    ASSUME CacheInv, NEW l \in Loader, BeginsSave(l)
    PROVE  CacheInv'
<1> DEFINE j == [load[l] EXCEPT !.at = "saving"]
<1>1. CacheTyped
  BY DEF CacheInv
<1>2. load[l] \in Load /\ Placed(load[l]) /\ load[l].at = "file"
  BY <1>1, LoaderFields DEF BeginsSave
<1>3. j \in Load
  BY <1>2 DEF Load
<1>4. /\ j.at = "saving" /\ j.pass = load[l].pass /\ j.weights = load[l].weights
      /\ j.mine = load[l].mine
  BY <1>2 DEF Load
<1>5. Placed(j)
  BY <1>2, <1>4 DEF Placed
<1>6. lockfile' \in [state : {"absent", "torn", "whole"}, files : Files]
  BY Values DEF BeginsSave
<1>7. Quiet(l, j)
  BY <1>1, <1>2, <1>3, <1>4, <1>5, <1>6, Rest DEF Quiet, BeginsSave
<1>8. ASSUME NEW f \in File \ raced' PROVE Locked(f)' /\ Remembers(j, f) /\ Runs(j, f)
  <2>1. lockfile'.files[f] = Nothing
    BY DEF BeginsSave, NoFiles
  <2>2. QED
    BY <1>2, <1>4, <2>1, Known DEF BeginsSave, Locked, Remembers, Runs
<1>9. QED
  BY <1>7, <1>8, QuietStep

\* A saved lockfile is that of the loader.
LEMMA EndsSaveKeeps ==
    ASSUME CacheInv, NEW l \in Loader, EndsSave(l)
    PROVE  CacheInv'
<1>1. CacheTyped
  BY DEF CacheInv
<1>2. load[l] \in Load /\ Placed(load[l]) /\ load[l].at = "saving"
  BY <1>1, LoaderFields DEF EndsSave
<1>3. lockfile' \in [state : {"absent", "torn", "whole"}, files : Files]
  BY <1>2, LoadFields DEF EndsSave
<1>4. \A f \in File \ raced' : Locked(f)' /\ Remembers(load[l], f)
  BY <1>2, Known DEF EndsSave, Locked, Remembers
<1>5. CASE GivesUp(l)
  <2>1. Quiet(l, Resting)
    BY <1>1, <1>2, <1>3, <1>5, Values, Rest DEF Quiet, EndsSave, GivesUp, Resting
  <2>2. QED
    BY <1>4, <2>1, RestingKnows, QuietStep
<1>6. ASSUME load[l].pass = "weights", Goes(l, [load[l] EXCEPT !.at = "hash"])
      PROVE  CacheInv'
  <2> DEFINE j == [load[l] EXCEPT !.at = "hash"]
  <2>1. j \in Load
    BY <1>2 DEF Load
  <2>2. /\ j.at = "hash" /\ j.pass = load[l].pass /\ j.weights = load[l].weights
        /\ j.mine = load[l].mine
    BY <1>2 DEF Load
  <2>3. Placed(j)
    BY <1>2, <1>6, <2>2 DEF Placed
  <2>4. Quiet(l, j)
    BY <1>1, <1>2, <1>3, <1>6, <2>1, <2>2, <2>3, Rest DEF Quiet, EndsSave
  <2>5. \A f \in File \ raced' : Locked(f)' /\ Remembers(j, f) /\ Runs(j, f)
    BY <1>4, <2>2 DEF Remembers, Runs
  <2>6. QED
    BY <2>4, <2>5, QuietStep
<1>7. ASSUME load[l].weights # "none",
             Goes(l, [load[l] EXCEPT !.at = "lock", !.pass = "weights",
                          !.todo = <<load[l].weights, "tokenizer", "config">>])
      PROVE  CacheInv'
  <2> DEFINE j == [load[l] EXCEPT !.at = "lock", !.pass = "weights",
                       !.todo = <<load[l].weights, "tokenizer", "config">>]
  <2>1. load[l].weights \in Weights
    BY <1>2, <1>7, LoadFields
  <2>2. <<load[l].weights, "tokenizer", "config">> \in Seq(File)
    BY <2>1, Values
  <2>3. j \in Load
    BY <1>2, <2>2 DEF Load
  <2>4. j.at = "lock" /\ j.weights = load[l].weights /\ j.mine = load[l].mine
    BY <1>2 DEF Load
  <2>5. Placed(j)
    BY <2>1, <2>4 DEF Placed
  <2>6. Quiet(l, j)
    BY <1>1, <1>2, <1>3, <1>7, <2>3, <2>4, <2>5, Rest DEF Quiet, EndsSave
  <2>7. \A f \in File \ raced' : Locked(f)' /\ Remembers(j, f) /\ Runs(j, f)
    BY <1>4, <2>4 DEF Remembers, Runs
  <2>8. QED
    BY <2>6, <2>7, QuietStep
<1>8. QED
  BY <1>5, <1>6, <1>7 DEF EndsSave

\* The hash of a contract is that of the lockfile on disk, whoever saved it.
LEMMA TakesHashKeeps ==
    ASSUME CacheInv, NEW l \in Loader, TakesHash(l)
    PROVE  CacheInv'
<1> DEFINE w == load[l].weights
           j == [load[l] EXCEPT !.at = "load", !.hash = lockfile.files[load[l].weights]]
<1>1. CacheTyped
  BY DEF CacheInv
<1>2. load[l] \in Load /\ Placed(load[l]) /\ load[l].at = "hash"
  BY <1>1, LoaderFields DEF TakesHash
<1>3. w \in Weights /\ w \in File
  BY <1>2, Values DEF Placed
<1>4. lockfile.files \in Files
  BY <1>1, Rest
<1>5. lockfile.files[w] \in Content
  BY <1>3, <1>4 DEF Files
<1>6. j \in Load
  BY <1>2, <1>5 DEF Load
<1>7. /\ j.at = "load" /\ j.weights = w /\ j.mine = load[l].mine
      /\ j.hash = lockfile.files[w]
  BY <1>2 DEF Load
<1>8. Placed(j)
  BY <1>3, <1>7 DEF Placed
<1>9. Quiet(l, j)
  BY <1>1, <1>2, <1>6, <1>7, <1>8, Rest DEF Quiet, TakesHash
<1>10. \A f \in File \ raced' : Locked(f)' /\ Remembers(j, f) /\ Runs(j, f)
  BY <1>2, <1>7, Known DEF TakesHash, Locked, Remembers, Runs
<1>11. QED
  BY <1>9, <1>10, QuietStep

\* A model is built from what was first in the cache.
LEMMA BuildsKeeps ==
    ASSUME CacheInv, NEW l \in Loader, Builds(l)
    PROVE  CacheInv'
<1> DEFINE w == load[l].weights
           j == [load[l] EXCEPT !.at = "loaded", !.bytes = cached[w]]
<1>1. CacheTyped
  BY DEF CacheInv
<1>2. load[l] \in Load /\ Placed(load[l]) /\ load[l].at = "load"
  BY <1>1, LoaderFields DEF Builds
<1>3. w \in Weights /\ w \in File
  BY <1>2, Values DEF Placed
<1>4. raced' \subseteq File /\ raced \subseteq raced'
  BY <1>1, <1>3, Touched DEF Builds
<1>5. CASE GivesUp(l)
  BY <1>1, <1>2, <1>4, <1>5, GivesUpKeeps DEF Builds
<1>6. ASSUME Goes(l, j), cached[w].whole
      PROVE  CacheInv'
  <2>1. cached[w] \in Content
    BY <1>1, <1>3, Rest DEF Files
  <2>2. j \in Load
    BY <1>2, <2>1 DEF Load
  <2>3. /\ j.at = "loaded" /\ j.weights = w /\ j.mine = load[l].mine
        /\ j.hash = load[l].hash /\ j.bytes = cached[w]
    BY <1>2 DEF Load
  <2>4. Placed(j)
    BY <1>3, <2>3 DEF Placed
  <2>5. Quiet(l, j)
    BY <1>1, <1>2, <1>4, <1>6, <2>2, <2>3, <2>4, Rest DEF Quiet, Builds
  <2>6. ASSUME NEW f \in File \ raced' PROVE Locked(f)' /\ Remembers(j, f) /\ Runs(j, f)
    <3>1. Locked(f)' /\ Remembers(j, f) /\ Runs(load[l], f)
      BY <1>2, <1>4, <2>3, Known DEF Builds, Locked, Remembers
    <3>2. CASE f = w
      <4>1. ~Fetching(l, w)
        BY <1>2 DEF Fetching
      <4>2. cached[w] = first[w]
        BY <1>3, <3>2, <4>1, CachedIsFirst DEF Builds
      <4>3. first[w] # Nothing
        BY <1>6, <4>2 DEF Nothing
      <4>4. QED
        BY <1>2, <2>3, <3>1, <3>2, <4>2, <4>3 DEF Runs
    <3>3. QED
      BY <2>3, <3>1, <3>2 DEF Runs
  <2>7. QED
    BY <2>5, <2>6, QuietStep
<1>7. QED
  BY <1>3, <1>5, <1>6 DEF Builds

\* A crash in the middle of a write leaves a file that counts as raced.
LEMMA CrashesKeeps ==
    ASSUME CacheInv, NEW l \in Loader, Crashes(l)
    PROVE  CacheInv'
<1>1. CacheTyped
  BY DEF CacheInv
<1>2. load[l] \in Load /\ Placed(load[l])
  BY <1>1, LoaderFields
<1>3. load[l].at = "writing" => Due(l) \in File
  BY <1>2, LoadFields DEF Placed, Due
<1>4. raced' \subseteq File /\ raced \subseteq raced'
  BY <1>1, <1>3, Rest DEF Crashes
<1>5. QED
  BY <1>4, GivesUpKeeps DEF Crashes

-----------------------------------------------------------------------------
(* The fetch of a file.                                                    *)

\* A step of l to j in a fetch of f, that touches f.
Fetch(l, j, f) ==
    /\ j \in Load
    /\ Placed(j)
    /\ Goes(l, j)
    /\ f \in File
    /\ f = Due(l)
    /\ Touches(l, f)
    /\ load[l].at \in {"file", "fetched", "writing"}
    /\ j.at \in {"file", "fetched", "writing"}
    /\ j.at \in {"fetched", "writing"} => Head(j.todo) = f
    /\ j.weights = load[l].weights
    /\ \A g \in File \ {f} :
         j.mine[g] = load[l].mine[g] /\ cached'[g] = cached[g] /\ first'[g] = first[g]
    /\ cached' \in Files
    /\ first' \in Files
    /\ UNCHANGED <<repository, upstream, lockfile, loads>>

\* It keeps the invariant of the other files.
LEMMA FetchOthers ==
    ASSUME CacheInv, NEW l \in Loader, NEW j, NEW f, Fetch(l, j, f),
           NEW g \in File \ raced', g # f
    PROVE  FileOK(g)'
<1>1. CacheTyped
  BY DEF CacheInv
<1>2. j \in Load /\ Placed(j) /\ Goes(l, j)
  BY DEF Fetch
<1>3. load'[l] = j /\ \A k \in Loader \ {l} : load'[k] = load[k]
  BY <1>1, <1>2, GoesTyped
<1>4. raced \subseteq raced'
  BY <1>1, Touched DEF Fetch
<1>5. FileOK(g)
  BY <1>4 DEF CacheInv
<1>6. /\ cached'[g] = cached[g]
      /\ first'[g] = first[g]
      /\ lockfile' = lockfile
      /\ j.mine[g] = load[l].mine[g]
      /\ j.weights = load[l].weights
  BY DEF Fetch
<1>7. ~Fetching(l, g) /\ ~Fetching(l, g)'
  BY <1>3 DEF Fetching, Due, Fetch
<1>8. \A k \in Loader : Fetching(k, g)' = Fetching(k, g)
  BY <1>3, <1>7 DEF Fetching, Due
<1>9. Locked(g)' /\ Kept(g)'
  BY <1>5, <1>6, <1>8 DEF FileOK, Locked, Kept
<1>10. Alone(l, g)' /\ Knows(l, g)'
  <2>1. Remembers(load[l], g)
    BY <1>5, <1>7 DEF FileOK, Knows
  <2>2. j.at \notin {"load", "loaded"}
    BY DEF Fetch
  <2>3. QED
    BY <1>3, <1>6, <1>7, <2>1, <2>2 DEF Alone, Knows, Remembers, Runs
<1>11. ASSUME NEW k \in Loader \ {l} PROVE Alone(k, g)' /\ Knows(k, g)'
  <2>1. Alone(k, g) /\ Knows(k, g)
    BY <1>5 DEF FileOK
  <2>2. load'[k] = load[k]
    BY <1>3
  <2>3. Alone(k, g)'
    BY <1>6, <1>8, <2>1, <2>2 DEF Alone
  <2>4. Knows(k, g)'
    BY <1>6, <1>8, <2>1, <2>2 DEF Knows, Remembers, Runs
  <2>5. QED
    BY <2>3, <2>4
<1>12. QED
  BY <1>9, <1>10, <1>11 DEF FileOK

\* It keeps the invariant if it keeps that of f when nobody else fetches it.
LEMMA FetchStep ==
    ASSUME CacheInv, NEW l \in Loader, NEW j, NEW f, Fetch(l, j, f),
           f \notin raced' =>
             /\ Locked(f)'
             /\ Kept(f)'
             /\ \A k \in Loader : Alone(k, f)' /\ Knows(k, f)'
    PROVE  CacheInv'
<1>1. CacheTyped
  BY DEF CacheInv
<1>2. raced' \subseteq File
  BY <1>1, Touched DEF Fetch
<1>3. CacheTyped'
  BY <1>1, <1>2, StepTyped, Rest DEF Fetch
<1>4. \A g \in File \ raced' : FileOK(g)'
  BY FetchOthers DEF FileOK
<1>5. QED
  BY <1>3, <1>4 DEF CacheInv

\* Who else is there when l touches f and does not race.
LEMMA Alones ==
    ASSUME CacheInv, NEW l \in Loader, NEW j, NEW f, Fetch(l, j, f), f \notin raced'
    PROVE  /\ f \in File \ raced
           /\ FileOK(f)
           /\ load'[l] = j
           /\ \A k \in Loader \ {l} :
                /\ load'[k] = load[k]
                /\ ~Fetching(k, f)
                /\ ~Fetching(k, f)'
                /\ Remembers(load[k], f)
                /\ Runs(load[k], f)
<1>1. CacheTyped
  BY DEF CacheInv
<1>2. load'[l] = j /\ \A k \in Loader \ {l} : load'[k] = load[k]
  BY <1>1, GoesTyped DEF Fetch
<1>3. f \in File \ raced /\ \A k \in Loader \ {l} : ~Fetching(k, f)
  BY DEF Fetch, Touches
<1>4. FileOK(f)
  BY <1>3 DEF CacheInv
<1>5. \A k \in Loader \ {l} : ~Fetching(k, f)'
  BY <1>2, <1>3 DEF Fetching, Due
<1>6. \A k \in Loader \ {l} : Remembers(load[k], f) /\ Runs(load[k], f)
  BY <1>3, <1>4 DEF FileOK, Knows
<1>7. QED
  BY <1>2, <1>3, <1>4, <1>5, <1>6

\* Another loader is not disturbed as long as f was not whole in the cache or
\* stays as it first was.
LEMMA OtherLoader ==
    ASSUME CacheInv, NEW l \in Loader, NEW j, NEW f, Fetch(l, j, f), f \notin raced',
           first'[f] = first[f] \/ first[f] = Nothing,
           NEW k \in Loader \ {l}
    PROVE  Alone(k, f)' /\ Knows(k, f)'
<1>1. /\ load'[k] = load[k]
      /\ ~Fetching(k, f)'
      /\ Remembers(load[k], f)
      /\ Runs(load[k], f)
  BY Alones
<1>2. Remembers(load[k], f)' /\ Runs(load[k], f)'
  BY <1>1 DEF Remembers, Runs
<1>3. QED
  BY <1>1, <1>2 DEF Alone, Knows

\* A fetch begins with nothing in the cache.
LEMMA FetchesKeeps ==
    ASSUME CacheInv, NEW l \in Loader, Fetches(l)
    PROVE  CacheInv'
<1>1. CacheTyped
  BY DEF CacheInv
<1>2. load[l] \in Load /\ Placed(load[l]) /\ load[l].at = "file"
  BY <1>1, LoaderFields DEF Fetches, Reaching
<1>3. load[l].todo \in Seq(File) /\ load[l].todo # <<>>
  BY <1>2, LoadFields DEF Fetches, Reaching
<1>4. PICK f \in File : f = Due(l)
  BY <1>3 DEF Due
<1> DEFINE new == Whole(upstream)
           lock == Recorded(load[l].mine, f, new)
           j == [load[l] EXCEPT !.at = "fetched", !.got = new, !.mine = lock]
<1>5. CASE GivesUp(l)
  <2>1. raced' \subseteq File /\ raced \subseteq raced'
    BY <1>1, <1>4, Touched DEF Fetches
  <2>2. QED
    BY <1>1, <1>2, <1>5, <2>1, GivesUpKeeps DEF Fetches
<1>6. CASE Goes(l, j)
  <2>1. new \in Published /\ new \in Content
    BY <1>1, Rest, Values
  <2>2. load[l].mine \in Files
    BY <1>2, LoadFields
  <2>3. lock \in Files
    BY <1>4, <2>1, <2>2 DEF Files, Recorded
  <2>4. j \in Load
    BY <1>2, <2>1, <2>3 DEF Load
  <2>5. /\ j.at = "fetched" /\ j.pass = load[l].pass /\ j.weights = load[l].weights
        /\ j.todo = load[l].todo /\ j.got = new /\ j.mine = lock
    BY <1>2 DEF Load
  <2>6. Placed(j)
    BY <1>2, <1>3, <2>1, <2>5 DEF Placed
  <2>7. \A g \in File \ {f} : lock[g] = load[l].mine[g]
    BY <2>2 DEF Recorded, Files
  <2>8. lock[f] = new
    BY <1>4, <2>2 DEF Recorded, Files
  <2>9. Fetch(l, j, f)
    BY <1>1, <1>2, <1>4, <1>6, <2>4, <2>5, <2>6, <2>7, Rest DEF Fetch, Fetches, Due
  <2>10. ASSUME f \notin raced'
         PROVE  /\ Locked(f)'
                /\ Kept(f)'
                /\ \A k \in Loader : Alone(k, f)' /\ Knows(k, f)'
    <3>1. /\ FileOK(f)
          /\ load'[l] = j
          /\ \A k \in Loader \ {l} : ~Fetching(k, f) /\ ~Fetching(k, f)'
      BY <2>9, <2>10, Alones
    <3>2. UNCHANGED <<cached, lockfile, first>>
      BY DEF Fetches
    <3>3. ~Fetching(l, f)
      BY <1>2 DEF Fetching
    <3>4. cached[f] = Nothing /\ first[f] = Nothing
      BY <1>4, <3>1, <3>3 DEF FileOK, Kept, Fetches, IsCached
    <3>5. Fetching(l, f)'
      BY <1>4, <2>5, <3>1 DEF Fetching, Due
    <3>6. Locked(f)' /\ Kept(f)'
      BY <3>1, <3>2, <3>5 DEF FileOK, Locked, Kept
    <3>7. Alone(l, f)'
      BY <2>5, <2>8, <3>1, <3>2, <3>4 DEF Alone
    <3>8. Knows(l, f)'
      BY <2>5, <3>1, <3>5 DEF Knows, Runs
    <3>9. \A k \in Loader \ {l} : Alone(k, f)' /\ Knows(k, f)'
      BY <2>9, <2>10, <3>2, OtherLoader
    <3>10. QED
      BY <3>6, <3>7, <3>8, <3>9
  <2>11. QED
    BY <2>9, <2>10, FetchStep
<1>7. QED
  BY <1>4, <1>5, <1>6 DEF Fetches

\* The truncated file is that of the only fetch.
LEMMA BeginsWriteKeeps ==
    ASSUME CacheInv, NEW l \in Loader, BeginsWrite(l)
    PROVE  CacheInv'
<1> DEFINE j == [load[l] EXCEPT !.at = "writing"]
<1>1. CacheTyped
  BY DEF CacheInv
<1>2. load[l] \in Load /\ Placed(load[l]) /\ load[l].at = "fetched"
  BY <1>1, LoaderFields DEF BeginsWrite, Reaching
<1>3. load[l].todo \in Seq(File) /\ load[l].todo # <<>>
  BY <1>2, LoadFields DEF BeginsWrite, Reaching
<1>4. PICK f \in File : f = Due(l)
  BY <1>3 DEF Due
<1>5. j \in Load
  BY <1>2 DEF Load
<1>6. /\ j.at = "writing" /\ j.pass = load[l].pass /\ j.weights = load[l].weights
      /\ j.todo = load[l].todo /\ j.got = load[l].got /\ j.mine = load[l].mine
  BY <1>2 DEF Load
<1>7. Placed(j)
  BY <1>2, <1>6 DEF Placed
<1>8. Half(load[l].got) \in Content /\ cached \in Files
  BY <1>1, <1>2, Rest, LoadFields, Values
<1>9. /\ cached' \in Files
      /\ cached'[f] = Half(load[l].got)
      /\ \A g \in File \ {f} : cached'[g] = cached[g]
  BY <1>4, <1>8 DEF BeginsWrite, Files
<1>10. Fetch(l, j, f)
  BY <1>1, <1>2, <1>4, <1>5, <1>6, <1>7, <1>9, Rest DEF Fetch, BeginsWrite, Due
<1>11. ASSUME f \notin raced'
       PROVE  /\ Locked(f)'
              /\ Kept(f)'
              /\ \A k \in Loader : Alone(k, f)' /\ Knows(k, f)'
  <2>1. /\ FileOK(f)
        /\ load'[l] = j
        /\ \A k \in Loader \ {l} : ~Fetching(k, f) /\ ~Fetching(k, f)'
    BY <1>10, <1>11, Alones
  <2>2. UNCHANGED <<lockfile, first>>
    BY DEF BeginsWrite
  <2>3. Fetching(l, f) /\ Fetching(l, f)'
    BY <1>2, <1>4, <1>6, <2>1 DEF Fetching, Due
  <2>4. Locked(f)' /\ Kept(f)'
    BY <2>1, <2>2, <2>3 DEF FileOK, Locked, Kept
  <2>5. Alone(l, f)
    BY <2>1 DEF FileOK
  <2>6. Alone(l, f)'
    BY <1>6, <1>9, <2>1, <2>2, <2>3, <2>5 DEF Alone
  <2>7. Knows(l, f)'
    BY <1>6, <2>1, <2>3 DEF Knows, Runs
  <2>8. \A k \in Loader \ {l} : Alone(k, f)' /\ Knows(k, f)'
    BY <1>10, <1>11, <2>2, OtherLoader
  <2>9. QED
    BY <2>4, <2>6, <2>7, <2>8
<1>12. QED
  BY <1>10, <1>11, FetchStep

\* What ends in the cache is what the loader recorded, and the first to be there.
LEMMA EndsWriteKeeps ==
    ASSUME CacheInv, NEW l \in Loader, EndsWrite(l)
    PROVE  CacheInv'
<1> DEFINE j == [load[l] EXCEPT !.at = "file", !.todo = Tail(@)]
<1>1. CacheTyped
  BY DEF CacheInv
<1>2. load[l] \in Load /\ Placed(load[l]) /\ load[l].at = "writing"
  BY <1>1, LoaderFields DEF EndsWrite, Reaching
<1>3. load[l].todo \in Seq(File) /\ load[l].todo # <<>>
  BY <1>2, LoadFields DEF EndsWrite, Reaching
<1>4. PICK f \in File : f = Due(l)
  BY <1>3 DEF Due
<1>5. j \in Load
  <2>1. Tail(load[l].todo) \in Seq(File)
    BY <1>3
  <2>2. QED
    BY <1>2, <2>1 DEF Load
<1>6. /\ j.at = "file" /\ j.pass = load[l].pass /\ j.weights = load[l].weights
      /\ j.mine = load[l].mine
  BY <1>2 DEF Load
<1>7. Placed(j)
  BY <1>2, <1>6 DEF Placed
<1>8. load[l].got \in Content /\ cached \in Files /\ first \in Files
  BY <1>1, <1>2, Rest, LoadFields
<1>9. /\ cached' \in Files
      /\ cached'[f] = load[l].got
      /\ \A g \in File \ {f} : cached'[g] = cached[g]
  BY <1>4, <1>8 DEF EndsWrite, Files
<1>10. /\ first' \in Files
       /\ first[f] = Nothing => first'[f] = load[l].got
       /\ \A g \in File \ {f} : first'[g] = first[g]
  BY <1>4, <1>8 DEF EndsWrite, Files
<1>11. Fetch(l, j, f)
  BY <1>2, <1>4, <1>5, <1>6, <1>7, <1>9, <1>10 DEF Fetch, EndsWrite
<1>12. ASSUME f \notin raced'
       PROVE  /\ Locked(f)'
              /\ Kept(f)'
              /\ \A k \in Loader : Alone(k, f)' /\ Knows(k, f)'
  <2>1. /\ FileOK(f)
        /\ load'[l] = j
    BY <1>11, <1>12, Alones
  <2>2. Fetching(l, f) /\ ~Fetching(l, f)'
    BY <1>2, <1>4, <1>6, <2>1 DEF Fetching
  <2>3. /\ load[l].mine[f] = load[l].got
        /\ first[f] = Nothing
    BY <2>1, <2>2 DEF FileOK, Alone
  <2>4. first'[f] = load[l].got
    BY <1>10, <2>3
  <2>5. Locked(f)'
    BY <2>1, <2>3 DEF FileOK, Locked, EndsWrite
  <2>6. Kept(f)'
    BY <1>9, <2>4 DEF Kept
  <2>7. Alone(l, f)' /\ Knows(l, f)'
    BY <1>6, <2>1, <2>2, <2>3, <2>4 DEF Alone, Knows, Remembers, Runs
  <2>8. \A k \in Loader \ {l} : Alone(k, f)' /\ Knows(k, f)'
    BY <1>11, <1>12, <2>3, OtherLoader
  <2>9. QED
    BY <2>5, <2>6, <2>7, <2>8
<1>13. QED
  BY <1>11, <1>12, FetchStep

-----------------------------------------------------------------------------
(* The theorems.                                                           *)

\* The invariant holds at first.
LEMMA CacheInvBegins == CacheInit => CacheInv
<1> SUFFICES ASSUME CacheInit PROVE CacheInv
  OBVIOUS
<1>1. CacheTyped
  BY CacheTypesBegin
<1>2. ASSUME NEW f \in File PROVE FileOK(f)
  <2>1. cached[f] = Nothing /\ first[f] = Nothing /\ lockfile.files[f] = Nothing
    BY <1>2 DEF CacheInit, NoFiles
  <2>2. Locked(f) /\ Kept(f)
    BY <2>1 DEF Locked, Kept
  <2>3. ASSUME NEW l \in Loader PROVE Alone(l, f) /\ Knows(l, f)
    <3>1. load[l] = Resting /\ Resting.at = "rest"
      BY DEF CacheInit, Resting
    <3>2. QED
      BY <3>1, RestingKnows DEF Alone, Knows, Fetching
  <2>4. QED
    BY <2>2, <2>3 DEF FileOK
<1>3. QED
  BY <1>1, <1>2 DEF CacheInv

\* Nothing but the branch moves, or nothing at all.
LEMMA MovesKeeps ==
    ASSUME CacheInv,
           upstream' \in Nat \ {0},
           UNCHANGED <<repository, cached, lockfile, load, loads, first, raced>>
    PROVE  CacheInv'
<1>1. CacheTyped'
  BY DEF CacheInv, CacheTyped, CacheTypeOK
<1>2. ASSUME NEW f \in File \ raced PROVE FileOK(f)'
  <2>1. FileOK(f)
    BY DEF CacheInv
  <2>2. \A l \in Loader : Fetching(l, f)' = Fetching(l, f)
    BY DEF Fetching, Due
  <2>3. Locked(f)' /\ Kept(f)'
    BY <2>1, <2>2 DEF FileOK, Locked, Kept
  <2>4. ASSUME NEW l \in Loader PROVE Alone(l, f)' /\ Knows(l, f)'
    <3>1. Alone(l, f) /\ Knows(l, f)
      BY <2>1 DEF FileOK
    <3>2. QED
      BY <2>2, <3>1 DEF Alone, Knows, Remembers, Runs
  <2>5. QED
    BY <2>3, <2>4 DEF FileOK
<1>3. QED
  BY <1>1, <1>2 DEF CacheInv

\* Every step keeps the invariant.
LEMMA CacheInvStays == CacheInv /\ [CacheNext]_cacheVars => CacheInv'
<1> SUFFICES ASSUME CacheInv, [CacheNext]_cacheVars PROVE CacheInv'
  OBVIOUS
<1>1. upstream \in Nat \ {0}
  BY Rest DEF CacheInv
<1>2. CASE UNCHANGED cacheVars
  BY <1>1, <1>2, MovesKeeps DEF cacheVars
<1>3. CASE Moves
  BY <1>1, <1>3, MovesKeeps DEF Moves
<1>4. ASSUME NEW l \in Loader,
             \/ Starts(l) \/ LoadsLockfile(l) \/ ReadsCached(l) \/ Fetches(l)
             \/ BeginsWrite(l) \/ EndsWrite(l) \/ Declares(l) \/ BeginsSave(l)
             \/ EndsSave(l) \/ TakesHash(l) \/ Builds(l) \/ Crashes(l)
      PROVE  CacheInv'
  BY <1>4, StartsKeeps, LoadsLockfileKeeps, ReadsCachedKeeps, FetchesKeeps,
     BeginsWriteKeeps, EndsWriteKeeps, DeclaresKeeps, BeginsSaveKeeps, EndsSaveKeeps,
     TakesHashKeeps, BuildsKeeps, CrashesKeeps
<1>5. QED
  BY <1>2, <1>3, <1>4 DEF CacheNext

\* Every reachable state of the cache directory is typed: who fetches has a
\* whole file to write, and who builds a model has chosen its weights.
THEOREM CacheTypeCorrect == CacheSpec => []CacheTypeOK
<1>1. CacheInv => CacheTypeOK
  BY DEF CacheInv, CacheTyped
<1>2. QED
  BY CacheInvBegins, CacheInvStays, <1>1, PTL DEF CacheSpec

\* A model that loads runs on the weights that were cached first and its
\* contract has their hash or none, for any number of loaders and loads,
\* wherever the branch moves, whoever else saves the lockfile and whatever
\* crashes, unless the fetch of those weights was itself shared or interrupted.
THEOREM FirstUse == CacheSpec => []FirstUseIsTrusted
<1>1. CacheInv => FirstUseIsTrusted
  <2> SUFFICES ASSUME CacheInv, NEW l \in Loader,
                      load[l].at = "loaded", load[l].weights \notin raced
               PROVE  /\ load[l].bytes = first[load[l].weights]
                      /\ load[l].hash \in {Nothing, load[l].bytes}
    BY DEF FirstUseIsTrusted
  <2>1. Placed(load[l])
    BY LoaderFields DEF CacheInv
  <2>2. load[l].weights \in File \ raced
    BY <2>1, Values DEF Placed
  <2>3. Runs(load[l], load[l].weights)
    BY <2>2, Known
  <2>4. QED
    BY <2>3 DEF Runs
<1>2. QED
  BY CacheInvBegins, CacheInvStays, <1>1, PTL DEF CacheSpec

-----------------------------------------------------------------------------
(* The batches.                                                            *)

Text == [chars : Nat, tokens : Nat]

\* The largest number of a bounded set.
LEMMA LargestOf ==
    ASSUME NEW S \in SUBSET Nat, S # {}, NEW bound \in Nat, \A n \in S : n <= bound
    PROVE  Max(S) \in S /\ \A n \in S : n <= Max(S)
<1> DEFINE below == {k \in Nat : \E n \in S : k = bound - n}
<1>1. below \in SUBSET Nat /\ below # {}
  <2>1. PICK n \in S : TRUE
    OBVIOUS
  <2>2. bound - n \in below
    BY <2>1
  <2>3. QED
    BY <2>2
<1>2. PICK k \in below : \A n \in below : k <= n
  <2> HIDE DEF below
  <2>1. QED
    BY <1>1, LeastOf
<1>3. PICK m \in S : k = bound - m
  OBVIOUS
<1>4. ASSUME NEW n \in S PROVE n <= m
  <2>1. bound - n \in below
    OBVIOUS
  <2>2. k <= bound - n
    BY <1>2, <2>1
  <2> HIDE DEF below
  <2>3. QED
    BY <1>3, <2>2
<1>5. \E x \in S : \A n \in S : x >= n
  BY <1>4
<1>6. Max(S) \in S /\ \A n \in S : Max(S) >= n
  BY <1>5 DEF Max
<1>7. QED
  BY <1>6

\* A slice and the next element.
LEMMA SliceGrows ==
    ASSUME NEW T, NEW s \in Seq(T), NEW n \in 1 .. Len(s), NEW a \in 1 .. n
    PROVE  SubSeq(s, a, n) = Append(SubSeq(s, a, n - 1), s[n])
<1>1. SubSeq(s, a, n) \in Seq(T) /\ Len(SubSeq(s, a, n)) = n - a + 1
  OBVIOUS
<1>2. SubSeq(s, a, n - 1) \in Seq(T) /\ Len(SubSeq(s, a, n - 1)) = n - a
  OBVIOUS
<1>3. \A i \in 1 .. n - a + 1 : SubSeq(s, a, n)[i] = s[a + i - 1]
  OBVIOUS
<1>4. \A i \in 1 .. n - a : SubSeq(s, a, n - 1)[i] = s[a + i - 1]
  OBVIOUS
<1> DEFINE t == SubSeq(s, a, n)
           u == SubSeq(s, a, n - 1)
<1>5. s[n] \in T /\ n - a \in Nat
  OBVIOUS
<1> HIDE DEF t, u
<1>6. /\ Append(u, s[n]) \in Seq(T) /\ Len(Append(u, s[n])) = n - a + 1
      /\ Append(u, s[n])[n - a + 1] = s[n]
      /\ \A i \in 1 .. n - a : Append(u, s[n])[i] = u[i]
  BY <1>2, <1>5 DEF u
<1>7. \A i \in 1 .. n - a + 1 : t[i] = Append(u, s[n])[i]
  <2>1. ASSUME NEW i \in 1 .. n - a + 1 PROVE t[i] = Append(u, s[n])[i]
    <3>1. CASE i = n - a + 1
      BY <1>3, <1>6, <3>1 DEF t
    <3>2. CASE i # n - a + 1
      <4>1. i \in 1 .. n - a
        BY <3>2
      <4>2. QED
        BY <1>3, <1>4, <1>6, <4>1 DEF t, u
    <3>3. QED
      BY <3>1, <3>2
  <2>2. QED
    BY <2>1
<1>8. t \in Seq(T) /\ Len(t) = n - a + 1
  BY <1>1 DEF t
<1>9. t = Append(u, s[n])
  BY <1>6, <1>7, <1>8, SeqEqual
<1>10. QED
  BY <1>9 DEF t, u

-----------------------------------------------------------------------------
(* What a batch costs.                                                     *)

Hash == DOMAIN texts
Texting == texts \in Seq(Text) /\ setting \in Settings

LEMMA Limits ==
    ASSUME Texting
    PROVE  /\ Items \in Nat /\ Chars \in Nat /\ setting.area \in Nat /\ PageSize \in Nat \ {0}
           /\ \A h \in Hash : texts[h].chars \in Nat /\ Tokens(h) \in Nat /\ Tokens(h) <= MaxSequence
           /\ MaxSequence \in Nat
<1>1. /\ setting.items \in Nat \ {0} /\ setting.area \in Nat /\ setting.page \in Nat \ {0}
      /\ setting.chars \in Nat
      /\ setting.own # Unmeasured => setting.own.items \in Nat /\ setting.own.chars \in Nat
  BY PackingAssumption DEF Texting
<1>2. Items \in Nat /\ Chars \in Nat /\ PageSize \in Nat \ {0}
  BY <1>1 DEF Items, Chars, PageSize, Longer
<1>3. ASSUME NEW h \in Hash
      PROVE  texts[h].chars \in Nat /\ Tokens(h) \in Nat /\ Tokens(h) <= MaxSequence
  <2>1. texts[h] \in Text
    BY DEF Hash, Texting
  <2>2. QED
    BY <2>1, PackingAssumption DEF Text, Tokens
<1>4. QED
  BY <1>1, <1>2, <1>3, PackingAssumption

CharsUpTo(batch) ==
    LET chars[n \in 0 .. Len(batch)] ==
          IF n = 0 THEN 0 ELSE chars[n - 1] + texts[batch[n]].chars
    IN chars

LEMMA CharsUpToIs ==
    ASSUME Texting, NEW batch \in Seq(Hash)
    PROVE  /\ CharsUpTo(batch)[0] = 0
           /\ \A n \in 1 .. Len(batch) :
                 CharsUpTo(batch)[n] = CharsUpTo(batch)[n - 1] + texts[batch[n]].chars
           /\ \A n \in 0 .. Len(batch) : CharsUpTo(batch)[n] \in Nat
<1> DEFINE N == Len(batch)
           F == [p \in (1 .. N) \X Nat |-> p[2] + texts[batch[p[1]]].chars]
           C == CharsUpTo(batch)
<1>1. N \in Nat
  OBVIOUS
<1>2. ASSUME NEW n \in 1 .. N PROVE texts[batch[n]].chars \in Nat
  <2>1. batch[n] \in Hash
    OBVIOUS
  <2>2. QED
    BY <2>1, Limits
<1>3. F \in [(1 .. N) \X Nat -> Nat]
  BY <1>2
<1>4. PICK g \in [0 .. N -> Nat] : RecursiveUpTo(g, N, 0, F)
  <2> HIDE DEF F, N
  <2>1. QED
    BY <1>1, <1>3, RecursionUpTo
<1>5. ASSUME NEW k \in 1 .. N PROVE g[k] = g[k - 1] + texts[batch[k]].chars
  <2>1. g[k] = F[<<k, g[k - 1]>>]
    BY <1>4 DEF RecursiveUpTo
  <2>2. g[k - 1] \in Nat
    BY <1>1
  <2>3. <<k, g[k - 1]>> \in (1 .. N) \X Nat
    BY <2>2
  <2>4. QED
    BY <2>1, <2>3
<1>6. g[0] = 0
  BY <1>4 DEF RecursiveUpTo
<1>7. g = [n \in 0 .. Len(batch) |-> IF n = 0 THEN 0 ELSE g[n - 1] + texts[batch[n]].chars]
  BY <1>1, <1>5, <1>6
<1>8. C = [n \in 0 .. Len(batch) |-> IF n = 0 THEN 0 ELSE C[n - 1] + texts[batch[n]].chars]
  BY <1>7 DEF CharsUpTo
<1> HIDE DEF C
<1>9. C[0] = 0 /\ \A n \in 1 .. N : C[n] = C[n - 1] + texts[batch[n]].chars
  <2> DEFINE D == [n \in 0 .. N |-> IF n = 0 THEN 0 ELSE C[n - 1] + texts[batch[n]].chars]
  <2>1. D[0] = 0
    BY <1>1
  <2>2. ASSUME NEW n \in 1 .. N PROVE D[n] = C[n - 1] + texts[batch[n]].chars
    BY <1>1
  <2>3. C = D
    BY <1>8
  <2> HIDE DEF D
  <2>4. QED
    BY <2>1, <2>2, <2>3
<1>10. \A n \in 0 .. N : C[n] \in Nat
  <2> DEFINE S == {n \in 0 .. N : C[n] \in Nat}
  <2>1. 0 \in S
    BY <1>1, <1>9
  <2>2. ASSUME NEW k \in 1 .. N, k - 1 \in S PROVE k \in S
    <3>1. C[k - 1] \in Nat /\ k \in 0 .. N
      BY <2>2
    <3>2. C[k] = C[k - 1] + texts[batch[k]].chars /\ texts[batch[k]].chars \in Nat
      BY <1>2, <1>9
    <3>3. C[k] \in Nat
      BY <3>1, <3>2
    <3>4. QED
      BY <3>1, <3>3
  <2>3. 0 .. N \subseteq S
    <3> HIDE DEF S, N
    <3>1. QED
      BY <1>1, <2>1, <2>2, NatUpTo
  <2>4. QED
    BY <2>3
<1>11. QED
  BY <1>9, <1>10 DEF C

LEMMA CharsAppended ==
    ASSUME Texting, NEW batch \in Seq(Hash), NEW h \in Hash
    PROVE  /\ CharsOf(Append(batch, h)) = CharsOf(batch) + texts[h].chars
           /\ CharsOf(batch) \in Nat
<1> DEFINE more == Append(batch, h)
           N == Len(batch)
           S == {n \in 0 .. N : CharsUpTo(more)[n] = CharsUpTo(batch)[n]}
<1>1. /\ more \in Seq(Hash) /\ Len(more) = N + 1 /\ more[N + 1] = h /\ N \in Nat
      /\ \A k \in 1 .. N : more[k] = batch[k]
  OBVIOUS
<1>2. /\ CharsOf(more) = CharsUpTo(more)[Len(more)]
      /\ CharsOf(batch) = CharsUpTo(batch)[N]
  BY DEF CharsOf, CharsUpTo
<1> HIDE DEF more
<1>3. 0 \in S
  BY <1>1, CharsUpToIs
<1>4. ASSUME NEW k \in 1 .. N, k - 1 \in S PROVE k \in S
  <2>1. CharsUpTo(batch)[k] = CharsUpTo(batch)[k - 1] + texts[batch[k]].chars
    BY CharsUpToIs
  <2>2. k \in 1 .. Len(more) /\ k \in 0 .. N
    BY <1>1
  <2>3. CharsUpTo(more)[k] = CharsUpTo(more)[k - 1] + texts[more[k]].chars
    BY <1>1, <2>2, CharsUpToIs
  <2>4. QED
    BY <1>1, <1>4, <2>1, <2>2, <2>3
<1>5. 0 .. N \subseteq S
  <2> HIDE DEF S, N
  <2>1. QED
    BY <1>1, <1>3, <1>4, NatUpTo
<1>6. CharsUpTo(more)[N] = CharsUpTo(batch)[N]
  BY <1>1, <1>5
<1>7. CharsUpTo(more)[N + 1] = CharsUpTo(more)[N] + texts[h].chars
  <2>1. N + 1 \in 1 .. Len(more) /\ N + 1 - 1 = N
    BY <1>1
  <2>2. CharsUpTo(more)[N + 1] = CharsUpTo(more)[N + 1 - 1] + texts[more[N + 1]].chars
    BY <1>1, <2>1, CharsUpToIs
  <2>3. QED
    BY <1>1, <2>1, <2>2
<1>8. CharsUpTo(batch)[N] \in Nat
  BY <1>1, CharsUpToIs
<1>9. CharsOf(more) = CharsOf(batch) + texts[h].chars
  BY <1>1, <1>2, <1>6, <1>7
<1>10. QED
  BY <1>2, <1>8, <1>9 DEF more

LEMMA TokensBounded ==
    ASSUME Texting, NEW batch \in Seq(Hash),
           NEW S, S = {0} \cup {Tokens(h) : h \in ToSet(batch)}
    PROVE  /\ S \in SUBSET Nat /\ S # {} /\ \A n \in S : n <= MaxSequence
           /\ MaxSequence \in Nat
           /\ TokensOf(batch) = Max(S)
           /\ Max(S) \in S /\ \A n \in S : n <= Max(S)
<1>1. \A h \in ToSet(batch) : h \in Hash
  BY DEF ToSet
<1>2. /\ S \in SUBSET Nat /\ S # {} /\ \A n \in S : n <= MaxSequence
      /\ MaxSequence \in Nat
  BY <1>1, Limits
<1>3. QED
  BY <1>2, LargestOf DEF TokensOf

LEMMA EmptyCosts ==
    ASSUME Texting
    PROVE  CharsOf(<<>>) = 0 /\ TokensOf(<<>>) = 0
<1>1. <<>> \in Seq(Hash) /\ Len(<<>>) = 0
  OBVIOUS
<1>2. CharsOf(<<>>) = 0
  <2>1. CharsUpTo(<<>>)[0] = 0
    BY <1>1, CharsUpToIs
  <2>2. CharsOf(<<>>) = CharsUpTo(<<>>)[Len(<<>>)]
    BY DEF CharsOf, CharsUpTo
  <2>3. QED
    BY <1>1, <2>1, <2>2
<1>3. TokensOf(<<>>) = 0
  <2>1. PICK U : U = {0} \cup {Tokens(g) : g \in ToSet(<<>>)}
    OBVIOUS
  <2>2. U = {0}
    BY <2>1 DEF ToSet
  <2>3. TokensOf(<<>>) = Max(U) /\ Max(U) \in U
    BY <1>1, <2>1, TokensBounded
  <2>4. QED
    BY <2>2, <2>3
<1>4. QED
  BY <1>2, <1>3

LEMMA TokensAppended ==
    ASSUME Texting, NEW batch \in Seq(Hash), NEW h \in Hash
    PROVE  /\ TokensOf(Append(batch, h)) = Longer(TokensOf(batch), Tokens(h))
           /\ TokensOf(batch) \in Nat
<1> DEFINE more == Append(batch, h)
<1>1. PICK S : S = {0} \cup {Tokens(g) : g \in ToSet(batch)}
  OBVIOUS
<1>2. PICK T : T = {0} \cup {Tokens(g) : g \in ToSet(more)}
  OBVIOUS
<1>3. more \in Seq(Hash)
  OBVIOUS
<1>4. ToSet(more) = ToSet(batch) \cup {h}
  <2>1. /\ DOMAIN more = 1 .. Len(batch) + 1 /\ DOMAIN batch = 1 .. Len(batch) /\ Len(batch) \in Nat
        /\ more[Len(batch) + 1] = h /\ \A i \in 1 .. Len(batch) : more[i] = batch[i]
    OBVIOUS
  <2> HIDE DEF more
  <2>2. \A i \in DOMAIN more : i \in DOMAIN batch \/ i = Len(batch) + 1
    BY <2>1
  <2>3. DOMAIN batch \subseteq DOMAIN more /\ Len(batch) + 1 \in DOMAIN more
    BY <2>1
  <2>4. \A i \in DOMAIN batch : more[i] = batch[i]
    BY <2>1
  <2>5. QED
    BY <2>1, <2>2, <2>3, <2>4 DEF ToSet
<1>5. T = S \cup {Tokens(h)} /\ Tokens(h) \in Nat
  BY <1>1, <1>2, <1>4, Limits
<1> HIDE DEF more
<1>6. /\ TokensOf(batch) = Max(S) /\ S \in SUBSET Nat
      /\ Max(S) \in S /\ \A n \in S : n <= Max(S)
  BY <1>1, TokensBounded
<1>7. /\ TokensOf(more) = Max(T) /\ T \in SUBSET Nat
      /\ Max(T) \in T /\ \A n \in T : n <= Max(T)
  BY <1>2, <1>3, TokensBounded
<1>8. Max(T) = Longer(Max(S), Tokens(h))
  <2>1. Max(S) \in Nat /\ Max(T) \in Nat
    BY <1>6, <1>7
  <2>2. Max(S) <= Max(T) /\ Tokens(h) <= Max(T)
    BY <1>5, <1>6, <1>7
  <2>3. Max(T) = Tokens(h) \/ Max(T) <= Max(S)
    BY <1>5, <1>6, <1>7
  <2>4. QED
    BY <1>5, <2>1, <2>2, <2>3 DEF Longer
<1>9. QED
  BY <1>6, <1>7, <1>8 DEF more

-----------------------------------------------------------------------------
(* The loop over the items.                                                *)

\* From place to place.
Span == Nat \X Nat

\* From place p[1] to p[2]: within the limits unless it is a single item, and
\* the next item does not fit.
IsBatch(items, p) ==
    /\ p[1] \in Nat \ {0} /\ p[2] \in Nat /\ p[1] <= p[2] /\ p[2] <= Len(items)
    /\ p[1] < p[2] => KeepsLimits(SubSeq(items, p[1], p[2]))
    /\ p[2] < Len(items) => ~KeepsLimits(Append(SubSeq(items, p[1], p[2]), items[p[2] + 1]))

\* The batches follow each other from place a to b.
Cuts(items, bs, a, b) ==
    /\ bs \in Seq(Span)
    /\ bs = <<>> <=> a = b + 1
    /\ bs # <<>> => bs[1][1] = a /\ bs[Len(bs)][2] = b
    /\ \A k \in 1 .. Len(bs) : IsBatch(items, bs[k])
    /\ \A k \in 1 .. Len(bs) - 1 : bs[k + 1][1] = bs[k][2] + 1

LEMMA CutsOneMore ==
    ASSUME NEW items, NEW bs, NEW b \in Nat, Cuts(items, bs, 1, b),
           NEW p \in Span, p[1] = b + 1, IsBatch(items, p)
    PROVE  Cuts(items, Append(bs, p), 1, p[2])
<1> DEFINE L == Len(bs)
           t == Append(bs, p)
<1>1. bs \in Seq(Span) /\ L \in Nat
  BY DEF Cuts
<1>2. /\ t \in Seq(Span) /\ t # <<>> /\ Len(t) = L + 1 /\ t[L + 1] = p
      /\ \A k \in 1 .. L : t[k] = bs[k]
  BY <1>1
<1>3. p[2] \in Nat /\ 1 # p[2] + 1
  BY DEF IsBatch
<1> HIDE DEF t
<1>4. t[1][1] = 1 /\ t[Len(t)][2] = p[2]
  <2>1. CASE bs = <<>>
    <3>1. b = 0 /\ L = 0
      BY <2>1 DEF Cuts
    <3>2. QED
      BY <1>2, <3>1
  <2>2. CASE bs # <<>>
    <3>1. 1 \in 1 .. L
      BY <1>1, <2>2
    <3>2. QED
      BY <1>2, <2>2, <3>1 DEF Cuts
  <2>3. QED
    BY <2>1, <2>2
<1>5. ASSUME NEW k \in 1 .. Len(t) PROVE IsBatch(items, t[k])
  <2>1. CASE k = L + 1
    BY <1>2, <2>1
  <2>2. CASE k # L + 1
    <3>1. k \in 1 .. L
      BY <1>1, <1>2, <2>2
    <3>2. QED
      BY <1>2, <3>1 DEF Cuts
  <2>3. QED
    BY <2>1, <2>2
<1>6. ASSUME NEW k \in 1 .. Len(t) - 1 PROVE t[k + 1][1] = t[k][2] + 1
  <2>1. k \in 1 .. L
    BY <1>1, <1>2
  <2>2. CASE k = L
    <3>1. bs # <<>>
      BY <1>1, <2>1
    <3>2. t[k + 1] = p /\ t[k] = bs[L]
      BY <1>2, <2>1, <2>2
    <3>3. bs[L][2] = b
      BY <3>1 DEF Cuts
    <3>4. QED
      BY <3>2, <3>3
  <2>3. CASE k # L
    <3>1. k \in 1 .. L - 1 /\ k + 1 \in 1 .. L
      BY <1>1, <2>1, <2>3
    <3>2. t[k + 1] = bs[k + 1] /\ t[k] = bs[k]
      BY <1>2, <2>1, <3>1
    <3>3. bs[k + 1][1] = bs[k][2] + 1
      BY <3>1 DEF Cuts
    <3>4. QED
      BY <3>2, <3>3
  <2>4. QED
    BY <2>2, <2>3
<1>7. QED
  BY <1>2, <1>3, <1>4, <1>5, <1>6 DEF Cuts, t

LEMMA CutsHead ==
    ASSUME NEW items, NEW bs, NEW a, Cuts(items, bs, a, Len(items)), Len(items) \in Nat, bs # <<>>
    PROVE  /\ Head(bs)[1] = a /\ IsBatch(items, Head(bs))
           /\ Cuts(items, Tail(bs), Head(bs)[2] + 1, Len(items))
<1> DEFINE L == Len(bs)
           t == Tail(bs)
<1>1. bs \in Seq(Span) /\ L \in Nat \ {0} /\ Head(bs) = bs[1]
  BY DEF Cuts
<1>2. /\ t \in Seq(Span) /\ Len(t) = L - 1 /\ (t = <<>> <=> L = 1)
      /\ \A k \in 1 .. L - 1 : t[k] = bs[k + 1]
  <2>1. t \in Seq(Span)
    BY <1>1
  <2>2. Len(t) = L - 1
    BY <1>1
  <2>3. \A k \in 1 .. L - 1 : t[k] = bs[k + 1]
    BY <1>1
  <2> HIDE DEF t
  <2>4. t = <<>> <=> Len(t) = 0
    BY <2>1
  <2>5. QED
    BY <1>1, <2>1, <2>2, <2>3, <2>4
<1> HIDE DEF t
<1>3. bs[1][1] = a /\ bs[L][2] = Len(items)
  BY DEF Cuts
<1>4. ASSUME NEW k \in 1 .. L PROVE IsBatch(items, bs[k])
  BY DEF Cuts
<1>5. ASSUME NEW k \in 1 .. L - 1 PROVE bs[k + 1][1] = bs[k][2] + 1
  BY DEF Cuts
<1>6. bs[1][2] \in Nat
  BY <1>1, <1>4 DEF IsBatch
<1>7. t = <<>> <=> bs[1][2] + 1 = Len(items) + 1
  <2>1. CASE L = 1
    BY <1>2, <1>3, <2>1
  <2>2. CASE L # 1
    <3>1. 1 \in 1 .. L - 1 /\ 2 \in 1 .. L /\ 2 = 1 + 1
      <4> HIDE DEF L
      <4>1. L >= 2
        BY <1>1, <2>2
      <4>2. QED
        BY <1>1, <4>1
    <3>2. bs[2][1] = bs[1][2] + 1
      BY <1>5, <3>1
    <3>3. bs[2][1] <= bs[2][2] /\ bs[2][2] <= Len(items) /\ bs[2][2] \in Nat
      BY <1>4, <3>1 DEF IsBatch
    <3>4. QED
      BY <1>2, <1>6, <2>2, <3>2, <3>3
  <2>3. QED
    BY <2>1, <2>2
<1>8. ASSUME t # <<>> PROVE t[1][1] = bs[1][2] + 1 /\ t[Len(t)][2] = Len(items)
  <2>1. 1 \in 1 .. L - 1 /\ L - 1 \in 1 .. L - 1 /\ L - 1 + 1 = L
    BY <1>1, <1>2, <1>8
  <2>2. t[1] = bs[1 + 1] /\ t[Len(t)] = bs[L]
    BY <1>2, <2>1
  <2>3. bs[1 + 1][1] = bs[1][2] + 1
    BY <1>5, <2>1
  <2>4. QED
    BY <1>3, <2>2, <2>3
<1>9. ASSUME NEW k \in 1 .. Len(t) PROVE IsBatch(items, t[k])
  <2>1. k \in 1 .. L - 1 /\ k + 1 \in 1 .. L
    BY <1>1, <1>2
  <2>2. QED
    BY <1>2, <1>4, <2>1
<1>10. ASSUME NEW k \in 1 .. Len(t) - 1 PROVE t[k + 1][1] = t[k][2] + 1
  <2>1. k \in 1 .. L - 1 /\ k + 1 \in 1 .. L - 1
    BY <1>1, <1>2
  <2>2. t[k] = bs[k + 1] /\ t[k + 1] = bs[k + 1 + 1]
    BY <1>2, <2>1
  <2>3. bs[k + 1 + 1][1] = bs[k + 1][2] + 1
    BY <1>5, <2>1
  <2>4. QED
    BY <2>2, <2>3
<1>11. 1 \in 1 .. L
  BY <1>1
<1>12. Cuts(items, t, bs[1][2] + 1, Len(items))
  BY <1>2, <1>7, <1>8, <1>9, <1>10 DEF Cuts
<1>13. QED
  BY <1>1, <1>3, <1>4, <1>11, <1>12 DEF t

State == [closed : Seq(Span), start : Nat, chars : Nat, longest : Nat]

\* Before item n + 1: the batches closed, and what the open one holds.
Loop(items, s, n) ==
    /\ s \in State
    /\ s.start >= 1 /\ s.start <= n + 1 /\ (n >= 1 => s.start <= n)
    /\ s.chars = CharsOf(SubSeq(items, s.start, n))
    /\ s.longest = TokensOf(SubSeq(items, s.start, n))
    /\ s.start < n => KeepsLimits(SubSeq(items, s.start, n))
    /\ Cuts(items, s.closed, 1, s.start - 1)

LEMMA PacksType ==
    ASSUME Texting, NEW items \in Seq(Hash), NEW n \in 1 .. Len(items), NEW s \in State
    PROVE  Packs(items, s, n) \in State
<1>1. items[n] \in Hash
  OBVIOUS
<1>2. texts[items[n]].chars \in Nat /\ Tokens(items[n]) \in Nat
  BY <1>1, Limits
<1>3. s.closed \in Seq(Span) /\ s.start \in Nat /\ s.chars \in Nat /\ s.longest \in Nat
  BY DEF State
<1>4. ASSUME n > s.start PROVE Append(s.closed, <<s.start, n - 1>>) \in Seq(Span)
  <2>1. <<s.start, n - 1>> \in Span
    BY <1>3, <1>4 DEF Span
  <2>2. QED
    BY <1>3, <2>1
<1>5. Longer(s.longest, Tokens(items[n])) \in Nat
  BY <1>2, <1>3 DEF Longer
<1>6. CASE Full(items, s, n)
  <2>1. n > s.start
    BY <1>6 DEF Full
  <2>2. Append(s.closed, <<s.start, n - 1>>) \in Seq(Span)
    BY <1>4, <2>1
  <2>3. QED
    BY <1>2, <1>6, <2>2 DEF Packs, State
<1>7. CASE ~Full(items, s, n)
  <2>1. s.chars + texts[items[n]].chars \in Nat
    BY <1>2, <1>3
  <2>2. QED
    BY <1>3, <1>5, <1>7, <2>1 DEF Packs, State
<1>8. QED
  BY <1>6, <1>7

\* The open batch and one more item.
LEMMA OpenAndOne ==
    ASSUME Texting, NEW items \in Seq(Hash), NEW n \in 1 .. Len(items), NEW s,
           Loop(items, s, n - 1), NEW held, held = SubSeq(items, s.start, n - 1),
           NEW more, more = Append(held, items[n])
    PROVE  /\ s.start \in 1 .. n
           /\ held \in Seq(Hash) /\ more \in Seq(Hash) /\ items[n] \in Hash
           /\ more = SubSeq(items, s.start, n)
           /\ Len(more) = n - s.start + 1
           /\ CharsOf(more) = s.chars + texts[items[n]].chars
           /\ TokensOf(more) = Longer(s.longest, Tokens(items[n]))
           /\ Full(items, s, n) => n > s.start
           /\ n > s.start => (KeepsLimits(more) <=> ~Full(items, s, n))
<1>1. s \in State /\ s.start >= 1 /\ s.start <= n
  BY DEF Loop
<1>2. s.start \in 1 .. n /\ s.chars \in Nat /\ s.longest \in Nat
  BY <1>1 DEF State
<1>3. held \in Seq(Hash) /\ items[n] \in Hash /\ n \in Nat
  <2>1. items[n] \in Hash /\ n \in Nat
    OBVIOUS
  <2>2. SubSeq(items, s.start, n - 1) \in Seq(Hash)
    BY <1>2
  <2>3. QED
    BY <2>1, <2>2
<1>4. more \in Seq(Hash)
  BY <1>3
<1>5. more = SubSeq(items, s.start, n)
  BY <1>2, SliceGrows
<1>6. Len(more) = n - s.start + 1
  <2>1. Len(SubSeq(items, s.start, n)) = n - s.start + 1
    BY <1>2
  <2>2. QED
    BY <1>5, <2>1
<1>7. CharsOf(more) = s.chars + texts[items[n]].chars
  BY <1>3, CharsAppended DEF Loop
<1>8. TokensOf(more) = Longer(s.longest, Tokens(items[n]))
  BY <1>3, TokensAppended DEF Loop
<1>9. n > s.start => (KeepsLimits(more) <=> ~Full(items, s, n))
  <2>1. SUFFICES ASSUME n > s.start PROVE KeepsLimits(more) <=> ~Full(items, s, n)
    OBVIOUS
  <2>2. Items \in Nat /\ Chars \in Nat /\ setting.area \in Nat
    BY Limits
  <2>3. CharsOf(more) \in Nat /\ TokensOf(more) \in Nat
    BY <1>4, CharsAppended, TokensAppended, <1>3
  <2>4. Area(more) = (n - s.start + 1) * TokensOf(more) * TokensOf(more)
    BY <1>6 DEF Area
  <2>5. Area(more) \in Int
    BY <1>2, <2>3, <2>4
  <2>6. Full(items, s, n) <=>
          \/ n - s.start >= Items
          \/ CharsOf(more) > Chars
          \/ setting.padded /\ Area(more) > setting.area
    BY <1>7, <1>8, <2>1, <2>4 DEF Full
  <2>7. Len(more) <= Items <=> ~(n - s.start >= Items)
    <3>1. n - s.start \in Nat
      BY <1>2, <1>3, <2>1
    <3>2. \A k, m \in Nat : k + 1 <= m <=> ~(k >= m)
      OBVIOUS
    <3>3. n - s.start + 1 <= Items <=> ~(n - s.start >= Items)
      BY <2>2, <3>1, <3>2
    <3>4. QED
      BY <1>6, <3>3
  <2>8. CharsOf(more) <= Chars <=> ~(CharsOf(more) > Chars)
    BY <2>2, <2>3
  <2>9. Area(more) <= setting.area <=> ~(Area(more) > setting.area)
    BY <2>2, <2>5
  <2>10. QED
    BY <2>6, <2>7, <2>8, <2>9 DEF KeepsLimits
<1>10. Full(items, s, n) => n > s.start
  BY DEF Full
<1>11. QED
  BY <1>2, <1>3, <1>4, <1>5, <1>6, <1>7, <1>8, <1>9, <1>10

LEMMA LoopStep ==
    ASSUME Texting, NEW items \in Seq(Hash), NEW n \in 1 .. Len(items), NEW s,
           Loop(items, s, n - 1)
    PROVE  Loop(items, Packs(items, s, n), n)
<1> DEFINE x == items[n]
           u == Packs(items, s, n)
<1>1. PICK held : held = SubSeq(items, s.start, n - 1)
  OBVIOUS
<1>2. PICK more : more = Append(held, x)
  OBVIOUS
<1>3. /\ s.start \in 1 .. n
      /\ held \in Seq(Hash) /\ more \in Seq(Hash) /\ x \in Hash
      /\ more = SubSeq(items, s.start, n)
      /\ CharsOf(more) = s.chars + texts[x].chars
      /\ TokensOf(more) = Longer(s.longest, Tokens(x))
      /\ Full(items, s, n) => n > s.start
      /\ n > s.start => (KeepsLimits(more) <=> ~Full(items, s, n))
  BY <1>1, <1>2, OpenAndOne
<1>4. s \in State /\ u \in State /\ n \in Nat \ {0}
  BY PacksType DEF Loop
<1>5. Cuts(items, s.closed, 1, s.start - 1)
  BY DEF Loop
<1>6. ASSUME ~Full(items, s, n) PROVE Loop(items, u, n)
  <2>1. /\ u.closed = s.closed /\ u.start = s.start
        /\ u.chars = s.chars + texts[x].chars /\ u.longest = Longer(s.longest, Tokens(x))
    BY <1>6 DEF Packs
  <2> HIDE DEF u
  <2>2. u.start >= 1 /\ u.start <= n + 1 /\ u.start <= n
    BY <1>3, <1>4, <2>1
  <2>3. u.start < n => KeepsLimits(SubSeq(items, u.start, n))
    BY <1>3, <1>6, <2>1
  <2>4. QED
    BY <1>3, <1>4, <1>5, <2>1, <2>2, <2>3 DEF Loop
<1>7. ASSUME Full(items, s, n) PROVE Loop(items, u, n)
  <2> DEFINE p == <<s.start, n - 1>>
  <2>1. /\ u.closed = Append(s.closed, p) /\ u.start = n
        /\ u.chars = texts[x].chars /\ u.longest = Tokens(x)
    BY <1>7 DEF Packs
  <2>2. n > s.start /\ s.start \in Nat \ {0} /\ s.start - 1 \in Nat /\ n - 1 \in Nat
    BY <1>3, <1>4, <1>7
  <2>3. p \in Span /\ p[1] = s.start - 1 + 1 /\ p[2] = n - 1
    BY <2>2 DEF Span
  <2>4. IsBatch(items, p)
    <3>1. p[1] \in Nat \ {0} /\ p[2] \in Nat /\ p[1] <= p[2] /\ p[2] <= Len(items)
      BY <1>4, <2>2
    <3>2. p[1] < p[2] => KeepsLimits(SubSeq(items, p[1], p[2]))
      BY <2>2 DEF Loop
    <3>3. ~KeepsLimits(Append(SubSeq(items, p[1], p[2]), items[p[2] + 1]))
      <4>1. p[2] + 1 = n
        BY <1>4
      <4>2. Append(SubSeq(items, p[1], p[2]), items[p[2] + 1]) = more
        BY <1>1, <1>2, <4>1
      <4>3. QED
        BY <1>3, <1>7, <2>2, <4>2
    <3> HIDE DEF p
    <3>4. QED
      BY <3>1, <3>2, <3>3 DEF IsBatch
  <2>5. Cuts(items, u.closed, 1, n - 1)
    <3> HIDE DEF p, u
    <3>1. QED
      BY <1>5, <2>1, <2>2, <2>3, <2>4, CutsOneMore
  <2>6. SubSeq(items, n, n) = Append(<<>>, x)
    <3>1. SubSeq(items, n, n) = Append(SubSeq(items, n, n - 1), x)
      BY <1>4, SliceGrows
    <3>2. SubSeq(items, n, n - 1) = <<>>
      BY <1>4
    <3>3. QED
      BY <3>1, <3>2
  <2>7. /\ CharsOf(Append(<<>>, x)) = CharsOf(<<>>) + texts[x].chars
        /\ TokensOf(Append(<<>>, x)) = Longer(TokensOf(<<>>), Tokens(x))
        /\ CharsOf(<<>>) = 0 /\ TokensOf(<<>>) = 0
    <3>1. <<>> \in Seq(Hash)
      OBVIOUS
    <3>2. QED
      BY <1>3, <3>1, CharsAppended, TokensAppended, EmptyCosts
  <2>8. CharsOf(SubSeq(items, n, n)) = texts[x].chars /\ TokensOf(SubSeq(items, n, n)) = Tokens(x)
    <3>1. texts[x].chars \in Nat /\ Tokens(x) \in Nat
      BY <1>3, Limits
    <3> HIDE DEF x
    <3>2. QED
      BY <2>6, <2>7, <3>1 DEF Longer
  <2> HIDE DEF u
  <2>9. QED
    BY <1>4, <2>1, <2>5, <2>8 DEF Loop
<1>8. QED
  BY <1>6, <1>7

LEMMA PackingIs ==
    ASSUME Texting, NEW items \in Seq(Hash)
    PROVE  /\ Packing(items)[0] = [closed |-> <<>>, start |-> 1, chars |-> 0, longest |-> 0]
           /\ \A n \in 1 .. Len(items) : Packing(items)[n] = Packs(items, Packing(items)[n - 1], n)
<1> DEFINE N == Len(items)
           F == [p \in (1 .. N) \X State |-> Packs(items, p[2], p[1])]
           c == [closed |-> <<>>, start |-> 1, chars |-> 0, longest |-> 0]
           P == Packing(items)
<1>1. N \in Nat
  OBVIOUS
<1>2. F \in [(1 .. N) \X State -> State]
  BY PacksType
<1>3. c \in State
  BY DEF State
<1>4. PICK g \in [0 .. N -> State] : RecursiveUpTo(g, N, c, F)
  <2> HIDE DEF F, N, c
  <2>1. QED
    BY <1>1, <1>2, <1>3, RecursionUpTo
<1>5. g[0] = c
  BY <1>4 DEF RecursiveUpTo
<1>6. ASSUME NEW k \in 1 .. N PROVE g[k] = Packs(items, g[k - 1], k)
  <2>1. g[k] = F[<<k, g[k - 1]>>]
    BY <1>4 DEF RecursiveUpTo
  <2>2. g[k - 1] \in State
    BY <1>1
  <2>3. <<k, g[k - 1]>> \in (1 .. N) \X State
    BY <2>2
  <2>4. QED
    BY <2>1, <2>3
<1>7. g = [n \in 0 .. Len(items) |-> IF n = 0 THEN c ELSE Packs(items, g[n - 1], n)]
  <2> HIDE DEF c
  <2>1. QED
    BY <1>1, <1>5, <1>6
<1>8. P = [n \in 0 .. Len(items) |-> IF n = 0 THEN c ELSE Packs(items, P[n - 1], n)]
  BY <1>7 DEF Packing
<1> HIDE DEF P, c
<1>9. P[0] = c /\ \A n \in 1 .. N : P[n] = Packs(items, P[n - 1], n)
  <2> DEFINE D == [n \in 0 .. N |-> IF n = 0 THEN c ELSE Packs(items, P[n - 1], n)]
  <2>1. D[0] = c
    BY <1>1
  <2>2. ASSUME NEW n \in 1 .. N PROVE D[n] = Packs(items, P[n - 1], n)
    BY <1>1
  <2>3. P = D
    BY <1>8
  <2> HIDE DEF D
  <2>4. QED
    BY <2>1, <2>2, <2>3
<1>10. QED
  BY <1>9 DEF P, c

\* pack_batches cuts the items into batches.
LEMMA PackBatchesCuts ==
    ASSUME Texting, NEW items \in Seq(Hash)
    PROVE  Cuts(items, PackBatches(items), 1, Len(items))
<1> DEFINE N == Len(items)
           P == Packing(items)
           S == {n \in 0 .. N : Loop(items, P[n], n)}
<1>1. N \in Nat
  OBVIOUS
<1>2. 0 \in S
  <2> DEFINE c == [closed |-> <<>>, start |-> 1, chars |-> 0, longest |-> 0]
  <2>1. P[0] = c
    BY PackingIs
  <2>2. c.closed = <<>> /\ c.start = 1 /\ c.chars = 0 /\ c.longest = 0
    OBVIOUS
  <2>3. c \in State
    <3>1. <<>> \in Seq(Span)
      OBVIOUS
    <3>2. QED
      BY <3>1 DEF State
  <2>4. SubSeq(items, 1, 0) = <<>>
    OBVIOUS
  <2>5. CharsOf(<<>>) = 0 /\ TokensOf(<<>>) = 0
    BY EmptyCosts
  <2>6. Cuts(items, <<>>, 1, 0)
    <3>1. <<>> \in Seq(Span) /\ Len(<<>>) = 0
      OBVIOUS
    <3>2. QED
      BY <3>1 DEF Cuts
  <2> HIDE DEF P, c
  <2>7. Loop(items, c, 0)
    <3>1. SubSeq(items, c.start, 0) = <<>> /\ c.start - 1 = 0 /\ ~(c.start < 0)
      BY <2>2, <2>4
    <3>2. c.start >= 1 /\ c.start <= 0 + 1 /\ (0 >= 1 => c.start <= 0)
      BY <2>2
    <3>3. c.chars = CharsOf(SubSeq(items, c.start, 0)) /\ c.longest = TokensOf(SubSeq(items, c.start, 0))
      BY <2>2, <2>5, <3>1
    <3>4. Cuts(items, c.closed, 1, c.start - 1)
      BY <2>2, <2>6, <3>1
    <3>5. QED
      BY <2>3, <3>1, <3>2, <3>3, <3>4 DEF Loop
  <2>8. QED
    BY <1>1, <2>1, <2>7
<1>3. ASSUME NEW n \in 1 .. N, n - 1 \in S PROVE n \in S
  <2>1. P[n] = Packs(items, P[n - 1], n)
    BY PackingIs
  <2>2. Loop(items, P[n - 1], n - 1)
    BY <1>3
  <2>3. Loop(items, P[n], n)
    BY <2>1, <2>2, LoopStep
  <2>4. QED
    BY <2>3
<1>4. 0 .. N \subseteq S
  <2> HIDE DEF S, N
  <2>1. QED
    BY <1>1, <1>2, <1>3, NatUpTo
<1>5. PICK s : s = P[N]
  OBVIOUS
<1>6. Loop(items, s, N)
  BY <1>1, <1>4, <1>5
<1>7. PackBatches(items) = IF s.start <= N THEN Append(s.closed, <<s.start, N>>) ELSE s.closed
  BY <1>5 DEF PackBatches
<1>8. s \in State /\ s.start >= 1 /\ s.start <= N + 1 /\ Cuts(items, s.closed, 1, s.start - 1)
  BY <1>6 DEF Loop
<1>9. s.start \in Nat \ {0} /\ s.start - 1 \in Nat
  BY <1>8 DEF State
<1>10. CASE s.start <= N
  <2> DEFINE p == <<s.start, N>>
  <2>1. p \in Span /\ p[1] = s.start - 1 + 1 /\ p[2] = N
    BY <1>1, <1>9 DEF Span
  <2>2. IsBatch(items, p)
    BY <1>1, <1>6, <1>9, <1>10, <2>1 DEF IsBatch, Loop
  <2> HIDE DEF p
  <2>3. Cuts(items, Append(s.closed, p), 1, N)
    BY <1>8, <1>9, <2>1, <2>2, CutsOneMore
  <2>4. QED
    BY <1>7, <1>10, <2>3 DEF p
<1>11. CASE ~(s.start <= N)
  <2>1. s.start - 1 = N
    BY <1>1, <1>8, <1>9, <1>11
  <2>2. QED
    BY <1>7, <1>8, <1>11, <2>1
<1>12. QED
  BY <1>10, <1>11

-----------------------------------------------------------------------------
(* The order of a page.                                                    *)

LEMMA HashesAre ==
    ASSUME Texting
    PROVE  Hash = 1 .. Len(texts) /\ Len(texts) \in Nat /\ IsFiniteSet(Hash)
<1>1. Hash = 1 .. Len(texts) /\ Len(texts) \in Nat
  BY DEF Texting, Hash
<1>2. QED
  BY <1>1, FS_Interval

\* The order of a page, as a set of pairs.
ByTokens == {p \in Hash \X Hash : Precedes(p[1], p[2])}

LEMMA TokensStrict ==
    ASSUME Texting
    PROVE  StrictOn(ByTokens, Hash)
<1> DEFINE V(h) == Tokens(h)
<1>1. \A h \in Hash : h \in Nat /\ V(h) \in Nat
  BY Limits, HashesAre
<1>2. \A g, h \in Hash : <<g, h>> \in ByTokens <=> V(g) > V(h) \/ (V(g) = V(h) /\ g < h)
  BY DEF ByTokens, Precedes
<1> HIDE DEF V
<1>3. \A h \in Hash : <<h, h>> \notin ByTokens
  BY <1>1, <1>2
<1>4. \A f, g, h \in Hash :
         <<f, g>> \in ByTokens /\ <<g, h>> \in ByTokens => <<f, h>> \in ByTokens
  BY <1>1, <1>2
<1>5. \A g, h \in Hash : g # h => <<g, h>> \in ByTokens \/ <<h, g>> \in ByTokens
  BY <1>1, <1>2
<1>6. QED
  BY <1>3, <1>4, <1>5 DEF StrictOn

\* Each hash of the page once, and no other.
LEMMA ByLengthIs ==
    ASSUME Texting, NEW S \in SUBSET Hash, NEW s, s = ByLength(S)
    PROVE  s \in Seq(Hash) /\ IsInjective(s) /\ ToSet(s) = S
<1> DEFINE Sorted(t) == \A i, j \in DOMAIN t : i < j => Precedes(t[i], t[j])
<1>1. IsFiniteSet(S)
  BY HashesAre, FS_Subset
<1>2. StrictOn(ByTokens, S)
  BY TokensStrict, StrictBelow
<1>3. ASSUME NEW t \in SetToSeqs(S), Ascends(t, ByTokens) PROVE Sorted(t)
  BY <1>3 DEF Ascends, ByTokens
<1>4. s = CHOOSE t \in SetToSeqs(S) : Sorted(t)
  BY DEF ByLength
<1> HIDE DEF Sorted
<1>5. PICK t \in SetToSeqs(S) : Ascends(t, ByTokens)
  BY <1>1, <1>2, OrderExists
<1>6. s \in SetToSeqs(S)
  BY <1>3, <1>4, <1>5
<1>7. s \in Seq(S) /\ IsInjective(s) /\ ToSet(s) = S
  BY <1>1, <1>6, SeqsAre
<1>8. s \in Seq(Hash)
  BY <1>7, SeqMonotonic
<1>9. QED
  BY <1>7, <1>8

-----------------------------------------------------------------------------
(* The pass.                                                               *)

\* The hashes of the page that are not embedded.
Left == {page[i] : i \in Head(batches)[1] .. Len(page)}

\* In the middle of a page.
Paging ==
    /\ page \in Seq(Hash) /\ IsInjective(page)
    /\ batches # <<>>
    /\ Cuts(page, batches, Head(batches)[1], Len(page))
    /\ \A h \in ToSet(embedded) : h \notin Left
    /\ ToSet(embedded) \cup Left = 1 .. cursor

\* What is embedded is what the pages so far named, but for the rest of this one.
PassInv ==
    /\ Texting
    /\ pass \in {"page", "guard", "paused", "embed", "failed", "done"}
    /\ cursor \in 0 .. Len(texts)
    /\ embedded \in Seq(Hash) /\ IsInjective(embedded)
    /\ pass = "page" => ToSet(embedded) = 1 .. cursor
    /\ pass \in {"guard", "paused", "embed"} => Paging
    /\ pass = "done" => ToSet(embedded) = Hash
    /\ pass \in {"page", "guard", "embed", "done"} => loaded

LEMMA CostsStay ==
    ASSUME texts' = texts, setting' = setting, NEW batch
    PROVE  KeepsLimits(batch)' <=> KeepsLimits(batch)
<1>1. CharsOf(batch)' = CharsOf(batch)
  BY DEF CharsOf
<1>2. TokensOf(batch)' = TokensOf(batch)
  BY DEF TokensOf, Tokens
<1>3. QED
  BY <1>1, <1>2 DEF KeepsLimits, Area, Items, Chars

LEMMA CutsStay ==
    ASSUME texts' = texts, setting' = setting, NEW items, NEW bs, NEW a, NEW b
    PROVE  Cuts(items, bs, a, b)' <=> Cuts(items, bs, a, b)
BY CostsStay DEF Cuts, IsBatch

\* Two sequences without a common element.
LEMMA Joined ==
    ASSUME NEW T, NEW s \in Seq(T), NEW t \in Seq(T), IsInjective(s), IsInjective(t),
           \A x \in ToSet(s) : x \notin ToSet(t)
    PROVE  s \o t \in Seq(T) /\ IsInjective(s \o t) /\ ToSet(s \o t) = ToSet(s) \cup ToSet(t)
<1> DEFINE u == s \o t
           M == Len(s)
           N == Len(t)
<1>1. /\ u \in Seq(T) /\ M \in Nat /\ N \in Nat
      /\ DOMAIN s = 1 .. M /\ DOMAIN t = 1 .. N /\ DOMAIN u = 1 .. M + N
  OBVIOUS
<1>2. \A i \in 1 .. M : u[i] = s[i]
  OBVIOUS
<1>3. \A i \in 1 .. N : u[M + i] = t[i]
  OBVIOUS
<1> HIDE DEF u, M, N
<1>4. \A i \in 1 .. M + N : i \in 1 .. M \/ i - M \in 1 .. N
  BY <1>1
<1>5. \A i \in 1 .. M + N : i \notin 1 .. M => u[i] = t[i - M]
  <2>1. ASSUME NEW i \in 1 .. M + N, i \notin 1 .. M PROVE u[i] = t[i - M]
    <3>1. i - M \in 1 .. N /\ M + (i - M) = i
      BY <1>1, <2>1
    <3>2. QED
      BY <1>3, <3>1
  <2>2. QED
    BY <2>1
<1>6. ASSUME NEW i \in 1 .. M + N, NEW j \in 1 .. M + N, u[i] = u[j] PROVE i = j
  <2>1. CASE i \in 1 .. M /\ j \in 1 .. M
    BY <1>1, <1>2, <1>6, <2>1 DEF IsInjective
  <2>2. CASE i \notin 1 .. M /\ j \notin 1 .. M
    <3>1. i - M \in 1 .. N /\ j - M \in 1 .. N /\ t[i - M] = t[j - M]
      BY <1>4, <1>5, <1>6, <2>2
    <3>2. i - M = j - M
      BY <1>1, <3>1 DEF IsInjective
    <3>3. QED
      BY <1>1, <3>2
  <2>3. CASE i \in 1 .. M /\ j \notin 1 .. M
    <3>1. j - M \in 1 .. N /\ s[i] = t[j - M]
      BY <1>2, <1>4, <1>5, <1>6, <2>3
    <3>2. QED
      BY <1>1, <2>3, <3>1 DEF ToSet
  <2>4. CASE i \notin 1 .. M /\ j \in 1 .. M
    <3>1. i - M \in 1 .. N /\ s[j] = t[i - M]
      BY <1>2, <1>4, <1>5, <1>6, <2>4
    <3>2. QED
      BY <1>1, <2>4, <3>1 DEF ToSet
  <2>5. QED
    BY <2>1, <2>2, <2>3, <2>4
<1>7. IsInjective(u)
  BY <1>1, <1>6 DEF IsInjective
<1>8. ASSUME NEW x \in ToSet(s) \cup ToSet(t) PROVE x \in ToSet(u)
  <2>1. CASE x \in ToSet(s)
    <3>1. PICK i \in 1 .. M : x = s[i]
      BY <1>1, <2>1 DEF ToSet
    <3>2. i \in 1 .. M + N /\ x = u[i]
      BY <1>1, <1>2, <3>1
    <3>3. QED
      BY <1>1, <3>2 DEF ToSet
  <2>2. CASE x \in ToSet(t)
    <3>1. PICK i \in 1 .. N : x = t[i]
      BY <1>1, <2>2 DEF ToSet
    <3>2. M + i \in 1 .. M + N /\ x = u[M + i]
      BY <1>1, <1>3, <3>1
    <3>3. QED
      BY <1>1, <3>2 DEF ToSet
  <2>3. QED
    BY <2>1, <2>2
<1>9. ASSUME NEW x \in ToSet(u) PROVE x \in ToSet(s) \cup ToSet(t)
  <2>1. PICK i \in 1 .. M + N : x = u[i]
    BY <1>1 DEF ToSet
  <2>2. CASE i \in 1 .. M
    BY <1>1, <1>2, <2>1, <2>2 DEF ToSet
  <2>3. CASE i \notin 1 .. M
    BY <1>1, <1>4, <1>5, <2>1, <2>3 DEF ToSet
  <2>4. QED
    BY <2>2, <2>3
<1>10. ToSet(u) = ToSet(s) \cup ToSet(t)
  BY <1>8, <1>9
<1>11. QED
  BY <1>1, <1>7, <1>10 DEF u

\* What a slice of an injective sequence is.
IsSlice(T, s, a, b, t) ==
    /\ t \in Seq(T) /\ Len(t) = b - a + 1 /\ IsInjective(t)
    /\ \A x : x \in ToSet(t) <=> \E i \in a .. b : x = s[i]

LEMMA SliceIs ==
    ASSUME NEW T, NEW s \in Seq(T), IsInjective(s), NEW a \in Nat \ {0}, NEW b \in Nat,
           a <= b, b <= Len(s), NEW t, t = SubSeq(s, a, b)
    PROVE  IsSlice(T, s, a, b, t)
<1>1. t \in Seq(T) /\ Len(t) = b - a + 1 /\ DOMAIN t = 1 .. b - a + 1
  OBVIOUS
<1>2. \A i \in 1 .. b - a + 1 : t[i] = s[a + i - 1]
  OBVIOUS
<1>3. DOMAIN s = 1 .. Len(s) /\ Len(s) \in Nat
  OBVIOUS
<1>4. \A i \in 1 .. b - a + 1 : a + i - 1 \in a .. b /\ a + i - 1 \in 1 .. Len(s)
  BY <1>3
<1>5. IsInjective(t)
  <2>1. ASSUME NEW i \in 1 .. b - a + 1, NEW j \in 1 .. b - a + 1, t[i] = t[j] PROVE i = j
    <3>1. a + i - 1 = a + j - 1
      BY <1>2, <1>3, <1>4, <2>1 DEF IsInjective
    <3>2. QED
      BY <3>1
  <2>2. QED
    BY <1>1, <2>1 DEF IsInjective
<1>6. ToSet(t) = {s[i] : i \in a .. b}
  <2>1. ASSUME NEW i \in a .. b PROVE s[i] \in ToSet(t)
    <3>1. i - a + 1 \in 1 .. b - a + 1 /\ a + (i - a + 1) - 1 = i
      OBVIOUS
    <3>2. s[i] = t[i - a + 1]
      BY <1>2, <3>1
    <3>3. QED
      BY <1>1, <3>1, <3>2 DEF ToSet
  <2>2. ASSUME NEW i \in 1 .. b - a + 1 PROVE t[i] \in {s[k] : k \in a .. b}
    BY <1>2, <1>4
  <2>3. QED
    BY <1>1, <2>1, <2>2 DEF ToSet
<1>7. QED
  BY <1>1, <1>5, <1>6 DEF IsSlice

\* The next batch, as the part of the page it is.
LEMMA NextBatchIs ==
    ASSUME Texting, Paging,
           NEW a, a = Head(batches)[1], NEW b, b = Head(batches)[2], NEW next, next = NextBatch
    PROVE  /\ a \in Nat \ {0} /\ b \in Nat /\ a <= b /\ b <= Len(page) /\ Len(page) \in Nat
           /\ Head(batches) = <<a, b>> /\ IsBatch(page, Head(batches))
           /\ next = SubSeq(page, a, b) /\ IsSlice(Hash, page, a, b, next)
           /\ Cuts(page, Tail(batches), b + 1, Len(page))
<1>1. /\ page \in Seq(Hash) /\ IsInjective(page) /\ Len(page) \in Nat /\ DOMAIN page = 1 .. Len(page)
      /\ batches # <<>> /\ Cuts(page, batches, a, Len(page))
  BY DEF Paging
<1>2. IsBatch(page, Head(batches)) /\ Cuts(page, Tail(batches), b + 1, Len(page))
  BY <1>1, CutsHead
<1>3. Head(batches) \in Span
  BY <1>1 DEF Cuts
<1>4. Head(batches) = <<a, b>>
  BY <1>3 DEF Span
<1>5. a \in Nat \ {0} /\ b \in Nat /\ a <= b /\ b <= Len(page)
  BY <1>2 DEF IsBatch
<1>6. next = SubSeq(page, a, b)
  BY DEF NextBatch
<1>7. IsSlice(Hash, page, a, b, next)
  BY <1>1, <1>5, <1>6, SliceIs
<1>8. QED
  BY <1>1, <1>2, <1>4, <1>5, <1>6, <1>7

LEMMA InitPass == PackingInit => PassInv
<1>1. SUFFICES ASSUME PackingInit PROVE PassInv
  OBVIOUS
<1>2. Texting
  <2>1. texts \in Texts /\ setting \in Settings
    BY <1>1 DEF PackingInit
  <2>2. Texts \subseteq Seq(Text)
    BY PackingAssumption DEF Text
  <2>3. QED
    BY <2>1, <2>2 DEF Texting
<1>3. pass = "page" /\ cursor = 0 /\ embedded = <<>> /\ loaded = TRUE
  BY <1>1 DEF PackingInit
<1>4. embedded \in Seq(Hash) /\ IsInjective(embedded) /\ ToSet(embedded) = {}
  BY <1>3 DEF IsInjective, ToSet
<1>5. cursor \in 0 .. Len(texts) /\ 1 .. cursor = {}
  BY <1>2, <1>3, HashesAre
<1>6. QED
  BY <1>2, <1>3, <1>4, <1>5 DEF PassInv

\* What a page takes of the pending hashes is what comes next.
LEMMA PageIsNext ==
    ASSUME PassInv, pass = "page"
    PROVE  /\ PendingPage \in SUBSET Hash
           /\ PendingPage = {} => 1 .. cursor = Hash
           /\ PendingPage # {} =>
                /\ Max(PendingPage) \in cursor + 1 .. Len(texts)
                /\ PendingPage = cursor + 1 .. Max(PendingPage)
<1>1. /\ Hash = 1 .. Len(texts) /\ Len(texts) \in Nat /\ IsFiniteSet(Hash)
      /\ cursor \in 0 .. Len(texts) /\ ToSet(embedded) = 1 .. cursor
  BY HashesAre DEF PassInv
<1>2. Pending = cursor + 1 .. Len(texts)
  BY <1>1 DEF Pending, Hash
<1>3. PageSize \in Nat \ {0}
  BY Limits DEF PassInv
<1> DEFINE Before(h) == {g \in Pending : g < h}
<1>4. \A h \in Pending : h \in PendingPage <=> Cardinality(Before(h)) < PageSize
  BY DEF PendingPage
<1>5. PendingPage \subseteq Pending
  BY DEF PendingPage
<1>6. PendingPage \in SUBSET Hash
  BY <1>1, <1>2, <1>5
<1>7. ASSUME PendingPage = {} PROVE 1 .. cursor = Hash
  <2>1. SUFFICES ASSUME cursor < Len(texts) PROVE FALSE
    BY <1>1
  <2>2. cursor + 1 \in Pending
    BY <1>1, <1>2, <2>1
  <2>3. Before(cursor + 1) = {}
    BY <1>1, <1>2
  <2>4. Cardinality(Before(cursor + 1)) = 0
    BY <2>3, FS_EmptySet
  <2> HIDE DEF Before
  <2>5. cursor + 1 \in PendingPage
    BY <1>3, <1>4, <2>2, <2>4
  <2>6. QED
    BY <1>7, <2>5
<1>8. ASSUME PendingPage # {}
      PROVE  /\ Max(PendingPage) \in cursor + 1 .. Len(texts)
             /\ PendingPage = cursor + 1 .. Max(PendingPage)
  <2>1. PICK m : m = Max(PendingPage)
    OBVIOUS
  <2>2. m \in PendingPage /\ \A h \in PendingPage : h <= m
    <3>1. PendingPage \in SUBSET Nat /\ \A h \in PendingPage : h <= Len(texts)
      BY <1>1, <1>6
    <3>2. QED
      BY <1>1, <1>8, <2>1, <3>1, LargestOf
  <2>3. m \in cursor + 1 .. Len(texts)
    BY <1>2, <1>5, <2>2
  <2>4. ASSUME NEW h \in cursor + 1 .. m PROVE h \in PendingPage
    <3>1. h \in Pending /\ m \in Pending /\ h <= m
      BY <1>1, <1>2, <2>3
    <3>2. IsFiniteSet(Before(m))
      <4>1. Before(m) \in SUBSET Hash
        BY <1>1, <1>2
      <4>2. QED
        BY <1>1, <4>1, FS_Subset
    <3>3. Before(h) \in SUBSET Before(m)
      BY <1>1, <1>2, <2>3, <3>1
    <3> HIDE DEF Before
    <3>4. Cardinality(Before(h)) <= Cardinality(Before(m)) /\ IsFiniteSet(Before(h))
      BY <3>2, <3>3, FS_Subset
    <3>5. Cardinality(Before(h)) \in Nat /\ Cardinality(Before(m)) \in Nat
      BY <3>2, <3>4, FS_CardinalityType
    <3>6. Cardinality(Before(m)) < PageSize
      BY <1>4, <2>2, <3>1
    <3>7. Cardinality(Before(h)) < PageSize
      BY <1>3, <3>4, <3>5, <3>6
    <3>8. QED
      BY <1>4, <3>1, <3>7
  <2>5. PendingPage \subseteq cursor + 1 .. m
    BY <1>1, <1>2, <1>5, <2>2, <2>3
  <2>6. PendingPage = cursor + 1 .. m
    BY <2>4, <2>5
  <2>7. QED
    BY <2>1, <2>3, <2>6
<1>9. QED
  BY <1>6, <1>7, <1>8

LEMMA TakesPageKeeps == ASSUME PassInv, TakesPage PROVE PassInv'
<1>1. /\ pass = "page" /\ setting' = setting /\ texts' = texts /\ embedded' = embedded /\ loaded' = loaded
  BY DEF TakesPage
<1>2. Texting /\ Texting' /\ Hash' = Hash
  BY <1>1 DEF PassInv, Texting, Hash
<1>3. /\ embedded \in Seq(Hash) /\ IsInjective(embedded) /\ ToSet(embedded) = 1 .. cursor
      /\ cursor \in 0 .. Len(texts) /\ loaded
  BY <1>1 DEF PassInv
<1>4. Len(texts) \in Nat
  BY <1>2, HashesAre
<1>5. CASE PendingPage = {}
  <2>1. pass' = "done" /\ cursor' = cursor
    BY <1>5 DEF TakesPage
  <2>2. ToSet(embedded) = Hash
    BY <1>1, <1>3, <1>5, PageIsNext
  <2>3. QED
    BY <1>1, <1>2, <1>3, <2>1, <2>2 DEF PassInv
<1>6. CASE PendingPage # {}
  <2>1. /\ PendingPage \in SUBSET Hash /\ cursor' \in cursor + 1 .. Len(texts)
        /\ PendingPage = cursor + 1 .. cursor'
    BY <1>1, <1>6, PageIsNext DEF TakesPage
  <2>2. cursor' \in 0 .. Len(texts) /\ cursor \in Nat
    BY <1>3, <1>4, <2>1
  <2>3. CASE ~Renders
    <3>1. pass' = "failed"
      BY <1>6, <2>3 DEF TakesPage
    <3>2. QED
      BY <1>1, <1>2, <1>3, <2>2, <3>1 DEF PassInv
  <2>4. CASE Renders
    <3>1. PICK p : p = page'
      OBVIOUS
    <3>2. PICK bs : bs = batches'
      OBVIOUS
    <3>3. p = ByLength(PendingPage) /\ bs = PackBatches(p) /\ pass' = "guard"
      BY <1>6, <2>4, <3>1, <3>2 DEF TakesPage
    <3>4. p \in Seq(Hash) /\ IsInjective(p) /\ ToSet(p) = PendingPage
      BY <1>2, <2>1, <3>3, ByLengthIs
    <3>5. Cuts(p, bs, 1, Len(p))
      BY <1>2, <3>3, <3>4, PackBatchesCuts
    <3>6. ToSet(p) = {p[i] : i \in 1 .. Len(p)} /\ Len(p) \in Nat
      BY <3>4 DEF ToSet
    <3>7. Len(p) # 0
      <4>1. ToSet(p) # {}
        BY <1>6, <3>4
      <4>2. QED
        BY <3>6, <4>1
    <3>8. bs # <<>> /\ Head(bs)[1] = 1
      <4>1. bs # <<>>
        BY <3>5, <3>6, <3>7 DEF Cuts
      <4>2. QED
        BY <3>5, <4>1 DEF Cuts
    <3>9. Paging'
      <4>1. Left' = PendingPage
        BY <3>1, <3>2, <3>4, <3>6, <3>8 DEF Left
      <4>2. Cuts(p, bs, 1, Len(p))'
        BY <1>1, <3>5, CutsStay
      <4>3. \A h \in ToSet(embedded) : h \notin PendingPage
        BY <1>3, <2>1, <2>2
      <4>4. ToSet(embedded) \cup PendingPage = 1 .. cursor'
        BY <1>3, <2>1, <2>2
      <4>5. QED
        BY <1>1, <1>2, <3>1, <3>2, <3>4, <3>8, <4>1, <4>2, <4>3, <4>4 DEF Paging
    <3>10. QED
      BY <1>1, <1>2, <1>3, <2>2, <3>3, <3>9 DEF PassInv
  <2>5. QED
    BY <2>3, <2>4
<1>7. QED
  BY <1>5, <1>6

\* Nothing that a page holds changes while it waits.
LEMMA PagingStays ==
    ASSUME Paging, UNCHANGED <<setting, texts, cursor, page, batches, embedded>>
    PROVE  Paging'
<1>1. Left' = Left /\ Hash' = Hash
  BY DEF Left, Hash
<1>2. Cuts(page, batches, Head(batches)[1], Len(page))'
  <2>1. PICK p : p = page
    OBVIOUS
  <2>2. PICK bs : bs = batches
    OBVIOUS
  <2>3. Cuts(p, bs, Head(bs)[1], Len(p))
    BY <2>1, <2>2 DEF Paging
  <2>4. Cuts(p, bs, Head(bs)[1], Len(p))'
    BY <2>3, CutsStay
  <2>5. p = page' /\ bs = batches'
    BY <2>1, <2>2
  <2>6. QED
    BY <2>4, <2>5
<1>3. QED
  BY <1>1, <1>2 DEF Paging

LEMMA WaitKeeps ==
    ASSUME PassInv, Guards \/ Resumes
    PROVE  PassInv'
<1>1. UNCHANGED <<setting, texts, cursor, page, batches, embedded>> /\ pass \in {"guard", "paused"}
  BY DEF Guards, Resumes
<1>2. Texting' /\ Hash' = Hash
  BY <1>1 DEF PassInv, Texting, Hash
<1>3. Paging'
  BY <1>1, PagingStays DEF PassInv
<1>4. pass' \in {"paused", "failed", "embed"} /\ (pass' = "embed" => loaded')
  BY DEF Guards, Resumes, PassInv
<1>5. QED
  BY <1>1, <1>2, <1>3, <1>4 DEF PassInv

LEMMA EmbedsKeeps == ASSUME PassInv, Embeds PROVE PassInv'
<1>1. /\ pass = "embed" /\ setting' = setting /\ texts' = texts /\ cursor' = cursor /\ page' = page
      /\ loaded' = loaded
  BY DEF Embeds
<1>2. Texting /\ Texting' /\ Hash' = Hash /\ Paging
  BY <1>1 DEF PassInv, Texting, Hash
<1>3. embedded \in Seq(Hash) /\ IsInjective(embedded) /\ cursor \in 0 .. Len(texts) /\ loaded
  BY <1>1 DEF PassInv
<1>4. CASE pass' = "failed" /\ UNCHANGED <<embedded, batches>>
  BY <1>1, <1>2, <1>3, <1>4 DEF PassInv
<1>5. CASE /\ embedded' = embedded \o NextBatch
           /\ batches' = Tail(batches)
           /\ pass' = IF batches' = <<>> THEN "page" ELSE "guard"
  <2>1. PICK a : a = Head(batches)[1]
    OBVIOUS
  <2>2. PICK b : b = Head(batches)[2]
    OBVIOUS
  <2>3. PICK next : next = NextBatch
    OBVIOUS
  <2>4. PICK bs : bs = batches'
    OBVIOUS
  <2>5. PICK p : p = page
    OBVIOUS
  <2>6. /\ a \in Nat \ {0} /\ b \in Nat /\ a <= b /\ b <= Len(p) /\ Len(p) \in Nat
        /\ IsSlice(Hash, p, a, b, next) /\ Cuts(p, bs, b + 1, Len(p))
    BY <1>2, <1>5, <2>1, <2>2, <2>3, <2>4, <2>5, NextBatchIs
  <2>7. next \in Seq(Hash) /\ IsInjective(next)
    BY <2>6 DEF IsSlice
  <2>8. \A h : h \in ToSet(next) <=> \E i \in a .. b : h = p[i]
    BY <2>6 DEF IsSlice
  <2>9. \A h : h \in Left <=> \E i \in a .. Len(p) : h = p[i]
    BY <2>1, <2>5 DEF Left
  <2>10. /\ p \in Seq(Hash) /\ DOMAIN p = 1 .. Len(p) /\ IsInjective(p)
         /\ \A h \in ToSet(embedded) : h \notin Left
         /\ ToSet(embedded) \cup Left = 1 .. cursor
    BY <1>2, <2>5 DEF Paging
  <2> DEFINE rest == {p[i] : i \in b + 1 .. Len(p)}
  <2>11. ToSet(next) \cup rest = Left
    <3>1. \A i \in a .. Len(p) : i \in a .. b \/ i \in b + 1 .. Len(p)
      BY <2>6
    <3>2. \A i \in a .. b : i \in a .. Len(p)
      BY <2>6
    <3>3. \A i \in b + 1 .. Len(p) : i \in a .. Len(p)
      BY <2>6
    <3>4. QED
      BY <2>8, <2>9, <3>1, <3>2, <3>3
  <2>12. \A h \in ToSet(next) : h \notin rest
    <3>1. ASSUME NEW i \in a .. b, NEW j \in b + 1 .. Len(p) PROVE p[i] # p[j]
      <4>1. i \in DOMAIN p /\ j \in DOMAIN p /\ i # j
        BY <2>6, <2>10
      <4>2. QED
        BY <2>10, <4>1 DEF IsInjective
    <3>2. QED
      BY <2>8, <3>1
  <2> HIDE DEF rest
  <2>13. /\ embedded' \in Seq(Hash) /\ IsInjective(embedded')
         /\ ToSet(embedded') = ToSet(embedded) \cup ToSet(next)
    <3>1. \A h \in ToSet(embedded) : h \notin ToSet(next)
      BY <2>10, <2>11
    <3>2. embedded' = embedded \o next
      BY <1>5, <2>3
    <3>3. QED
      BY <1>3, <2>7, <3>1, <3>2, Joined
  <2>14. CASE bs = <<>>
    <3>1. b + 1 = Len(p) + 1
      BY <2>6, <2>14 DEF Cuts
    <3>2. b + 1 .. Len(p) = {}
      BY <2>6, <3>1
    <3>3. rest = {}
      BY <3>2 DEF rest
    <3>4. ToSet(embedded') = 1 .. cursor
      BY <2>10, <2>11, <2>13, <3>3
    <3>5. pass' = "page"
      BY <1>5, <2>4, <2>14
    <3>6. QED
      BY <1>1, <1>2, <1>3, <2>13, <3>4, <3>5 DEF PassInv
  <2>15. CASE bs # <<>>
    <3>1. pass' = "guard"
      BY <1>5, <2>4, <2>15
    <3>2. Head(bs)[1] = b + 1
      BY <2>6, <2>15 DEF Cuts
    <3>3. Left' = rest
      BY <1>1, <2>4, <2>5, <3>2 DEF Left, rest
    <3>4. Cuts(p, bs, b + 1, Len(p))'
      BY <1>1, <2>6, CutsStay
    <3>5. p = page'
      BY <1>1, <2>5
    <3>6. Paging'
      BY <1>1, <1>2, <2>4, <2>10, <2>11, <2>12, <2>13, <2>15, <3>2, <3>3, <3>4, <3>5 DEF Paging
    <3>7. QED
      BY <1>1, <1>2, <1>3, <2>13, <3>1, <3>6 DEF PassInv
  <2>16. QED
    BY <2>14, <2>15
<1>6. QED
  BY <1>4, <1>5 DEF Embeds

LEMMA PassStays == ASSUME PassInv, UNCHANGED packingVars PROVE PassInv'
<1>1. /\ UNCHANGED <<setting, texts, cursor, page, batches, embedded>> /\ pass' = pass /\ loaded' = loaded
  BY DEF packingVars
<1>2. Texting' /\ Hash' = Hash
  BY <1>1 DEF PassInv, Texting, Hash
<1>3. Paging => Paging'
  BY <1>1, PagingStays
<1>4. QED
  BY <1>1, <1>2, <1>3 DEF PassInv

LEMMA PassNext == ASSUME PassInv, [PackingNext]_packingVars PROVE PassInv'
BY TakesPageKeeps, WaitKeeps, EmbedsKeeps, PassStays DEF PackingNext

LEMMA PassImplies == ASSUME PassInv PROVE BatchesFitAndCover
<1>1. ASSUME pass = "embed"
      PROVE  /\ loaded
             /\ Len(NextBatch) > 1 => KeepsLimits(NextBatch)
             /\ Head(batches)[2] < Len(page) =>
                  ~KeepsLimits(Append(NextBatch, page[Head(batches)[2] + 1]))
  <2>1. Texting /\ Paging /\ loaded
    BY <1>1 DEF PassInv
  <2>2. PICK a : a = Head(batches)[1]
    OBVIOUS
  <2>3. PICK b : b = Head(batches)[2]
    OBVIOUS
  <2>4. PICK next : next = NextBatch
    OBVIOUS
  <2>5. /\ a \in Nat \ {0} /\ b \in Nat /\ a <= b
        /\ IsBatch(page, Head(batches)) /\ next = SubSeq(page, a, b)
        /\ IsSlice(Hash, page, a, b, next)
    BY <2>1, <2>2, <2>3, <2>4, NextBatchIs
  <2>6. Len(next) = b - a + 1
    BY <2>5 DEF IsSlice
  <2>7. Len(next) > 1 => KeepsLimits(next)
    BY <2>2, <2>3, <2>5, <2>6 DEF IsBatch
  <2>8. b < Len(page) => ~KeepsLimits(Append(next, page[b + 1]))
    BY <2>2, <2>3, <2>5 DEF IsBatch
  <2>9. QED
    BY <2>1, <2>3, <2>4, <2>7, <2>8
<1>2. IsInjective(embedded) /\ (pass = "done" => ToSet(embedded) = DOMAIN texts)
  BY DEF PassInv, Hash
<1>3. QED
  BY <1>1, <1>2 DEF BatchesFitAndCover

\* A batch that is about to run exceeds a limit only as a single text, and
\* leaves out nothing that would have fitted; no text is embedded twice; and a
\* pass that ends without an error has embedded every text of the store
\* (embed_space, pack_batches, wait_for_memory).
THEOREM BatchesAreFair == PackingSpec => []BatchesFitAndCover
<1>1. PassInv /\ [PackingNext]_packingVars => PassInv'
  BY PassNext
<1>2. PassInv => BatchesFitAndCover
  BY PassImplies
<1>3. QED
  BY InitPass, <1>1, <1>2, PTL DEF PackingSpec

-----------------------------------------------------------------------------
(* Prose.                                                                  *)

LEMMA MinOf ==
    ASSUME NEW S \in SUBSET Nat, S # {}
    PROVE  Min(S) \in S /\ \A n \in S : Min(S) <= n
<1>1. PICK m \in S : \A n \in S : m <= n
  BY LeastOf
<1>2. QED
  BY <1>1 DEF Min

-----------------------------------------------------------------------------
(* The bytes of a text.                                                    *)

\* A later byte of a character does not follow a separator.
WellFormed ==
    /\ text \in Seq(Byte)
    /\ \A i \in 1 .. Len(text) :
          text[i] \in {"rest", "blank rest"} =>
             i > 1 /\ text[i - 1] \notin {"space", "newline", "period"}

Places == 0 .. Len(text)

\* Where the text can be cut, unless a byte of a character reads as a space.
Safe(i) == "blank rest" \notin ToSet(text) => CharBoundary(i)

LEMMA PlacesAre ==
    ASSUME WellFormed
    PROVE  /\ Len(text) \in Nat /\ Places = 0 .. Len(text) /\ Places \subseteq Nat
           /\ 0 \in Places /\ Len(text) \in Places
           /\ Safe(0) /\ Safe(Len(text))
<1>1. Len(text) \in Nat
  <2>1. text \in Seq(Byte)
    BY DEF WellFormed
  <2>2. QED
    BY <2>1
<1>2. Safe(0) /\ Safe(Len(text))
  BY DEF Safe, CharBoundary
<1>3. QED
  BY <1>1, <1>2 DEF Places

LEMMA SpanIs ==
    ASSUME WellFormed
    PROVE  /\ \A a, b \in Places : a <= b => <<a, b>> \in Spans
           /\ \A r \in Spans : r[1] \in Places /\ r[2] \in Places /\ r[1] <= r[2] /\ r = <<r[1], r[2]>>
BY DEF Spans, Places

\* Just past a separator the text can be cut.
LEMMA PastBlankSafe ==
    ASSUME WellFormed, NEW i \in Places, i > 0, i < Len(text),
           Whitespace(ByteAt(i - 1)) \/ ByteAt(i - 1) = "period"
    PROVE  Safe(i)
<1>1. SUFFICES ASSUME "blank rest" \notin ToSet(text) PROVE CharBoundary(i)
  BY DEF Safe
<1>2. i \in 1 .. Len(text) /\ i + 1 \in 1 .. Len(text) /\ i - 1 + 1 = i /\ i + 1 - 1 = i
  BY PlacesAre
<1>3. text \in Seq(Byte) /\ DOMAIN text = 1 .. Len(text)
  <2>1. text \in Seq(Byte)
    BY DEF WellFormed
  <2>2. QED
    BY <2>1
<1>4. text[i] \in ToSet(text)
  BY <1>2, <1>3 DEF ToSet
<1>5. text[i] \in {"space", "newline", "period"}
  BY <1>1, <1>2, <1>4 DEF Whitespace, ByteAt
<1>6. text[i + 1] \notin {"rest", "blank rest"}
  <2>1. PICK n : n = i + 1
    OBVIOUS
  <2>2. n \in 1 .. Len(text) /\ n - 1 = i
    BY <1>2, <2>1
  <2>3. text[n] \in {"rest", "blank rest"} => text[n - 1] \notin {"space", "newline", "period"}
    BY <2>2 DEF WellFormed
  <2>4. QED
    BY <1>5, <2>1, <2>2, <2>3
<1>7. QED
  BY <1>6 DEF CharBoundary, ByteAt

LEMMA AfterBlanksIs ==
    ASSUME WellFormed, NEW i \in Places, NEW b \in Places, i <= b, NEW j, j = AfterBlanks(i, b)
    PROVE  /\ j \in Places /\ i <= j /\ j <= b
           /\ j = b \/ ~Whitespace(ByteAt(j))
           /\ \A k \in Places : i <= k /\ k < j => Whitespace(ByteAt(k))
<1> DEFINE S == {k \in i .. b : k = b \/ ~Whitespace(ByteAt(k))}
<1>1. i \in Nat /\ b \in Nat /\ \A k : k \in i .. b => k \in Places /\ k \in Nat
  BY PlacesAre
<1>2. S \in SUBSET Nat /\ b \in S
  BY <1>1
<1>3. j = Min(S)
  BY DEF AfterBlanks
<1>4. j \in S /\ \A k \in S : j <= k
  <2> HIDE DEF S
  <2>1. QED
    BY <1>2, <1>3, MinOf
<1>5. ASSUME NEW k \in Places, i <= k, k < j PROVE Whitespace(ByteAt(k))
  <2>1. k \in i .. b /\ k \in Nat /\ j \in Nat
    BY <1>1, <1>4, <1>5, PlacesAre
  <2>2. k \notin S
    BY <1>4, <1>5, <2>1
  <2>3. QED
    BY <2>1, <2>2
<1>6. j \in i .. b /\ (j = b \/ ~Whitespace(ByteAt(j)))
  BY <1>4
<1>7. j \in Places /\ i <= j /\ j <= b
  BY <1>1, <1>6
<1> HIDE DEF S
<1>8. \A k \in Places : i <= k /\ k < j => Whitespace(ByteAt(k))
  BY <1>5
<1>9. j = b \/ ~Whitespace(ByteAt(j))
  BY <1>6
<1>10. QED
  BY <1>7, <1>8, <1>9, Zenon

-----------------------------------------------------------------------------
(* The separators.                                                         *)

Level == {"word", "sentence", "line", "paragraph"}

\* Past the blanks that follow a separator.
LEMMA AfterBlanksSafe ==
    ASSUME WellFormed, NEW i \in Places, NEW b \in Places, i < b, Safe(b),
           Whitespace(ByteAt(i)), NEW j, j = AfterBlanks(i, b)
    PROVE  j \in Places /\ i < j /\ j <= b /\ Safe(j)
<1>0. i <= b
  BY PlacesAre
<1>1. /\ j \in Places /\ i <= j /\ j <= b
      /\ j = b \/ ~Whitespace(ByteAt(j))
      /\ \A k \in Places : i <= k /\ k < j => Whitespace(ByteAt(k))
  BY <1>0, AfterBlanksIs
<1>2. i < j
  BY <1>1, PlacesAre
<1>3. CASE j = b
  BY <1>1, <1>2, <1>3
<1>4. CASE j # b
  <2>1. j - 1 \in Places /\ i <= j - 1 /\ j - 1 < j /\ j > 0 /\ j < Len(text)
    BY <1>1, <1>2, <1>4, PlacesAre
  <2>2. Whitespace(ByteAt(j - 1))
    BY <1>1, <2>1
  <2>3. QED
    BY <1>1, <1>2, <2>1, <2>2, PastBlankSafe
<1>5. QED
  BY <1>3, <1>4

LEMMA BoundariesAre ==
    ASSUME WellFormed, NEW a \in Places, NEW b \in Places, a <= b, Safe(b), NEW level \in Level
    PROVE  \A p \in Boundaries(level, a, b) : p \in Places /\ a < p /\ p <= b /\ Safe(p)
<1>1. /\ a \in Nat /\ b \in Nat
      /\ \A i \in a .. (b - 2) : i \in Places /\ i + 1 \in Places /\ a <= i /\ i < b /\ i + 1 < b
  BY PlacesAre
<1>2. ASSUME NEW i \in a .. (b - 2), ByteAt(i) = "newline"
      PROVE  Whitespace(ByteAt(i))
  BY <1>2 DEF Whitespace
<1>3. ASSUME NEW i \in a .. (b - 2), Whitespace(ByteAt(i)), NEW p, p = AfterBlanks(i, b)
      PROVE  p \in Places /\ a < p /\ p <= b /\ Safe(p)
  <2>1. p \in Places /\ i < p /\ p <= b /\ Safe(p)
    BY <1>1, <1>3, AfterBlanksSafe
  <2>2. QED
    BY <1>1, <2>1, PlacesAre
<1>4. CASE level = "paragraph"
  BY <1>2, <1>3, <1>4 DEF Boundaries
<1>5. CASE level = "line"
  <2>1. ASSUME NEW i \in a .. (b - 2), ByteAt(i) = "newline" PROVE Safe(i + 1) /\ a < i + 1 /\ i + 1 <= b
    <3>1. i + 1 \in Places /\ i + 1 > 0 /\ i + 1 < Len(text) /\ i + 1 - 1 = i
      BY <1>1, PlacesAre
    <3>2. Safe(i + 1)
      BY <1>2, <2>1, <3>1, PastBlankSafe
    <3>3. QED
      BY <1>1, <3>2
  <2>2. QED
    BY <1>1, <1>5, <2>1 DEF Boundaries
<1>6. CASE level = "sentence"
  <2>1. ASSUME NEW i \in a .. (b - 2), Whitespace(ByteAt(i + 1)), NEW p, p = AfterBlanks(i + 1, b)
        PROVE  p \in Places /\ a < p /\ p <= b /\ Safe(p)
    <3>1. p \in Places /\ i + 1 < p /\ p <= b /\ Safe(p)
      BY <1>1, <2>1, AfterBlanksSafe
    <3>2. QED
      BY <1>1, <3>1, PlacesAre
  <2>2. QED
    BY <1>6, <2>1 DEF Boundaries
<1>7. CASE level = "word"
  BY <1>3, <1>7 DEF Boundaries
<1>8. QED
  BY <1>4, <1>5, <1>6, <1>7 DEF Level

\* Between two separators of words no word begins.
LEMMA NoWordBetween ==
    ASSUME WellFormed, NEW a \in Places, NEW b \in Places,
           NEW x \in Places, NEW y \in Places, a <= x, x <= y, y <= b,
           \A p \in Boundaries("word", a, b) : ~(x < p /\ p < y)
    PROVE  Unbroken(x, y)
<1>1. SUFFICES ASSUME NEW i \in x .. (y - 2), Whitespace(ByteAt(i)), ~Whitespace(ByteAt(i + 1))
               PROVE  FALSE
  BY DEF Unbroken
<1>2. /\ a \in Nat /\ b \in Nat /\ x \in Nat /\ y \in Nat /\ i \in Nat
      /\ i \in Places /\ i + 1 \in Places /\ i \in a .. (b - 2) /\ i < b /\ i <= b /\ i + 1 # b
      /\ x < i + 1 /\ i + 1 < y
  BY PlacesAre
<1>3. PICK j : j = AfterBlanks(i, b)
  OBVIOUS
<1>4. /\ j \in Places /\ i <= j /\ j <= b
      /\ j = b \/ ~Whitespace(ByteAt(j))
      /\ \A k \in Places : i <= k /\ k < j => Whitespace(ByteAt(k))
  BY <1>2, <1>3, AfterBlanksIs
<1>5. j = i + 1
  <2>1. j \in Nat
    BY <1>4, PlacesAre
  <2>2. j # i
    BY <1>1, <1>2, <1>4
  <2>3. ~(i + 1 < j)
    BY <1>1, <1>2, <1>4
  <2>4. QED
    BY <1>2, <1>4, <2>1, <2>2, <2>3
<1>6. i + 1 \in Boundaries("word", a, b)
  BY <1>1, <1>2, <1>3, <1>5 DEF Boundaries
<1>7. QED
  BY <1>2, <1>6

-----------------------------------------------------------------------------
(* Ranges that follow each other.                                          *)

Ends == {i \in Places : Safe(i)}
Pairs == Ends \X Ends

\* A word longer than the target, with the blanks after it, in a range.
Long(r, t) ==
    \E x, y \in Places : r[1] <= x /\ x <= y /\ y <= r[2] /\ y - x > t /\ Unbroken(x, y)

\* As large as a range is without need, m more than twice the target.
Fit(r, t, m) == Size(r) <= 2 * t + m \/ Long(r, t)

\* The ranges lead from a to b.
Tiles(out, a, b, t, m) ==
    /\ out \in Seq(Pairs)
    /\ Len(out) = 0 => a = b
    /\ Len(out) > 0 => out[1][1] = a /\ out[Len(out)][2] = b
    /\ \A i \in 1 .. Len(out) : out[i][1] < out[i][2] /\ Fit(out[i], t, m)
    /\ \A i \in 1 .. Len(out), j \in 1 .. Len(out) : j = i + 1 => out[i][2] = out[j][1]

LEMMA EndsAre ==
    ASSUME WellFormed
    PROVE  /\ Ends \subseteq Places /\ Ends \subseteq Nat
           /\ 0 \in Ends /\ Len(text) \in Ends /\ \A i \in Ends : Safe(i) /\ i <= Len(text)
           /\ \A a, b \in Ends : <<a, b>> \in Pairs /\ <<a, b>>[1] = a /\ <<a, b>>[2] = b
           /\ \A r \in Pairs : r[1] \in Ends /\ r[2] \in Ends
<1>1. Ends \subseteq Places /\ \A i \in Ends : Safe(i)
  BY DEF Ends
<1>2. Ends \subseteq Nat /\ \A i \in Ends : i <= Len(text)
  BY <1>1, PlacesAre
<1>3. 0 \in Ends /\ Len(text) \in Ends
  BY PlacesAre DEF Ends
<1>4. \A a, b \in Ends : <<a, b>> \in Pairs /\ <<a, b>>[1] = a /\ <<a, b>>[2] = b
  BY DEF Pairs
<1>5. \A r \in Pairs : r[1] \in Ends /\ r[2] \in Ends
  BY DEF Pairs
<1>6. QED
  BY <1>1, <1>2, <1>3, <1>4, <1>5

LEMMA TilesNone ==
    ASSUME NEW a, NEW t, NEW m
    PROVE  Tiles(<<>>, a, a, t, m)
<1>1. <<>> \in Seq(Pairs) /\ Len(<<>>) = 0
  OBVIOUS
<1>2. QED
  BY <1>1 DEF Tiles

\* One range more.
LEMMA TilesAppend ==
    ASSUME WellFormed, NEW t, NEW m, NEW out, NEW a, NEW b \in Ends, NEW c \in Ends, b < c,
           Tiles(out, a, b, t, m), Fit(<<b, c>>, t, m)
    PROVE  Tiles(Append(out, <<b, c>>), a, c, t, m)
<1> DEFINE p == <<b, c>>
           u == Append(out, p)
           n == Len(out)
<1>1. p \in Pairs /\ p[1] = b /\ p[2] = c /\ p[1] < p[2] /\ Fit(p, t, m)
  BY EndsAre
<1>2. out \in Seq(Pairs) /\ n \in Nat
  BY DEF Tiles
<1> HIDE DEF p
<1>3. /\ u \in Seq(Pairs) /\ Len(u) = n + 1
      /\ \A i \in 1 .. n : u[i] = out[i]
      /\ u[n + 1] = p
  BY <1>1, <1>2, AppendProperties
<1> HIDE DEF u, n
<1>4. /\ n = 0 => a = b
      /\ n > 0 => out[1][1] = a /\ out[n][2] = b
      /\ \A i \in 1 .. n : out[i][1] < out[i][2] /\ Fit(out[i], t, m)
      /\ \A i \in 1 .. n, j \in 1 .. n : j = i + 1 => out[i][2] = out[j][1]
  BY DEF Tiles, n
<1>5. u[1][1] = a
  BY <1>1, <1>2, <1>3, <1>4
<1>6. u[Len(u)][2] = c
  BY <1>1, <1>3
<1>7. ASSUME NEW i \in 1 .. Len(u) PROVE u[i][1] < u[i][2] /\ Fit(u[i], t, m)
  <2>1. i \in 1 .. n \/ i = n + 1
    BY <1>2, <1>3
  <2>2. QED
    BY <1>1, <1>3, <1>4, <2>1
<1>8. ASSUME NEW i \in 1 .. Len(u), NEW j \in 1 .. Len(u), j = i + 1
      PROVE  u[i][2] = u[j][1]
  <2>1. (i \in 1 .. n /\ j \in 1 .. n) \/ (i = n /\ n > 0 /\ j = n + 1)
    BY <1>2, <1>3, <1>8
  <2>2. CASE i \in 1 .. n /\ j \in 1 .. n
    BY <1>3, <1>4, <1>8, <2>2
  <2>3. CASE i = n /\ n > 0 /\ j = n + 1
    <3>1. u[n] = out[n]
      BY <1>2, <1>3, <2>3
    <3>2. QED
      BY <1>1, <1>3, <1>4, <2>3, <3>1
  <2>4. QED
    BY <2>1, <2>2, <2>3
<1>9. Len(u) # 0
  BY <1>2, <1>3
<1>10. Tiles(u, a, c, t, m)
  BY <1>3, <1>5, <1>6, <1>7, <1>8, <1>9 DEF Tiles
<1>11. QED
  BY <1>10 DEF u, p

\* Ranges on ranges.
LEMMA TilesConcat ==
    ASSUME WellFormed, NEW t, NEW m, NEW x, NEW y, NEW a, NEW b, NEW c,
           Tiles(x, a, b, t, m), Tiles(y, b, c, t, m)
    PROVE  Tiles(x \o y, a, c, t, m)
<1> DEFINE u == x \o y
           k == Len(x)
           n == Len(y)
<1>1. x \in Seq(Pairs) /\ y \in Seq(Pairs) /\ k \in Nat /\ n \in Nat
  BY DEF Tiles
<1>2. u \in Seq(Pairs) /\ Len(u) = k + n
  BY <1>1, ConcatProperties
<1>3. /\ \A i \in 1 .. k : u[i] = x[i]
      /\ \A i \in 1 .. n : u[k + i] = y[i]
  BY <1>1
<1> HIDE DEF u, k, n
<1>4. /\ k = 0 => a = b
      /\ k > 0 => x[1][1] = a /\ x[k][2] = b
      /\ \A i \in 1 .. k : x[i][1] < x[i][2] /\ Fit(x[i], t, m)
      /\ \A i \in 1 .. k, j \in 1 .. k : j = i + 1 => x[i][2] = x[j][1]
  BY DEF Tiles, k
<1>5. /\ n = 0 => b = c
      /\ n > 0 => y[1][1] = b /\ y[n][2] = c
      /\ \A i \in 1 .. n : y[i][1] < y[i][2] /\ Fit(y[i], t, m)
      /\ \A i \in 1 .. n, j \in 1 .. n : j = i + 1 => y[i][2] = y[j][1]
  BY DEF Tiles, n
<1>6. Len(u) = 0 => a = c
  <2>1. Len(u) = 0 => k = 0 /\ n = 0
    BY <1>1, <1>2
  <2>2. QED
    BY <1>4, <1>5, <2>1
<1>7. ASSUME NEW i \in 1 .. Len(u)
      PROVE  i \in 1 .. k \/ \E h \in 1 .. n : i = k + h
  <2>1. i \in 1 .. k \/ i - k \in 1 .. n
    BY <1>1, <1>2
  <2>2. QED
    BY <1>1, <2>1
<1>8. ASSUME Len(u) > 0 PROVE u[1][1] = a /\ u[Len(u)][2] = c
  <2>1. CASE k = 0
    <3>1. n > 0 /\ Len(u) = n /\ k + 1 = 1 /\ k + n = n /\ 1 \in 1 .. n /\ n \in 1 .. n
      BY <1>1, <1>2, <1>8, <2>1
    <3>2. u[k + 1] = y[1] /\ u[k + n] = y[n]
      BY <1>3, <3>1
    <3>3. QED
      BY <1>4, <1>5, <2>1, <3>1, <3>2
  <2>2. CASE k > 0 /\ n = 0
    <3>1. Len(u) = k /\ 1 \in 1 .. k /\ k \in 1 .. k
      BY <1>1, <1>2, <2>2
    <3>2. QED
      BY <1>3, <1>4, <1>5, <2>2, <3>1
  <2>3. CASE k > 0 /\ n > 0
    <3>1. Len(u) = k + n /\ 1 \in 1 .. k /\ n \in 1 .. n
      BY <1>1, <1>2, <2>3
    <3>2. QED
      BY <1>3, <1>4, <1>5, <2>3, <3>1
  <2>4. QED
    BY <1>1, <2>1, <2>2, <2>3
<1>9. ASSUME NEW i \in 1 .. Len(u) PROVE u[i][1] < u[i][2] /\ Fit(u[i], t, m)
  <2>1. CASE i \in 1 .. k
    BY <1>3, <1>4, <2>1
  <2>2. CASE \E h \in 1 .. n : i = k + h
    BY <1>3, <1>5, <2>2
  <2>3. QED
    BY <1>7, <2>1, <2>2
<1>10. ASSUME NEW i \in 1 .. Len(u), NEW j \in 1 .. Len(u), j = i + 1
       PROVE  u[i][2] = u[j][1]
  <2>1. CASE j \in 1 .. k
    <3>1. i \in 1 .. k
      BY <1>1, <1>10, <2>1
    <3>2. QED
      BY <1>3, <1>4, <1>10, <2>1, <3>1
  <2>2. CASE i \in 1 .. k /\ j \notin 1 .. k
    <3>1. i = k /\ j = k + 1 /\ k > 0 /\ n > 0 /\ 1 \in 1 .. n
      BY <1>1, <1>2, <1>10, <2>2
    <3>2. u[i] = x[k] /\ u[j] = y[1]
      BY <1>3, <2>2, <3>1
    <3>3. QED
      BY <1>4, <1>5, <3>1, <3>2
  <2>3. CASE i \notin 1 .. k
    <3>1. PICK h \in 1 .. n : i = k + h
      BY <1>7, <2>3
    <3>2. h + 1 \in 1 .. n /\ j = k + (h + 1)
      BY <1>1, <1>2, <1>10, <3>1
    <3>3. PICK g : g = h + 1
      OBVIOUS
    <3>4. u[i] = y[h] /\ u[j] = y[g] /\ g \in 1 .. n
      BY <1>3, <3>1, <3>2, <3>3
    <3>5. QED
      BY <1>5, <3>3, <3>4
  <2>4. QED
    BY <2>1, <2>2, <2>3
<1>11. Tiles(u, a, c, t, m)
  BY <1>2, <1>6, <1>8, <1>9, <1>10 DEF Tiles
<1>12. QED
  BY <1>11 DEF u

\* Some of the ranges.
LEMMA TilesSome ==
    ASSUME WellFormed, NEW t, NEW m, NEW out, NEW a, NEW b, Tiles(out, a, b, t, m),
           NEW i \in 1 .. Len(out), NEW j \in 1 .. Len(out), i <= j
    PROVE  Tiles(SubSeq(out, i, j), out[i][1], out[j][2], t, m)
<1> DEFINE u == SubSeq(out, i, j)
           n == Len(out)
           k == j - i + 1
<1>1. out \in Seq(Pairs) /\ n \in Nat /\ i \in Nat /\ j \in Nat
  BY DEF Tiles
<1>2. u \in Seq(Pairs) /\ Len(u) = k /\ k \in Nat /\ k > 0
  BY <1>1
<1>3. \A h \in 1 .. k : u[h] = out[i + h - 1] /\ i + h - 1 \in 1 .. n
  BY <1>1
<1> HIDE DEF u
<1>4. /\ \A h \in 1 .. n : out[h][1] < out[h][2] /\ Fit(out[h], t, m)
      /\ \A h \in 1 .. n, g \in 1 .. n : g = h + 1 => out[h][2] = out[g][1]
  BY DEF Tiles
<1>5. u[1] = out[i] /\ u[k] = out[j]
  BY <1>1, <1>2, <1>3
<1>6. ASSUME NEW h \in 1 .. k PROVE u[h][1] < u[h][2] /\ Fit(u[h], t, m)
  BY <1>3, <1>4
<1>7. ASSUME NEW h \in 1 .. k, NEW g \in 1 .. k, g = h + 1 PROVE u[h][2] = u[g][1]
  <2>1. PICK p \in 1 .. n : p = i + h - 1 /\ u[h] = out[p]
    BY <1>3
  <2>2. PICK q \in 1 .. n : q = i + g - 1 /\ u[g] = out[q]
    BY <1>3
  <2>3. q = p + 1
    BY <1>1, <1>7, <2>1, <2>2
  <2>4. QED
    BY <1>4, <2>1, <2>2, <2>3
<1> HIDE DEF n
<1>8. Tiles(u, out[i][1], out[j][2], t, m)
  BY <1>2, <1>5, <1>6, <1>7 DEF Tiles
<1>9. QED
  BY <1>8 DEF u

\* Where the ranges begin and end.
LEMMA TilesAre ==
    ASSUME WellFormed, NEW t, NEW m, NEW out, NEW a, NEW b, Tiles(out, a, b, t, m)
    PROVE  /\ out \in Seq(Pairs) /\ Len(out) \in Nat
           /\ Len(out) = 0 => a = b
           /\ Len(out) > 0 => out[1][1] = a /\ out[Len(out)][2] = b
           /\ \A i \in 1 .. Len(out) :
                 /\ out[i] \in Pairs /\ out[i][1] \in Ends /\ out[i][2] \in Ends
                 /\ out[i][1] < out[i][2] /\ Fit(out[i], t, m)
           /\ \A i \in 1 .. Len(out), j \in 1 .. Len(out) : j = i + 1 => out[i][2] = out[j][1]
<1>1. out \in Seq(Pairs) /\ Len(out) \in Nat
  BY DEF Tiles
<1>2. ASSUME NEW i \in 1 .. Len(out)
      PROVE  out[i] \in Pairs /\ out[i][1] \in Ends /\ out[i][2] \in Ends
  <2>1. out[i] \in Pairs
    BY <1>1
  <2>2. QED
    BY <2>1, EndsAre
<1>3. /\ Len(out) = 0 => a = b
      /\ Len(out) > 0 => out[1][1] = a /\ out[Len(out)][2] = b
      /\ \A i \in 1 .. Len(out) : out[i][1] < out[i][2] /\ Fit(out[i], t, m)
      /\ \A i \in 1 .. Len(out), j \in 1 .. Len(out) : j = i + 1 => out[i][2] = out[j][1]
  BY DEF Tiles
<1>4. QED
  BY <1>1, <1>2, <1>3

\* All ranges but the last.
LEMMA TilesFront ==
    ASSUME WellFormed, NEW t, NEW m, NEW out, NEW a, NEW b, Tiles(out, a, b, t, m), out # <<>>
    PROVE  /\ Len(out) > 0 /\ Last(out) \in Pairs /\ Last(out) = out[Len(out)]
           /\ Last(out)[1] \in Ends /\ Last(out)[2] = b /\ Last(out)[1] < b /\ Fit(Last(out), t, m)
           /\ Tiles(Front(out), a, Last(out)[1], t, m)
<1> DEFINE n == Len(out)
           l == out[n]
<1>1. out \in Seq(Pairs) /\ n \in Nat /\ n > 0
  <2>1. out \in Seq(Pairs)
    BY TilesAre
  <2>2. QED
    BY <2>1, EmptySeq
<1>2. n \in 1 .. n /\ Last(out) = l
  BY <1>1 DEF Last
<1>3. /\ out[1][1] = a /\ l[2] = b
      /\ l \in Pairs /\ l[1] \in Ends /\ l[1] < l[2] /\ Fit(l, t, m)
      /\ \A i \in 1 .. n, j \in 1 .. n : j = i + 1 => out[i][2] = out[j][1]
  BY <1>1, <1>2, TilesAre
<1>4. Front(out) = SubSeq(out, 1, n - 1)
  BY DEF Front
<1>5. Tiles(Front(out), a, l[1], t, m)
  <2>1. CASE n = 1
    <3>1. n - 1 < 1 /\ n - 1 \in Int
      BY <2>1
    <3>2. SubSeq(out, 1, n - 1) = <<>>
      BY <3>1, SubSeqEmpty
    <3>3. a = l[1]
      BY <1>3, <2>1
    <3>4. QED
      BY <1>4, <3>2, <3>3, TilesNone
  <2>2. CASE n # 1
    <3>1. 1 \in 1 .. n /\ n - 1 \in 1 .. n /\ 1 <= n - 1 /\ n = (n - 1) + 1
      <4> HIDE DEF n
      <4>1. QED
        BY <1>1, <2>2
    <3>2. Tiles(SubSeq(out, 1, n - 1), out[1][1], out[n - 1][2], t, m)
      BY <3>1, TilesSome
    <3>3. out[n - 1][2] = l[1]
      BY <1>2, <1>3, <3>1
    <3>4. QED
      BY <1>3, <1>4, <3>2, <3>3
  <2>3. QED
    BY <2>1, <2>2
<1>6. QED
  BY <1>1, <1>2, <1>3, <1>5

\* A range joins the last one.
LEMMA TilesJoin ==
    ASSUME WellFormed, NEW t, NEW m, NEW out, NEW a, NEW b, NEW r \in Pairs,
           Tiles(out, a, b, t, m), out # <<>>, r[1] = b, r[1] < r[2],
           Fit(<<Last(out)[1], r[2]>>, t, m)
    PROVE  Tiles(MergedInto(out, r), a, r[2], t, m)
<1>1. PICK x : x = Last(out)[1]
  OBVIOUS
<1>2. PICK f : f = Front(out)
  OBVIOUS
<1>3. x \in Ends /\ x < b /\ Tiles(f, a, x, t, m)
  BY <1>1, <1>2, TilesFront
<1>4. PICK c : c = r[2]
  OBVIOUS
<1>5. c \in Ends /\ b \in Ends
  BY <1>4, EndsAre
<1>6. x < c
  BY <1>3, <1>4, <1>5, EndsAre
<1>7. Fit(<<x, c>>, t, m)
  BY <1>1, <1>4
<1>8. Tiles(Append(f, <<x, c>>), a, c, t, m)
  BY <1>3, <1>5, <1>6, <1>7, TilesAppend
<1>9. QED
  BY <1>1, <1>2, <1>4, <1>8 DEF MergedInto

\* What fits tightly fits loosely.
LEMMA TilesLoosen ==
    ASSUME WellFormed, NEW t \in Nat, NEW m \in Nat, NEW out, NEW a, NEW b, Tiles(out, a, b, t, 0)
    PROVE  Tiles(out, a, b, t, m)
<1>1. ASSUME NEW i \in 1 .. Len(out) PROVE Fit(out[i], t, m)
  <2>1. Fit(out[i], t, 0) /\ out[i][1] \in Ends /\ out[i][2] \in Ends
    BY TilesAre
  <2>2. Size(out[i]) \in Int
    BY <2>1, EndsAre DEF Size
  <2>3. QED
    BY <2>1, <2>2 DEF Fit
<1>2. QED
  BY <1>1 DEF Tiles

-----------------------------------------------------------------------------
(* The hard cut of a word.                                                 *)

LEMMA FitUnbroken ==
    ASSUME WellFormed, NEW t \in Nat, NEW a \in Places, NEW b \in Places, a <= b, Unbroken(a, b)
    PROVE  Fit(<<a, b>>, t, 0)
<1> DEFINE r == <<a, b>>
<1>1. r[1] = a /\ r[2] = b /\ a \in Nat /\ b \in Nat
  BY PlacesAre
<1> HIDE DEF r
<1>2. CASE b - a > t
  <2>1. Long(r, t)
    BY <1>1, <1>2 DEF Long
  <2>2. QED
    BY <2>1 DEF Fit, r
<1>3. CASE ~(b - a > t)
  <2>1. Size(r) = b - a
    BY <1>1 DEF Size
  <2>2. Size(r) <= 2 * t + 0
    BY <1>1, <1>3, <2>1
  <2>3. QED
    BY <2>2 DEF Fit, r
<1>4. QED
  BY <1>2, <1>3

LEMMA FitShort ==
    ASSUME WellFormed, NEW t \in Nat, NEW a \in Places, NEW b \in Places, b - a <= 2 * t
    PROVE  Fit(<<a, b>>, t, 0)
<1> DEFINE r == <<a, b>>
<1>1. r[1] = a /\ r[2] = b /\ a \in Nat /\ b \in Nat
  BY PlacesAre
<1> HIDE DEF r
<1>2. Size(r) <= 2 * t + 0
  BY <1>1 DEF Size
<1>3. QED
  BY <1>2 DEF Fit, r

LEMMA UnbrokenPart ==
    ASSUME WellFormed, NEW a \in Places, NEW b \in Places, NEW x \in Places, NEW y \in Places,
           a <= x, y <= b, Unbroken(a, b)
    PROVE  Unbroken(x, y)
<1>1. \A i \in x .. (y - 2) : i \in a .. (b - 2)
  BY PlacesAre
<1>2. QED
  BY <1>1 DEF Unbroken

CutState == [out : Seq(Pairs), start : Ends]

LEMMA CutsAtType ==
    ASSUME WellFormed, NEW t \in Nat, NEW a \in Ends, NEW b \in Ends, a <= b,
           NEW n \in 1 .. b - a, NEW s \in CutState
    PROVE  CutsAt(s, a + n, b, t) \in CutState
<1>1. PICK e : e = a + n
  OBVIOUS
<1>2. e \in Places /\ a \in Nat /\ b \in Nat
  <2>1. a \in Nat /\ b \in Nat /\ b <= Len(text) /\ Len(text) \in Nat
    BY EndsAre, PlacesAre
  <2>2. e \in 0 .. Len(text)
    BY <1>1, <2>1
  <2>3. QED
    BY <2>1, <2>2 DEF Places
<1>3. s.out \in Seq(Pairs) /\ s.start \in Ends
  BY DEF CutState
<1>4. CASE e = b \/ (e >= s.start + t /\ CharBoundary(e))
  <2>1. e \in Ends
    <3>1. CASE e = b
      BY <3>1
    <3>2. CASE CharBoundary(e)
      BY <1>2, <3>2 DEF Ends, Safe
    <3>3. QED
      BY <1>4, <3>1, <3>2
  <2>2. <<s.start, e>> \in Pairs
    BY <1>3, <2>1, EndsAre
  <2>3. Append(s.out, <<s.start, e>>) \in Seq(Pairs)
    BY <1>3, <2>2, AppendProperties
  <2>4. CutsAt(s, e, b, t) = [out |-> Append(s.out, <<s.start, e>>), start |-> e]
    BY <1>4 DEF CutsAt
  <2>5. CutsAt(s, e, b, t) \in CutState
    BY <2>1, <2>3, <2>4 DEF CutState
  <2>6. QED
    BY <1>1, <2>5
<1>5. CASE ~(e = b \/ (e >= s.start + t /\ CharBoundary(e)))
  BY <1>1, <1>5 DEF CutsAt
<1>6. QED
  BY <1>4, <1>5

LEMMA CuttingIs ==
    ASSUME WellFormed, NEW t \in Nat, NEW a \in Ends, NEW b \in Ends, a <= b
    PROVE  /\ Cutting(a, b, t)[0] = [out |-> <<>>, start |-> a]
           /\ \A n \in 1 .. b - a : Cutting(a, b, t)[n] = CutsAt(Cutting(a, b, t)[n - 1], a + n, b, t)
<1> DEFINE N == b - a
           F == [p \in (1 .. N) \X CutState |-> CutsAt(p[2], a + p[1], b, t)]
           c == [out |-> <<>>, start |-> a]
           P == Cutting(a, b, t)
<1>1. N \in Nat
  BY EndsAre
<1>2. F \in [(1 .. N) \X CutState -> CutState]
  BY CutsAtType
<1>3. c \in CutState
  BY DEF CutState
<1>4. PICK g \in [0 .. N -> CutState] : RecursiveUpTo(g, N, c, F)
  <2> HIDE DEF F, N, c
  <2>1. QED
    BY <1>1, <1>2, <1>3, RecursionUpTo
<1>5. g[0] = c
  BY <1>4 DEF RecursiveUpTo
<1>6. ASSUME NEW k \in 1 .. N PROVE g[k] = CutsAt(g[k - 1], a + k, b, t)
  <2>1. g[k] = F[<<k, g[k - 1]>>]
    BY <1>4 DEF RecursiveUpTo
  <2>2. g[k - 1] \in CutState
    BY <1>1
  <2>3. <<k, g[k - 1]>> \in (1 .. N) \X CutState
    BY <2>2
  <2>4. QED
    BY <2>1, <2>3
<1>7. g = [n \in 0 .. b - a |-> IF n = 0 THEN c ELSE CutsAt(g[n - 1], a + n, b, t)]
  <2> HIDE DEF c
  <2>1. QED
    BY <1>1, <1>5, <1>6
<1>8. P = [n \in 0 .. b - a |-> IF n = 0 THEN c ELSE CutsAt(P[n - 1], a + n, b, t)]
  BY <1>7 DEF Cutting
<1> HIDE DEF P, c
<1>9. P[0] = c /\ \A n \in 1 .. N : P[n] = CutsAt(P[n - 1], a + n, b, t)
  <2> DEFINE D == [n \in 0 .. N |-> IF n = 0 THEN c ELSE CutsAt(P[n - 1], a + n, b, t)]
  <2>1. D[0] = c
    BY <1>1
  <2>2. ASSUME NEW n \in 1 .. N PROVE D[n] = CutsAt(P[n - 1], a + n, b, t)
    BY <1>1
  <2>3. P = D
    BY <1>8
  <2> HIDE DEF D
  <2>4. QED
    BY <2>1, <2>2, <2>3
<1>10. QED
  BY <1>9 DEF P, c

\* How far a hard cut is at e.
CutUpTo(s, a, b, t, e) ==
    /\ s \in CutState
    /\ Tiles(s.out, a, s.start, t, 0)
    /\ a <= s.start /\ s.start <= e /\ e <= b
    /\ e = b => s.start = b

LEMMA CutsOn ==
    ASSUME WellFormed, NEW t \in Nat, NEW a \in Ends, NEW b \in Ends, Unbroken(a, b),
           NEW n \in 1 .. b - a, NEW s, CutUpTo(s, a, b, t, a + (n - 1))
    PROVE  CutUpTo(CutsAt(s, a + n, b, t), a, b, t, a + n)
<1> DEFINE u == CutsAt(s, a + n, b, t)
<1>1. PICK e : e = a + n
  OBVIOUS
<1>2. /\ a \in Nat /\ b \in Nat /\ e \in Nat /\ e <= b /\ a <= b /\ a < e /\ a \in Places /\ b \in Places
      /\ a + (n - 1) = e - 1
  BY <1>1, EndsAre
<1>3. /\ s \in CutState /\ s.start \in Ends /\ s.start \in Nat /\ s.start \in Places
      /\ Tiles(s.out, a, s.start, t, 0) /\ a <= s.start /\ s.start < e
  <2>1. s \in CutState /\ s.start \in Ends
    BY DEF CutUpTo, CutState
  <2>2. s.start \in Nat /\ s.start \in Places
    BY <2>1, EndsAre
  <2>3. Tiles(s.out, a, s.start, t, 0) /\ a <= s.start /\ s.start <= e - 1
    BY <1>2 DEF CutUpTo
  <2>4. s.start < e
    BY <1>2, <2>2, <2>3
  <2>5. QED
    BY <2>1, <2>2, <2>3, <2>4
<1>4. u \in CutState
  BY <1>2, <1>3, CutsAtType
<1>5. CASE e = b \/ (e >= s.start + t /\ CharBoundary(e))
  <2>1. u = [out |-> Append(s.out, <<s.start, e>>), start |-> e]
    BY <1>1, <1>5 DEF CutsAt
  <2>2. u.out = Append(s.out, <<s.start, e>>) /\ u.start = e
    BY <2>1
  <2> HIDE DEF u
  <2>3. e \in Ends /\ e \in Places
    <3>1. e \in Ends
      BY <1>4, <2>2 DEF CutState
    <3>2. QED
      BY <3>1, EndsAre
  <2>4. Unbroken(s.start, e)
    BY <1>2, <1>3, <2>3, UnbrokenPart
  <2>5. s.start <= e
    BY <1>2, <1>3
  <2>6. Fit(<<s.start, e>>, t, 0)
    BY <1>3, <2>3, <2>4, <2>5, FitUnbroken
  <2>7. Tiles(u.out, a, u.start, t, 0)
    BY <1>3, <2>2, <2>3, <2>6, TilesAppend
  <2>8. CutUpTo(u, a, b, t, e)
    BY <1>2, <1>4, <2>2, <2>7 DEF CutUpTo
  <2>9. QED
    BY <1>1, <2>8 DEF u
<1>6. CASE ~(e = b \/ (e >= s.start + t /\ CharBoundary(e)))
  <2>1. u = s
    BY <1>1, <1>6 DEF CutsAt
  <2> HIDE DEF u
  <2>2. CutUpTo(u, a, b, t, e)
    BY <1>2, <1>3, <1>6, <2>1 DEF CutUpTo
  <2>3. QED
    BY <1>1, <2>2 DEF u
<1>7. QED
  BY <1>5, <1>6

LEMMA HardCutTiles ==
    ASSUME WellFormed, NEW t \in Nat, NEW a \in Ends, NEW b \in Ends, a <= b, Unbroken(a, b)
    PROVE  Tiles(HardCut(a, b, t), a, b, t, 0)
<1> DEFINE N == b - a
           P == Cutting(a, b, t)
           S == {n \in 0 .. N : CutUpTo(P[n], a, b, t, a + n)}
<1>1. N \in Nat /\ a \in Nat /\ b \in Nat /\ a + N = b /\ a + 0 = a
  BY EndsAre
<1>2. 0 \in S
  <2> DEFINE c == [out |-> <<>>, start |-> a]
  <2>1. P[0] = c
    BY CuttingIs
  <2>2. c \in CutState /\ c.out = <<>> /\ c.start = a
    BY DEF CutState
  <2> HIDE DEF P, c
  <2>3. Tiles(c.out, a, c.start, t, 0)
    BY <2>2, TilesNone
  <2>4. CutUpTo(c, a, b, t, a)
    BY <1>1, <2>2, <2>3 DEF CutUpTo
  <2>5. CutUpTo(P[0], a, b, t, a + 0)
    BY <1>1, <2>1, <2>4
  <2>6. QED
    BY <1>1, <2>5
<1>3. ASSUME NEW n \in 1 .. N, n - 1 \in S PROVE n \in S
  <2>1. P[n] = CutsAt(P[n - 1], a + n, b, t)
    <3>1. \A k \in 1 .. b - a : P[k] = CutsAt(P[k - 1], a + k, b, t)
      BY CuttingIs
    <3> HIDE DEF P
    <3>2. QED
      BY <3>1
  <2>2. CutUpTo(P[n - 1], a, b, t, a + (n - 1))
    BY <1>3
  <2>3. CutUpTo(P[n], a, b, t, a + n)
    BY <2>1, <2>2, CutsOn
  <2>4. QED
    BY <1>1, <2>3
<1>4. 0 .. N \subseteq S
  <2> HIDE DEF S, N
  <2>1. QED
    BY <1>1, <1>2, <1>3, NatUpTo
<1>5. CutUpTo(P[N], a, b, t, b)
  <2>1. N \in S
    BY <1>1, <1>4
  <2>2. QED
    BY <1>1, <2>1
<1>6. PICK s : s = P[N]
  OBVIOUS
<1>7. Tiles(s.out, a, b, t, 0)
  <2> HIDE DEF P, N
  <2>1. QED
    BY <1>5, <1>6 DEF CutUpTo
<1>8. QED
  BY <1>6, <1>7 DEF HardCut

-----------------------------------------------------------------------------
(* The loop over the separators.                                           *)

TurnState == [start : Ends, fit : Ends, out : Seq(Pairs)]

\* What becomes of a span that is too long; of a word only one that fits.
Divides(below, level, t) ==
    \A x, y \in Ends : x < y /\ y - x > t =>
        /\ below[<<x, y>>] \in Seq(Pairs)
        /\ (level = "word" => Fit(<<x, y>>, t, 0)) => Tiles(below[<<x, y>>], x, y, t, 0)

\* The points are separators of the span.
Separate(points, level, a, b) ==
    /\ level \in Level /\ a \in Ends /\ b \in Ends /\ a < b
    /\ points = Boundaries(level, a, b)

LEMMA SeparateIs ==
    ASSUME WellFormed, NEW points, NEW level, NEW a, NEW b, Separate(points, level, a, b)
    PROVE  /\ a \in Ends /\ b \in Ends /\ a \in Nat /\ b \in Nat /\ b - a \in Nat \ {0} /\ a < b
           /\ \A p \in points : p \in Ends /\ p \in Nat /\ a < p /\ p <= b
<1>1. a \in Ends /\ b \in Ends /\ a < b /\ level \in Level /\ points = Boundaries(level, a, b)
  BY DEF Separate
<1>2. a \in Places /\ b \in Places /\ Safe(b) /\ a \in Nat /\ b \in Nat
  BY <1>1, EndsAre
<1>3. \A p \in points : p \in Places /\ a < p /\ p <= b /\ Safe(p)
  <2>1. a <= b
    BY <1>1, <1>2
  <2>2. QED
    BY <1>1, <1>2, <2>1, BoundariesAre
<1>4. \A p \in points : p \in Ends
  BY <1>3 DEF Ends
<1>5. \A p \in points : p \in Nat
  BY <1>3, PlacesAre
<1>6. b - a \in Nat \ {0}
  BY <1>1, <1>2
<1>7. QED
  BY <1>1, <1>2, <1>3, <1>4, <1>5, <1>6

\* A turn at e, if that is a point.
TurnAt(s, e, points, t, below) == IF e \in points THEN Turn(s, e, t, below) ELSE s

LEMMA TurnType ==
    ASSUME WellFormed, NEW t \in Nat, NEW level, NEW below, Divides(below, level, t),
           NEW e \in Ends, NEW s \in TurnState
    PROVE  Turn(s, e, t, below) \in TurnState
<1>1. s.start \in Ends /\ s.fit \in Ends /\ s.out \in Seq(Pairs) /\ 0 \in Ends
  BY EndsAre DEF TurnState
<1>2. CASE e <= s.start
  BY <1>2 DEF Turn
<1>3. CASE ~(e <= s.start) /\ e - s.start <= t
  <2>1. Turn(s, e, t, below) = [s EXCEPT !.fit = e]
    BY <1>3 DEF Turn
  <2>2. QED
    BY <2>1 DEF TurnState
<1>4. CASE ~(e <= s.start) /\ ~(e - s.start <= t) /\ s.fit # 0
  <2> DEFINE v == [s EXCEPT !.out = Append(@, <<s.start, s.fit>>)]
  <2>1. <<s.start, s.fit>> \in Pairs
    BY <1>1, EndsAre
  <2>2. Append(s.out, <<s.start, s.fit>>) \in Seq(Pairs)
    BY <1>1, <2>1, AppendProperties
  <2>3. v \in TurnState
    <3>1. PICK o \in Seq(Pairs) : o = Append(s.out, <<s.start, s.fit>>)
      BY <2>2
    <3>2. v = [s EXCEPT !.out = o]
      BY <3>1
    <3>3. QED
      BY <3>2 DEF TurnState
  <2>4. Turn(s, e, t, below) = Restarted(v, e, t)
    BY <1>4 DEF Turn
  <2> HIDE DEF v
  <2>5. Restarted(v, e, t) \in TurnState
    BY <1>1, <2>3 DEF Restarted, TurnState
  <2>6. QED
    BY <2>4, <2>5
<1>5. CASE ~(e <= s.start) /\ ~(e - s.start <= t) /\ s.fit = 0
  <2>1. e \in Nat /\ s.start \in Nat
    BY <1>1, EndsAre
  <2>2. s.start < e /\ e - s.start > t
    BY <1>5, <2>1
  <2>3. below[<<s.start, e>>] \in Seq(Pairs)
    BY <1>1, <2>2 DEF Divides
  <2>4. PICK o \in Seq(Pairs) : o = s.out \o below[<<s.start, e>>]
    BY <1>1, <2>3, ConcatProperties
  <2>5. Turn(s, e, t, below) = [s EXCEPT !.out = s.out \o below[<<s.start, e>>], !.start = e]
    BY <1>5 DEF Turn
  <2>6. Turn(s, e, t, below) = [s EXCEPT !.out = o, !.start = e]
    BY <2>4, <2>5
  <2>7. QED
    BY <2>6 DEF TurnState
<1>6. QED
  BY <1>2, <1>3, <1>4, <1>5

\* P is the state after each offset of the span from a to b.
TakesTurns(P, points, a, b, t, below) ==
    /\ P[0] = [start |-> a, fit |-> 0, out |-> <<>>]
    /\ \A n \in 1 .. b - a : P[n] = TurnAt(P[n - 1], a + n, points, t, below)

LEMMA TurnsIs ==
    ASSUME WellFormed, NEW t \in Nat, NEW level, NEW below, Divides(below, level, t),
           NEW points, NEW a, NEW b, Separate(points, level, a, b)
    PROVE  TakesTurns(Turns(points, a, b, t, below), points, a, b, t, below)
<1> DEFINE N == b - a
           F == [p \in (1 .. N) \X TurnState |-> TurnAt(p[2], a + p[1], points, t, below)]
           c == [start |-> a, fit |-> 0, out |-> <<>>]
           P == Turns(points, a, b, t, below)
<1>1. N \in Nat /\ a \in Ends /\ \A p \in points : p \in Ends
  BY SeparateIs
<1>2. F \in [(1 .. N) \X TurnState -> TurnState]
  <2>1. ASSUME NEW n \in 1 .. N, NEW s \in TurnState PROVE TurnAt(s, a + n, points, t, below) \in TurnState
    <3>1. PICK e : e = a + n
      OBVIOUS
    <3>2. e \in points => Turn(s, e, t, below) \in TurnState
      BY <1>1, TurnType
    <3>3. QED
      BY <3>1, <3>2 DEF TurnAt
  <2>2. QED
    BY <2>1
<1>3. c \in TurnState
  <2>1. <<>> \in Seq(Pairs) /\ 0 \in Ends
    BY EndsAre
  <2>2. QED
    BY <1>1, <2>1 DEF TurnState
<1>4. PICK g \in [0 .. N -> TurnState] : RecursiveUpTo(g, N, c, F)
  <2> HIDE DEF F, N, c
  <2>1. QED
    BY <1>1, <1>2, <1>3, RecursionUpTo
<1>5. g[0] = c
  BY <1>4 DEF RecursiveUpTo
<1>6. ASSUME NEW k \in 1 .. N PROVE g[k] = TurnAt(g[k - 1], a + k, points, t, below)
  <2>1. g[k] = F[<<k, g[k - 1]>>]
    BY <1>4 DEF RecursiveUpTo
  <2>2. g[k - 1] \in TurnState
    BY <1>1
  <2>3. <<k, g[k - 1]>> \in (1 .. N) \X TurnState
    BY <2>2
  <2>4. QED
    BY <2>1, <2>3
<1>7. g = [n \in 0 .. b - a |->
              IF n = 0 THEN c
              ELSE IF a + n \in points THEN Turn(g[n - 1], a + n, t, below) ELSE g[n - 1]]
  <2>1. ASSUME NEW n \in 0 .. N
        PROVE  g[n] = IF n = 0 THEN c
                      ELSE IF a + n \in points THEN Turn(g[n - 1], a + n, t, below) ELSE g[n - 1]
    <3>1. CASE n = 0
      BY <1>5, <3>1
    <3>2. CASE n # 0
      <4>1. n \in 1 .. N
        BY <1>1, <3>2
      <4>2. QED
        BY <1>6, <3>2, <4>1 DEF TurnAt
    <3>3. QED
      BY <3>1, <3>2
  <2> HIDE DEF c
  <2>2. QED
    BY <2>1
<1>8. P = [n \in 0 .. b - a |->
              IF n = 0 THEN c
              ELSE IF a + n \in points THEN Turn(P[n - 1], a + n, t, below) ELSE P[n - 1]]
  BY <1>7 DEF Turns
<1> HIDE DEF P, c
<1>9. P[0] = c /\ \A n \in 1 .. N : P[n] = TurnAt(P[n - 1], a + n, points, t, below)
  <2> DEFINE D == [n \in 0 .. N |->
                      IF n = 0 THEN c
                      ELSE IF a + n \in points THEN Turn(P[n - 1], a + n, t, below) ELSE P[n - 1]]
  <2>1. D[0] = c
    BY <1>1
  <2>2. ASSUME NEW n \in 1 .. N PROVE D[n] = TurnAt(P[n - 1], a + n, points, t, below)
    BY <1>1 DEF TurnAt
  <2>3. P = D
    BY <1>8
  <2> HIDE DEF D
  <2>4. QED
    BY <2>1, <2>2, <2>3
<1>10. QED
  BY <1>9 DEF P, c, TakesTurns

\* What lies between the start and e, when fit is what fits so far.
Ahead(points, start, fit, e, t) ==
    \/ /\ fit \in points /\ start < fit /\ fit <= e /\ fit - start <= t
       /\ \A p \in points : ~(fit < p /\ p <= e)
    \/ fit = 0 /\ \A p \in points : ~(start < p /\ p <= e)
    \/ /\ fit = 0
       /\ \E q \in points :
             start < q /\ q <= e /\ q - start > t /\ \A p \in points : ~(start < p /\ p < q)

TurnsUpTo(s, points, a, b, t, e) ==
    /\ s \in TurnState
    /\ Tiles(s.out, a, s.start, t, 0)
    /\ a <= s.start /\ s.start <= e /\ e <= b
    /\ Ahead(points, s.start, s.fit, e, t)

LEMMA FitAround ==
    ASSUME WellFormed, NEW t \in Nat, NEW x \in Places, NEW y \in Places,
           NEW p \in Places, NEW q \in Places,
           x <= p, p <= q, q <= y, q - p > t, Unbroken(p, q)
    PROVE  Fit(<<x, y>>, t, 0)
<1> DEFINE r == <<x, y>>
<1>1. r[1] = x /\ r[2] = y
  OBVIOUS
<1> HIDE DEF r
<1>2. Long(r, t)
  BY <1>1 DEF Long
<1>3. QED
  BY <1>2 DEF Fit, r

\* A span that goes below at the level of words fits.
LEMMA WordsFit ==
    ASSUME WellFormed, NEW t \in Nat, NEW points, NEW a, NEW b, Separate(points, "word", a, b),
           NEW x \in Ends, NEW y \in Ends, a <= x, x < y, y <= b,
           NEW e \in Nat, e <= y, NEW fit, Ahead(points, x, fit, e, t),
           \A p \in points : ~(e < p /\ p < y)
    PROVE  Fit(<<x, y>>, t, 0)
<1>1. /\ a \in Places /\ b \in Places /\ x \in Places /\ y \in Places
      /\ a \in Nat /\ b \in Nat /\ x \in Nat /\ y \in Nat
      /\ points = Boundaries("word", a, b)
      /\ \A p \in points : p \in Places /\ p \in Nat
  BY SeparateIs, EndsAre DEF Separate
<1>2. ASSUME NEW u \in Places, NEW v \in Places, a <= u, u <= v, v <= b,
             \A p \in points : ~(u < p /\ p < v)
      PROVE  Unbroken(u, v)
  BY <1>1, <1>2, NoWordBetween
<1>3. CASE /\ fit \in points /\ x < fit /\ fit <= e /\ fit - x <= t
           /\ \A p \in points : ~(fit < p /\ p <= e)
  <2>1. fit \in Places /\ fit \in Nat /\ fit <= y /\ a <= fit
    BY <1>1, <1>3
  <2>2. CASE y - fit <= t
    <3>1. y - x <= 2 * t
      BY <1>1, <1>3, <2>1, <2>2
    <3>2. QED
      BY <1>1, <3>1, FitShort
  <2>3. CASE ~(y - fit <= t)
    <3>1. \A p \in points : ~(fit < p /\ p < y)
      BY <1>1, <1>3, <2>1
    <3>2. Unbroken(fit, y)
      BY <1>1, <1>2, <2>1, <3>1
    <3>3. x <= fit /\ y - fit > t /\ y <= y
      BY <1>1, <1>3, <2>1, <2>3
    <3>4. QED
      BY <1>1, <2>1, <3>2, <3>3, FitAround
  <2>4. QED
    BY <2>2, <2>3
<1>4. CASE \A p \in points : ~(x < p /\ p <= e)
  <2>1. \A p \in points : ~(x < p /\ p < y)
    BY <1>1, <1>4
  <2>2. x <= y
    BY <1>1
  <2>3. Unbroken(x, y)
    BY <1>1, <1>2, <2>1, <2>2
  <2>4. QED
    BY <1>1, <2>2, <2>3, FitUnbroken
<1>5. CASE \E q \in points :
             x < q /\ q <= e /\ q - x > t /\ \A p \in points : ~(x < p /\ p < q)
  <2>1. PICK q \in points :
             x < q /\ q <= e /\ q - x > t /\ \A p \in points : ~(x < p /\ p < q)
    BY <1>5
  <2>2. q \in Places /\ q \in Nat /\ x <= q /\ q <= y /\ q <= b /\ x <= x
    BY <1>1, <2>1
  <2>3. Unbroken(x, q)
    BY <1>1, <1>2, <2>1, <2>2
  <2>4. QED
    BY <1>1, <2>1, <2>2, <2>3, FitAround
<1>6. QED
  BY <1>3, <1>4, <1>5 DEF Ahead

LEMMA TurnsOn ==
    ASSUME WellFormed, NEW t \in Nat, NEW level, NEW below, Divides(below, level, t),
           NEW points, NEW a, NEW b, Separate(points, level, a, b),
           NEW e \in Nat, a < e, e <= b, NEW s, TurnsUpTo(s, points, a, b, t, e - 1)
    PROVE  TurnsUpTo(TurnAt(s, e, points, t, below), points, a, b, t, e)
<1>1. /\ a \in Ends /\ b \in Ends /\ a \in Nat /\ b \in Nat
      /\ \A p \in points : p \in Ends /\ p \in Nat /\ a < p /\ p <= b
  BY SeparateIs
<1>2. /\ s \in TurnState /\ Tiles(s.out, a, s.start, t, 0)
      /\ a <= s.start /\ s.start <= e - 1
      /\ Ahead(points, s.start, s.fit, e - 1, t)
  BY DEF TurnsUpTo
<1>3. s.start \in Ends /\ s.fit \in Ends /\ s.out \in Seq(Pairs)
  BY <1>2 DEF TurnState
<1>4. s.start \in Nat /\ s.fit \in Nat /\ s.start < e
  BY <1>2, <1>3, EndsAre
<1>5. CASE e \notin points
  <2>1. TurnAt(s, e, points, t, below) = s
    BY <1>5 DEF TurnAt
  <2>2. Ahead(points, s.start, s.fit, e, t)
    <3>1. \A p \in points : p <= e => p <= e - 1
      BY <1>1, <1>5
    <3>2. \A p \in points : p <= e - 1 => p <= e
      BY <1>1
    <3>3. QED
      BY <1>2, <3>1, <3>2 DEF Ahead
  <2>3. s.start <= e
    BY <1>4
  <2>4. QED
    BY <1>2, <2>1, <2>2, <2>3 DEF TurnsUpTo
<1>6. CASE e \in points
  <2>1. e \in Ends /\ e \in Nat
    BY <1>1, <1>6
  <2>2. PICK u : u = Turn(s, e, t, below)
    OBVIOUS
  <2>3. u \in TurnState /\ u = TurnAt(s, e, points, t, below)
    BY <1>2, <1>6, <2>1, <2>2, TurnType DEF TurnAt
  <2>4. ~(e <= s.start)
    BY <1>4
  <2>5. CASE e - s.start <= t
    <3>1. u = [s EXCEPT !.fit = e]
      BY <2>2, <2>4, <2>5 DEF Turn
    <3>2. u.start = s.start /\ u.out = s.out /\ u.fit = e
      BY <1>2, <3>1 DEF TurnState
    <3>3. Ahead(points, u.start, u.fit, e, t)
      <4>1. \A p \in points : ~(e < p /\ p <= e)
        BY <1>1
      <4>2. e <= e
        OBVIOUS
      <4>3. QED
        BY <1>4, <1>6, <2>5, <3>2, <4>1, <4>2 DEF Ahead
    <3>4. u.start <= e
      BY <1>4, <3>2
    <3>5. TurnsUpTo(u, points, a, b, t, e)
      BY <1>2, <2>3, <3>2, <3>3, <3>4 DEF TurnsUpTo
    <3>6. QED
      BY <2>3, <3>5
  <2>6. CASE ~(e - s.start <= t) /\ s.fit # 0
    <3> DEFINE v == [s EXCEPT !.out = Append(@, <<s.start, s.fit>>)]
    <3>1. u = Restarted(v, e, t)
      BY <2>2, <2>4, <2>6 DEF Turn
    <3>2. v.out = Append(s.out, <<s.start, s.fit>>) /\ v.fit = s.fit /\ v.start = s.start
      BY <1>2 DEF TurnState
    <3>3. u.start = s.fit /\ u.out = Append(s.out, <<s.start, s.fit>>)
          /\ u.fit = IF e - s.fit <= t THEN e ELSE 0
      <4>1. u = [v EXCEPT !.start = v.fit, !.fit = IF e - v.fit <= t THEN e ELSE 0]
        BY <3>1 DEF Restarted
      <4>2. v \in TurnState
        <5>1. <<s.start, s.fit>> \in Pairs
          BY <1>3, EndsAre
        <5>2. PICK o \in Seq(Pairs) : o = Append(s.out, <<s.start, s.fit>>)
          BY <1>3, <5>1, AppendProperties
        <5>3. v = [s EXCEPT !.out = o]
          BY <5>2
        <5>4. QED
          BY <1>2, <5>3 DEF TurnState
      <4> HIDE DEF v
      <4>3. PICK f : f = IF e - s.fit <= t THEN e ELSE 0
        OBVIOUS
      <4>4. u = [v EXCEPT !.start = s.fit, !.fit = f]
        BY <3>2, <4>1, <4>3
      <4>5. u.start = s.fit /\ u.fit = f /\ u.out = v.out
        BY <4>2, <4>4 DEF TurnState
      <4>6. QED
        BY <3>2, <4>3, <4>5
    <3>4. /\ s.fit \in points /\ s.start < s.fit /\ s.fit <= e - 1 /\ s.fit - s.start <= t
          /\ \A p \in points : ~(s.fit < p /\ p <= e - 1)
      BY <1>2, <2>6 DEF Ahead
    <3>5. Fit(<<s.start, s.fit>>, t, 0)
      <4>1. s.fit - s.start <= 2 * t /\ s.start \in Places /\ s.fit \in Places
        BY <1>3, <1>4, <3>4, EndsAre
      <4>2. QED
        BY <4>1, FitShort
    <3>6. Tiles(u.out, a, u.start, t, 0)
      BY <1>2, <1>3, <3>3, <3>4, <3>5, TilesAppend
    <3>7. a <= u.start /\ u.start <= e /\ u.start < e
      BY <1>1, <1>2, <1>4, <3>3, <3>4
    <3>8. Ahead(points, u.start, u.fit, e, t)
      <4>1. CASE e - s.fit <= t
        <5>1. u.fit = e
          BY <3>3, <4>1
        <5>2. \A p \in points : ~(e < p /\ p <= e)
          BY <1>1
        <5>3. e <= e
          OBVIOUS
        <5>4. QED
          BY <1>6, <3>3, <3>7, <4>1, <5>1, <5>2, <5>3 DEF Ahead
      <4>2. CASE ~(e - s.fit <= t)
        <5>1. u.fit = 0
          BY <3>3, <4>2
        <5>2. \A p \in points : ~(s.fit < p /\ p < e)
          BY <1>1, <3>4
        <5>3. e - s.fit > t /\ e <= e
          BY <1>4, <4>2
        <5>4. QED
          BY <1>6, <3>3, <3>7, <5>1, <5>2, <5>3 DEF Ahead
      <4>3. QED
        BY <4>1, <4>2
    <3>9. TurnsUpTo(u, points, a, b, t, e)
      BY <2>3, <3>6, <3>7, <3>8 DEF TurnsUpTo
    <3>10. QED
      BY <2>3, <3>9
  <2>7. CASE ~(e - s.start <= t) /\ s.fit = 0
    <3> DEFINE o == below[<<s.start, e>>]
    <3>1. e - s.start > t /\ e - 1 \in Nat /\ e - 1 <= e
      BY <1>1, <1>4, <2>7
    <3>2. level = "word" => Fit(<<s.start, e>>, t, 0)
      <4>1. ASSUME level = "word" PROVE Fit(<<s.start, e>>, t, 0)
        <5>1. Separate(points, "word", a, b)
          BY <4>1
        <5>2. \A p \in points : ~(e - 1 < p /\ p < e)
          BY <1>1
        <5>3. QED
          BY <1>2, <1>3, <1>4, <2>1, <3>1, <5>1, <5>2, WordsFit
      <4>2. QED
        BY <4>1
    <3>3. Tiles(o, s.start, e, t, 0)
      BY <1>3, <1>4, <2>1, <3>1, <3>2 DEF Divides
    <3>4. u = [s EXCEPT !.out = s.out \o o, !.start = e]
      BY <2>2, <2>4, <2>7 DEF Turn
    <3> HIDE DEF o
    <3>5. PICK w : w = s.out \o o
      OBVIOUS
    <3>6. u.start = e /\ u.fit = 0 /\ u.out = w
      BY <1>2, <2>7, <3>4, <3>5 DEF TurnState
    <3>7. Tiles(u.out, a, u.start, t, 0)
      BY <1>2, <3>3, <3>5, <3>6, TilesConcat
    <3>8. Ahead(points, u.start, u.fit, e, t)
      <4>1. \A p \in points : ~(e < p /\ p <= e)
        BY <1>1
      <4>2. QED
        BY <3>6, <4>1 DEF Ahead
    <3>9. a <= u.start /\ u.start <= e
      BY <1>1, <3>6
    <3>10. TurnsUpTo(u, points, a, b, t, e)
      BY <2>3, <3>7, <3>8, <3>9 DEF TurnsUpTo
    <3>11. QED
      BY <2>3, <3>10
  <2>8. QED
    BY <2>5, <2>6, <2>7
<1>7. QED
  BY <1>5, <1>6

\* One level of packing.
LEMMA PackedTiles ==
    ASSUME WellFormed, NEW t \in Nat, NEW level \in Level, NEW without, NEW below,
           Divides(below, level, t),
           \A x, y \in Ends : x < y /\ y - x > t /\ Boundaries(level, x, y) = {} =>
               Tiles(without[<<x, y>>], x, y, t, 0),
           NEW a \in Ends, NEW b \in Ends, a <= b
    PROVE  Tiles(Packed(level, t, without, below)[<<a, b>>], a, b, t, 0)
<1> DEFINE r == <<a, b>>
           o == Packed(level, t, without, below)[r]
           points == Boundaries(level, a, b)
           P == Turns(points, a, b, t, below)
           N == b - a
<1>1. /\ a \in Places /\ b \in Places /\ a \in Nat /\ b \in Nat
      /\ r \in Spans /\ r[1] = a /\ r[2] = b /\ Size(r) = b - a
  <2>1. a \in Places /\ b \in Places /\ a \in Nat /\ b \in Nat
    BY EndsAre
  <2>2. r \in Spans /\ r[1] = a /\ r[2] = b
    BY <2>1, SpanIs
  <2>3. Size(r) = b - a
    BY <2>2 DEF Size
  <2>4. QED
    BY <2>1, <2>2, <2>3
<1>2. o = IF Size(r) = 0 THEN <<>>
          ELSE IF Size(r) <= t THEN <<r>>
          ELSE IF points = {} THEN without[r]
               ELSE Ended(P[Size(r)], b, t, below)
  BY <1>1 DEF Packed
<1> HIDE DEF o, P, points
<1>3. CASE b - a = 0
  <2>1. a = b /\ o = <<>>
    BY <1>1, <1>2, <1>3
  <2>2. Tiles(<<>>, a, a, t, 0)
    BY TilesNone
  <2>3. QED
    BY <2>1, <2>2 DEF o
<1>4. CASE b - a # 0 /\ b - a <= t
  <2>1. o = <<r>> /\ a < b /\ b - a <= 2 * t
    BY <1>1, <1>2, <1>4
  <2>2. Fit(r, t, 0)
    BY <1>1, <2>1, FitShort
  <2>3. Tiles(<<>>, a, a, t, 0)
    BY TilesNone
  <2>4. Tiles(Append(<<>>, r), a, b, t, 0)
    BY <2>1, <2>2, <2>3, TilesAppend
  <2>5. Append(<<>>, r) = <<r>>
    BY <1>1
  <2>6. QED
    BY <2>1, <2>4, <2>5 DEF o
<1>5. CASE b - a > t /\ points = {}
  <2>1. o = without[r] /\ a < b
    BY <1>1, <1>2, <1>5
  <2>2. Tiles(without[r], a, b, t, 0)
    BY <1>5, <2>1 DEF points
  <2>3. QED
    BY <2>1, <2>2 DEF o
<1>6. CASE b - a > t /\ points # {}
  <2>1. o = Ended(P[N], b, t, below) /\ a < b /\ N \in Nat \ {0}
    BY <1>1, <1>2, <1>6
  <2>2. Separate(points, level, a, b)
    BY <2>1 DEF Separate, points
  <2>3. \A p \in points : a < p /\ p \in Nat
    BY <2>2, SeparateIs
  <2>4. TakesTurns(P, points, a, b, t, below)
    <3>1. TakesTurns(Turns(points, a, b, t, below), points, a, b, t, below)
      <4> HIDE DEF r, o, points, P, N
      <4>1. QED
        BY <2>2, TurnsIs
    <3>2. QED
      BY <3>1 DEF P
  <2> DEFINE S == {n \in 0 .. N : TurnsUpTo(P[n], points, a, b, t, a + n)}
  <2>5. 0 \in S
    <3> DEFINE c == [start |-> a, fit |-> 0, out |-> <<>>]
    <3>1. P[0] = c
      BY <2>4 DEF TakesTurns
    <3>2. c.start = a /\ c.fit = 0 /\ c.out = <<>>
      OBVIOUS
    <3>3. c \in TurnState
      <4>1. <<>> \in Seq(Pairs) /\ 0 \in Ends
        BY EndsAre
      <4>2. QED
        BY <4>1 DEF TurnState
    <3> HIDE DEF c
    <3>4. Tiles(c.out, a, c.start, t, 0)
      BY <3>2, TilesNone
    <3>5. Ahead(points, c.start, c.fit, a, t)
      <4>1. \A p \in points : ~(a < p /\ p <= a)
        BY <1>1, <2>3
      <4>2. QED
        BY <3>2, <4>1 DEF Ahead
    <3>6. a <= c.start /\ c.start <= a /\ a <= b
      BY <1>1, <3>2
    <3>7. TurnsUpTo(c, points, a, b, t, a)
      BY <3>3, <3>4, <3>5, <3>6 DEF TurnsUpTo
    <3>8. a + 0 = a
      BY <1>1
    <3>9. TurnsUpTo(P[0], points, a, b, t, a + 0)
      BY <3>1, <3>7, <3>8
    <3>10. QED
      BY <2>1, <3>9
  <2>6. ASSUME NEW n \in 1 .. N, n - 1 \in S PROVE n \in S
    <3>1. P[n] = TurnAt(P[n - 1], a + n, points, t, below)
      <4>1. \A k \in 1 .. b - a : P[k] = TurnAt(P[k - 1], a + k, points, t, below)
        BY <2>4 DEF TakesTurns
      <4>2. QED
        BY <4>1
    <3>2. TurnsUpTo(P[n - 1], points, a, b, t, a + (n - 1))
      BY <2>6
    <3>3. PICK e : e = a + n
      OBVIOUS
    <3>4. e \in Nat /\ a < e /\ e <= b /\ e - 1 = a + (n - 1)
      BY <1>1, <3>3
    <3>5. TurnsUpTo(P[n - 1], points, a, b, t, e - 1)
      BY <3>2, <3>4
    <3>6. TurnsUpTo(TurnAt(P[n - 1], e, points, t, below), points, a, b, t, e)
      BY <2>2, <3>4, <3>5, TurnsOn
    <3>7. TurnsUpTo(P[n], points, a, b, t, a + n)
      BY <3>1, <3>3, <3>6
    <3>8. n \in 0 .. N
      BY <2>1
    <3>9. QED
      BY <3>7, <3>8
  <2>7. 0 .. N \subseteq S
    <3> HIDE DEF S, N
    <3>1. QED
      BY <2>1, <2>5, <2>6, NatUpTo
  <2>8. PICK s : s = P[N]
    OBVIOUS
  <2>9. TurnsUpTo(s, points, a, b, t, b)
    <3>1. N \in S /\ a + N = b
      BY <1>1, <2>1, <2>7
    <3>2. QED
      BY <2>8, <3>1
  <2>10. /\ s \in TurnState /\ Tiles(s.out, a, s.start, t, 0)
        /\ a <= s.start /\ s.start <= b /\ Ahead(points, s.start, s.fit, b, t)
    BY <2>9 DEF TurnsUpTo
  <2>11. s.start \in Ends /\ s.start \in Nat /\ s.start \in Places
    <3>1. s.start \in Ends
      BY <2>10 DEF TurnState
    <3>2. QED
      BY <3>1, EndsAre
  <2>12. o = Ended(s, b, t, below)
    BY <2>1, <2>8
  <2>13. CASE s.start = b
    <3>1. o = s.out
      BY <2>12, <2>13 DEF Ended
    <3>2. QED
      BY <2>10, <2>13, <3>1 DEF o
  <2>14. CASE s.start # b /\ b - s.start <= t
    <3>1. o = Append(s.out, <<s.start, b>>)
      BY <2>12, <2>14 DEF Ended
    <3>2. s.start < b /\ b - s.start <= 2 * t
      BY <1>1, <2>10, <2>11, <2>14
    <3>3. Fit(<<s.start, b>>, t, 0)
      BY <1>1, <2>11, <3>2, FitShort
    <3>4. Tiles(o, a, b, t, 0)
      BY <2>10, <2>11, <3>1, <3>2, <3>3, TilesAppend
    <3>5. QED
      BY <3>4 DEF o
  <2>15. CASE s.start # b /\ ~(b - s.start <= t)
    <3> DEFINE w == below[<<s.start, b>>]
    <3>1. o = s.out \o w
      BY <2>12, <2>15 DEF Ended
    <3>2. s.start < b /\ b - s.start > t
      BY <1>1, <2>10, <2>11, <2>15
    <3>3. level = "word" => Fit(<<s.start, b>>, t, 0)
      <4>1. ASSUME level = "word" PROVE Fit(<<s.start, b>>, t, 0)
        <5>1. Separate(points, "word", a, b)
          BY <2>2, <4>1
        <5>2. \A p \in points : ~(b < p /\ p < b)
          BY <1>1, <2>3
        <5>3. b <= b
          BY <1>1
        <5>4. QED
          BY <1>1, <2>10, <2>11, <3>2, <5>1, <5>2, <5>3, WordsFit
      <4>2. QED
        BY <4>1
    <3>4. Tiles(w, s.start, b, t, 0)
      BY <2>11, <3>2, <3>3 DEF Divides
    <3> HIDE DEF w
    <3>5. Tiles(o, a, b, t, 0)
      BY <2>10, <3>1, <3>4, TilesConcat
    <3>6. QED
      BY <3>5 DEF o
  <2>16. QED
    BY <2>13, <2>14, <2>15
<1>7. QED
  BY <1>1, <1>3, <1>4, <1>5, <1>6

\* What goes below goes to ranges that lead through the span.
Divided(f, t) == \A x, y \in Ends : x <= y => Tiles(f[<<x, y>>], x, y, t, 0)

LEMMA DividedDivides ==
    ASSUME WellFormed, NEW t, NEW f, Divided(f, t), NEW level
    PROVE  Divides(f, level, t)
<1>1. ASSUME NEW x \in Ends, NEW y \in Ends, x < y PROVE Tiles(f[<<x, y>>], x, y, t, 0)
  <2>1. x <= y
    BY <1>1, EndsAre
  <2>2. QED
    BY <2>1 DEF Divided
<1>2. ASSUME NEW x \in Ends, NEW y \in Ends, x < y PROVE f[<<x, y>>] \in Seq(Pairs)
  BY <1>1, <1>2 DEF Tiles
<1>3. QED
  BY <1>1, <1>2 DEF Divides

LEMMA AsOneDivides ==
    ASSUME WellFormed, NEW t \in Nat
    PROVE  Divides(AsOne, "word", t)
<1>1. SUFFICES ASSUME NEW x \in Ends, NEW y \in Ends, x < y
               PROVE  /\ AsOne[<<x, y>>] \in Seq(Pairs)
                      /\ Fit(<<x, y>>, t, 0) => Tiles(AsOne[<<x, y>>], x, y, t, 0)
  BY DEF Divides
<1> DEFINE r == <<x, y>>
<1>2. r \in Spans /\ r \in Pairs
  <2>1. x \in Places /\ y \in Places /\ x <= y /\ r \in Pairs
    BY <1>1, EndsAre
  <2>2. QED
    BY <2>1, SpanIs
<1>3. AsOne[r] = <<r>> /\ <<r>> = Append(<<>>, r)
  BY <1>2 DEF AsOne
<1>4. <<>> \in Seq(Pairs) /\ Tiles(<<>>, x, x, t, 0)
  BY TilesNone
<1>5. Append(<<>>, r) \in Seq(Pairs)
  BY <1>2, <1>4, AppendProperties
<1>6. Fit(r, t, 0) => Tiles(Append(<<>>, r), x, y, t, 0)
  BY <1>1, <1>4, TilesAppend
<1>7. QED
  BY <1>3, <1>5, <1>6

LEMMA HardCutsTile ==
    ASSUME WellFormed, NEW t \in Nat, NEW x \in Ends, NEW y \in Ends, x < y,
           Boundaries("word", x, y) = {}
    PROVE  Tiles(HardCuts(t)[<<x, y>>], x, y, t, 0)
<1>1. x \in Places /\ y \in Places /\ x <= y /\ x <= x /\ y <= y
  BY EndsAre
<1>2. Unbroken(x, y)
  BY <1>1, NoWordBetween
<1>3. Tiles(HardCut(x, y, t), x, y, t, 0)
  BY <1>1, <1>2, HardCutTiles
<1>4. <<x, y>> \in Spans
  BY <1>1, SpanIs
<1>5. HardCuts(t)[<<x, y>>] = HardCut(x, y, t)
  BY <1>4 DEF HardCuts
<1>6. QED
  BY <1>3, <1>5

\* pack divides the text, whatever is between its separators.
LEMMA PackTiles ==
    ASSUME WellFormed, NEW t \in Nat
    PROVE  Tiles(Pack(t), 0, Len(text), t, 0)
<1>1. Divided(Words(t), t)
  <2>1. Divides(AsOne, "word", t) /\ "word" \in Level
    BY AsOneDivides DEF Level
  <2>2. \A x, y \in Ends : x < y /\ y - x > t /\ Boundaries("word", x, y) = {} =>
            Tiles(HardCuts(t)[<<x, y>>], x, y, t, 0)
    BY HardCutsTile
  <2>3. \A a, b \in Ends : a <= b => Tiles(Packed("word", t, HardCuts(t), AsOne)[<<a, b>>], a, b, t, 0)
    BY <2>1, <2>2, PackedTiles
  <2>4. QED
    BY <2>3 DEF Divided, Words
<1>2. ASSUME NEW f, Divided(f, t), NEW level \in Level PROVE Divided(Packed(level, t, f, f), t)
  <2>1. Divides(f, level, t)
    BY <1>2, DividedDivides
  <2>2. \A x, y \in Ends : x < y /\ y - x > t /\ Boundaries(level, x, y) = {} =>
            Tiles(f[<<x, y>>], x, y, t, 0)
    <3>1. \A x, y \in Ends : x < y => x <= y
      BY EndsAre
    <3>2. QED
      BY <1>2, <3>1 DEF Divided
  <2>3. \A a, b \in Ends : a <= b => Tiles(Packed(level, t, f, f)[<<a, b>>], a, b, t, 0)
    BY <1>2, <2>1, <2>2, PackedTiles
  <2>4. QED
    BY <2>3 DEF Divided
<1>3. "sentence" \in Level /\ "line" \in Level /\ "paragraph" \in Level
  BY DEF Level
<1>4. Divided(Sentences(t), t)
  BY <1>1, <1>2, <1>3 DEF Sentences
<1>5. Divided(Lines(t), t)
  BY <1>2, <1>3, <1>4 DEF Lines
<1>6. Divided(Paragraphs(t), t)
  BY <1>2, <1>3, <1>5 DEF Paragraphs
<1>7. 0 \in Ends /\ Len(text) \in Ends /\ 0 <= Len(text)
  BY EndsAre
<1>8. QED
  BY <1>6, <1>7 DEF Divided, Pack

-----------------------------------------------------------------------------
(* Runts.                                                                  *)

LEMMA JoinsType ==
    ASSUME WellFormed, NEW o, NEW out \in Seq(Pairs), NEW r \in Pairs
    PROVE  Joins(out, r, o) \in Seq(Pairs)
<1>1. Append(out, r) \in Seq(Pairs)
  BY AppendProperties
<1>2. ASSUME out # <<>> PROVE MergedInto(out, r) \in Seq(Pairs)
  <2> DEFINE n == Len(out)
  <2>1. n \in Nat /\ n > 0
    BY <1>2, EmptySeq
  <2>2. out[n] \in Pairs
    BY <2>1
  <2>3. Last(out)[1] \in Ends /\ r[2] \in Ends
    BY <2>2, EndsAre DEF Last
  <2>4. <<Last(out)[1], r[2]>> \in Pairs
    BY <2>3, EndsAre
  <2>5. SubSeq(out, 1, n - 1) \in Seq(Pairs)
    BY <2>1
  <2>6. Append(SubSeq(out, 1, n - 1), <<Last(out)[1], r[2]>>) \in Seq(Pairs)
    BY <2>4, <2>5, AppendProperties
  <2>7. QED
    BY <2>6 DEF MergedInto, Front
<1>3. QED
  BY <1>1, <1>2 DEF Joins

LEMMA JoiningIs ==
    ASSUME WellFormed, NEW o, NEW ranges \in Seq(Pairs)
    PROVE  /\ Joining(ranges, o)[0] = <<>>
           /\ \A n \in 1 .. Len(ranges) : Joining(ranges, o)[n] = Joins(Joining(ranges, o)[n - 1], ranges[n], o)
<1> DEFINE N == Len(ranges)
           T == Seq(Pairs)
           F == [p \in (1 .. N) \X T |-> Joins(p[2], ranges[p[1]], o)]
           c == <<>>
           P == Joining(ranges, o)
<1>1. N \in Nat
  OBVIOUS
<1>2. F \in [(1 .. N) \X T -> T]
  <2>1. ASSUME NEW n \in 1 .. N, NEW s \in T PROVE Joins(s, ranges[n], o) \in T
    <3>1. ranges[n] \in Pairs
      OBVIOUS
    <3>2. QED
      BY <3>1, JoinsType
  <2> HIDE DEF T, N
  <2>2. QED
    BY <2>1
<1>3. c \in T
  OBVIOUS
<1>4. PICK g \in [0 .. N -> T] : RecursiveUpTo(g, N, c, F)
  <2> HIDE DEF F, N, c, T
  <2>1. QED
    BY <1>1, <1>2, <1>3, RecursionUpTo
<1>5. g[0] = c
  BY <1>4 DEF RecursiveUpTo
<1> HIDE DEF T
<1>6. ASSUME NEW k \in 1 .. N PROVE g[k] = Joins(g[k - 1], ranges[k], o)
  <2>1. g[k] = F[<<k, g[k - 1]>>]
    BY <1>4 DEF RecursiveUpTo
  <2>2. g[k - 1] \in T
    BY <1>1
  <2>3. <<k, g[k - 1]>> \in (1 .. N) \X T
    BY <2>2
  <2>4. QED
    BY <2>1, <2>3
<1>7. g = [n \in 0 .. Len(ranges) |-> IF n = 0 THEN <<>> ELSE Joins(g[n - 1], ranges[n], o)]
  <2> HIDE DEF N
  <2>1. g = [n \in 0 .. N |-> IF n = 0 THEN <<>> ELSE Joins(g[n - 1], ranges[n], o)]
    BY <1>1, <1>5, <1>6
  <2>2. QED
    BY <2>1 DEF N
<1>8. P = [n \in 0 .. Len(ranges) |-> IF n = 0 THEN <<>> ELSE Joins(P[n - 1], ranges[n], o)]
  BY <1>7 DEF Joining
<1> HIDE DEF P
<1>9. P[0] = <<>> /\ \A n \in 1 .. N : P[n] = Joins(P[n - 1], ranges[n], o)
  <2> DEFINE D == [n \in 0 .. N |-> IF n = 0 THEN <<>> ELSE Joins(P[n - 1], ranges[n], o)]
  <2>1. D[0] = <<>>
    BY <1>1
  <2>2. ASSUME NEW n \in 1 .. N PROVE D[n] = Joins(P[n - 1], ranges[n], o)
    BY <1>1
  <2>3. P = D
    BY <1>8
  <2> HIDE DEF D
  <2>4. QED
    BY <2>1, <2>2, <2>3
<1>10. QED
  BY <1>9 DEF P

LEMMA JoinsTiles ==
    ASSUME WellFormed, NEW o, o.target \in Nat, NEW out, NEW a, NEW b, NEW r \in Pairs,
           Tiles(out, a, b, o.target, 0), r[1] = b, r[1] < r[2], Fit(r, o.target, 0)
    PROVE  Tiles(Joins(out, r, o), a, r[2], o.target, 0)
<1>1. r[1] \in Ends /\ r[2] \in Ends /\ r = <<r[1], r[2]>>
  BY EndsAre DEF Pairs
<1>2. CASE out # <<>> /\ Size(r) < o.min /\ r[2] - Last(out)[1] <= 2 * o.target
  <2>1. Last(out)[1] \in Ends
    BY <1>2, TilesFront
  <2>2. Last(out)[1] \in Places /\ r[2] \in Places
    BY <1>1, <2>1, EndsAre
  <2>3. Fit(<<Last(out)[1], r[2]>>, o.target, 0)
    BY <1>2, <2>2, FitShort
  <2>4. Tiles(MergedInto(out, r), a, r[2], o.target, 0)
    BY <1>2, <2>3, TilesJoin
  <2>5. QED
    BY <1>2, <2>4 DEF Joins
<1>3. CASE ~(out # <<>> /\ Size(r) < o.min /\ r[2] - Last(out)[1] <= 2 * o.target)
  <2>1. PICK c \in Ends : c = r[2]
    BY <1>1
  <2>2. r = <<b, c>> /\ b \in Ends /\ b < c
    BY <1>1, <2>1
  <2>3. Tiles(Append(out, <<b, c>>), a, c, o.target, 0)
    BY <2>2, TilesAppend
  <2>4. QED
    BY <1>3, <2>1, <2>2, <2>3 DEF Joins
<1>4. QED
  BY <1>2, <1>3

\* Backwards.
LEMMA MergedBackTiles ==
    ASSUME WellFormed, NEW o, o.target \in Nat, NEW ranges, NEW a, NEW b,
           Tiles(ranges, a, b, o.target, 0)
    PROVE  Tiles(MergedBack(ranges, o), a, b, o.target, 0)
<1> DEFINE N == Len(ranges)
           J == Joining(ranges, o)
           To(n) == IF n = 0 THEN a ELSE ranges[n][2]
           S == {n \in 0 .. N : Tiles(J[n], a, To(n), o.target, 0)}
<1>1. /\ ranges \in Seq(Pairs) /\ N \in Nat
      /\ N = 0 => a = b
      /\ N > 0 => ranges[1][1] = a /\ ranges[N][2] = b
      /\ \A i \in 1 .. N : ranges[i] \in Pairs /\ ranges[i][1] < ranges[i][2] /\ Fit(ranges[i], o.target, 0)
      /\ \A i \in 1 .. N, j \in 1 .. N : j = i + 1 => ranges[i][2] = ranges[j][1]
  BY TilesAre
<1>2. J[0] = <<>> /\ \A n \in 1 .. N : J[n] = Joins(J[n - 1], ranges[n], o)
  BY <1>1, JoiningIs
<1> HIDE DEF J, N
<1>3. 0 \in S
  <2>1. Tiles(<<>>, a, a, o.target, 0)
    BY TilesNone
  <2>2. QED
    BY <1>1, <1>2, <2>1
<1>4. ASSUME NEW n \in 1 .. N, n - 1 \in S PROVE n \in S
  <2>1. J[n] = Joins(J[n - 1], ranges[n], o)
    BY <1>2
  <2>2. PICK e : e = To(n - 1)
    OBVIOUS
  <2>3. Tiles(J[n - 1], a, e, o.target, 0)
    BY <1>4, <2>2
  <2>4. ranges[n][1] = e
    <3>1. CASE n = 1
      BY <1>1, <2>2, <3>1
    <3>2. CASE n # 1
      <4>1. n - 1 \in 1 .. N /\ n = (n - 1) + 1 /\ n - 1 # 0
        BY <1>1, <3>2
      <4>2. ranges[n - 1][2] = ranges[n][1]
        BY <1>1, <4>1
      <4>3. QED
        BY <2>2, <4>1, <4>2
    <3>3. QED
      BY <3>1, <3>2
  <2>5. ranges[n] \in Pairs /\ ranges[n][1] < ranges[n][2] /\ Fit(ranges[n], o.target, 0)
    BY <1>1
  <2>6. Tiles(Joins(J[n - 1], ranges[n], o), a, ranges[n][2], o.target, 0)
    BY <2>3, <2>4, <2>5, JoinsTiles
  <2>7. To(n) = ranges[n][2] /\ n \in 0 .. N
    BY <1>1
  <2> HIDE DEF To
  <2>8. QED
    BY <2>1, <2>6, <2>7
<1>5. 0 .. N \subseteq S
  <2> HIDE DEF S
  <2>1. QED
    BY <1>1, <1>3, <1>4, NatUpTo
<1>6. To(N) = b
  BY <1>1
<1>7. Tiles(J[N], a, b, o.target, 0)
  <2>1. N \in S
    BY <1>1, <1>5
  <2> HIDE DEF To
  <2>2. QED
    BY <1>6, <2>1
<1>8. QED
  BY <1>7 DEF MergedBack, J, N

\* Forwards.
LEMMA MergedForwardTiles ==
    ASSUME WellFormed, NEW o, o.target \in Nat, o.min \in Nat, NEW ranges, NEW a, NEW b,
           Tiles(ranges, a, b, o.target, 0)
    PROVE  Tiles(MergedForward(ranges, o), a, b, o.target, o.min)
<1> DEFINE t == o.target
           m == o.min
           n == Len(ranges)
<1>1. Tiles(ranges, a, b, t, m)
  BY TilesLoosen
<1>2. CASE ~(n > 1 /\ Size(ranges[1]) < o.min)
  BY <1>1, <1>2 DEF MergedForward
<1>3. CASE n > 1 /\ Size(ranges[1]) < o.min
  <2> DEFINE rest == SubSeq(ranges, 3, Len(ranges))
  <2>1. /\ ranges \in Seq(Pairs) /\ n \in Nat
        /\ ranges[1][1] = a /\ ranges[n][2] = b
        /\ ranges[1][1] \in Ends /\ ranges[1][2] \in Ends /\ ranges[2][1] \in Ends /\ ranges[2][2] \in Ends
        /\ ranges[1][1] < ranges[1][2] /\ ranges[2][1] < ranges[2][2]
        /\ ranges[1][2] = ranges[2][1] /\ Fit(ranges[2], t, 0)
    <3>1. n \in Nat
      BY TilesAre
    <3>2. 1 \in 1 .. n /\ 2 \in 1 .. n /\ 2 = 1 + 1 /\ n > 0
      BY <1>3, <3>1
    <3>3. QED
      BY <3>1, <3>2, TilesAre
  <2>2. PICK p, q, z : p = ranges[1] /\ q = ranges[2] /\ z = q[2]
    OBVIOUS
  <2>3. /\ a \in Ends /\ z \in Ends /\ a \in Nat /\ z \in Nat /\ p[2] \in Nat
        /\ a \in Places /\ z \in Places
        /\ p[1] = a /\ q[1] = p[2] /\ q[2] = z /\ a < p[2] /\ p[2] < z /\ Size(p) < m /\ Fit(q, t, 0)
    BY <1>3, <2>1, <2>2, EndsAre
  <2>4. a < z /\ Size(p) = p[2] - a /\ Size(q) = z - p[2]
    BY <2>3 DEF Size
  <2>5. Fit(<<a, z>>, t, m)
    <3> DEFINE r == <<a, z>>
    <3>1. r[1] = a /\ r[2] = z
      OBVIOUS
    <3> HIDE DEF r
    <3>2. CASE Long(q, t)
      <4>1. PICK x \in Places, y \in Places :
                p[2] <= x /\ x <= y /\ y <= z /\ y - x > t /\ Unbroken(x, y)
        BY <2>3, <3>2 DEF Long
      <4>2. a <= x
        BY <2>3, <4>1, PlacesAre
      <4>3. Long(r, t)
        BY <3>1, <4>1, <4>2 DEF Long
      <4>4. QED
        BY <4>3 DEF Fit, r
    <3>3. CASE Size(q) <= 2 * t + 0
      <4>1. Size(r) = z - a
        BY <3>1 DEF Size
      <4>2. Size(r) <= 2 * t + m
        BY <2>3, <2>4, <3>3, <4>1
      <4>3. QED
        BY <4>2 DEF Fit, r
    <3>4. QED
      BY <2>3, <3>2, <3>3 DEF Fit
  <2>6. Tiles(<<<<a, z>>>>, a, z, t, m)
    <3>1. Tiles(<<>>, a, a, t, m)
      BY TilesNone
    <3>2. Tiles(Append(<<>>, <<a, z>>), a, z, t, m)
      BY <2>3, <2>4, <2>5, <3>1, TilesAppend
    <3>3. Append(<<>>, <<a, z>>) = <<<<a, z>>>>
      OBVIOUS
    <3>4. QED
      BY <3>2, <3>3
  <2>7. Tiles(rest, z, b, t, m)
    <3>1. CASE n = 2
      <4>1. rest = <<>>
        <5>1. Len(ranges) < 3 /\ Len(ranges) \in Int
          BY <3>1
        <5>2. QED
          BY <5>1, SubSeqEmpty
      <4>2. z = b
        BY <2>1, <2>2, <3>1
      <4>3. QED
        BY <4>1, <4>2, TilesNone
    <3>2. CASE n # 2
      <4>1. 3 \in 1 .. n /\ n \in 1 .. n /\ 3 <= n /\ 2 \in 1 .. n /\ 3 = 2 + 1
        <5> HIDE DEF n
        <5>1. QED
          BY <1>3, <2>1, <3>2
      <4>2. Tiles(SubSeq(ranges, 3, n), ranges[3][1], ranges[n][2], t, m)
        BY <1>1, <4>1, TilesSome
      <4>3. ranges[2][2] = ranges[3][1]
        BY <1>1, <4>1, TilesAre
      <4>4. QED
        BY <2>1, <2>2, <4>2, <4>3
    <3>3. QED
      BY <3>1, <3>2
  <2>8. Tiles(<<<<a, z>>>> \o rest, a, b, t, m)
    <3> HIDE DEF rest
    <3>1. QED
      BY <2>6, <2>7, TilesConcat
  <2>9. MergedForward(ranges, o) = <<<<a, z>>>> \o rest
    BY <1>3, <2>1, <2>2 DEF MergedForward
  <2>10. QED
    BY <2>8, <2>9
<1>4. QED
  BY <1>2, <1>3

LEMMA MergedTiles ==
    ASSUME WellFormed, NEW o, o.target \in Nat, o.min \in Nat
    PROVE  Tiles(Merged(Pack(o.target), o), 0, Len(text), o.target, o.min)
<1>1. Tiles(Pack(o.target), 0, Len(text), o.target, 0)
  BY PackTiles
<1>2. Tiles(MergedBack(Pack(o.target), o), 0, Len(text), o.target, 0)
  BY <1>1, MergedBackTiles
<1>3. QED
  BY <1>2, MergedForwardTiles DEF Merged

-----------------------------------------------------------------------------
(* Overlap.                                                                *)

LEMMA OverlapStartIs ==
    ASSUME WellFormed, NEW o, o.overlap \in Nat, NEW ranges, NEW i,
           ranges[i][1] \in Ends, ranges[i - 1][1] \in Ends, ranges[i - 1][1] <= ranges[i][1],
           NEW s, s = OverlapStart(ranges, i, o)
    PROVE  /\ s \in Nat /\ s <= ranges[i][1] /\ ranges[i - 1][1] <= s
           /\ ranges[i][1] - s <= o.overlap /\ Safe(s)
<1>1. PICK x, p : x = ranges[i][1] /\ p = ranges[i - 1][1]
  OBVIOUS
<1>2. x \in Ends /\ x \in Nat /\ p \in Nat /\ p <= x /\ Safe(x)
  BY <1>1, EndsAre
<1>3. PICK w : w = IF x < o.overlap THEN 0 ELSE x - o.overlap
  OBVIOUS
<1>4. w \in Nat /\ w <= x /\ x - w <= o.overlap
  BY <1>2, <1>3
<1> DEFINE S == {k \in 0 .. x : k >= w /\ k >= p /\ (CharBoundary(k) \/ k = x)}
<1>5. S \in SUBSET Nat /\ x \in S
  BY <1>2, <1>4
<1>6. s = Min(S)
  BY <1>1, <1>3 DEF OverlapStart
<1>7. s \in S
  <2> HIDE DEF S
  <2>1. QED
    BY <1>5, <1>6, MinOf
<1>8. s \in Nat /\ s <= x /\ s >= w /\ s >= p
  BY <1>2, <1>7
<1>9. Safe(s)
  <2>1. CharBoundary(s) \/ s = x
    BY <1>7
  <2>2. QED
    BY <1>2, <2>1 DEF Safe
<1>10. QED
  BY <1>1, <1>2, <1>4, <1>8, <1>9

ChunkOption(o) == o.target \in Nat /\ o.min \in Nat /\ o.overlap \in Nat

\* The chunks beside the ranges that they extend.
LEMMA ChunksAre ==
    ASSUME WellFormed, NEW o, ChunkOption(o), NEW m, NEW r,
           m = Merged(Pack(o.target), o), r = ChunkRanges(o)
    PROVE  /\ Len(m) \in Nat /\ Len(r) = Len(m) /\ DOMAIN r = 1 .. Len(m)
           /\ Len(m) = 0 => Len(text) = 0
           /\ Len(m) > 0 => m[1][1] = 0 /\ m[Len(m)][2] = Len(text) /\ r[1] = m[1]
           /\ \A i \in 1 .. Len(m) :
                 /\ m[i][1] \in Ends /\ m[i][2] \in Ends /\ m[i][1] < m[i][2]
                 /\ Fit(m[i], o.target, o.min)
                 /\ r[i][2] = m[i][2] /\ r[i][1] \in Nat /\ r[i][1] <= m[i][1] /\ Safe(r[i][1])
                 /\ m[i][1] - r[i][1] <= o.overlap
           /\ \A i \in 2 .. Len(m) :
                 m[i - 1][2] = m[i][1] /\ m[i - 1][1] <= r[i][1]
<1> DEFINE n == Len(m)
<1>1. Tiles(m, 0, Len(text), o.target, o.min)
  BY MergedTiles DEF ChunkOption
<1>2. /\ m \in Seq(Pairs) /\ n \in Nat
      /\ n = 0 => 0 = Len(text)
      /\ n > 0 => m[1][1] = 0 /\ m[n][2] = Len(text)
      /\ \A i \in 1 .. n :
            /\ m[i] \in Pairs /\ m[i][1] \in Ends /\ m[i][2] \in Ends
            /\ m[i][1] < m[i][2] /\ Fit(m[i], o.target, o.min)
      /\ \A i \in 1 .. n, j \in 1 .. n : j = i + 1 => m[i][2] = m[j][1]
  BY <1>1, TilesAre
<1>3. DOMAIN m = 1 .. n
  BY <1>2
<1> HIDE DEF n
<1>4. r = [i \in 1 .. n |-> IF i = 1 THEN m[i] ELSE <<OverlapStart(m, i, o), m[i][2]>>]
  BY <1>3 DEF ChunkRanges, Overlapped
<1>5. DOMAIN r = 1 .. n /\ Len(r) = n
  <2>1. DOMAIN r = 1 .. n
    BY <1>4
  <2>2. QED
    BY <1>2, <1>4
<1>6. ASSUME NEW i \in 2 .. n
      PROVE  /\ m[i - 1][2] = m[i][1] /\ m[i - 1][1] <= m[i][1]
             /\ m[i - 1][1] \in Ends /\ m[i][1] \in Ends
  <2>1. PICK j \in 1 .. n : j = i - 1
    BY <1>2
  <2>2. i \in 1 .. n /\ i = j + 1
    BY <1>2, <2>1
  <2>3. /\ m[j][2] = m[i][1] /\ m[j][1] < m[j][2]
        /\ m[j][1] \in Ends /\ m[i][1] \in Ends /\ m[j][2] \in Ends
    BY <1>2, <2>1, <2>2
  <2>4. m[j][1] <= m[i][1]
    BY <2>3, EndsAre
  <2>5. QED
    BY <2>1, <2>3, <2>4
<1>7. ASSUME NEW i \in 2 .. n
      PROVE  /\ r[i][2] = m[i][2] /\ r[i][1] \in Nat /\ r[i][1] <= m[i][1] /\ Safe(r[i][1])
             /\ m[i][1] - r[i][1] <= o.overlap /\ m[i - 1][1] <= r[i][1]
  <2>1. PICK s : s = OverlapStart(m, i, o)
    OBVIOUS
  <2>2. i # 1 /\ i \in 1 .. n
    BY <1>2
  <2>3. r[i] = <<s, m[i][2]>>
    BY <1>4, <2>1, <2>2
  <2>4. /\ s \in Nat /\ s <= m[i][1] /\ m[i - 1][1] <= s
        /\ m[i][1] - s <= o.overlap /\ Safe(s)
    BY <1>6, <2>1, OverlapStartIs DEF ChunkOption
  <2>5. QED
    BY <2>3, <2>4
<1>8. ASSUME n > 0
      PROVE  /\ r[1] = m[1] /\ r[1][2] = m[1][2] /\ r[1][1] \in Nat /\ r[1][1] <= m[1][1]
             /\ Safe(r[1][1]) /\ m[1][1] - r[1][1] <= o.overlap
  <2>1. 1 \in 1 .. n /\ r[1] = m[1]
    BY <1>2, <1>4, <1>8
  <2>2. m[1][1] \in Ends
    BY <1>2, <2>1
  <2>3. m[1][1] \in Nat /\ Safe(m[1][1])
    BY <2>2, EndsAre
  <2>4. m[1][1] - m[1][1] <= o.overlap /\ m[1][1] <= m[1][1]
    BY <2>3 DEF ChunkOption
  <2>5. QED
    BY <2>1, <2>3, <2>4
<1>9. ASSUME NEW i \in 1 .. n
      PROVE  /\ r[i][2] = m[i][2] /\ r[i][1] \in Nat /\ r[i][1] <= m[i][1] /\ Safe(r[i][1])
             /\ m[i][1] - r[i][1] <= o.overlap
  <2>1. (i = 1 /\ n > 0) \/ i \in 2 .. n
    BY <1>2
  <2>2. QED
    BY <1>7, <1>8, <2>1
<1>10. QED
  BY <1>2, <1>5, <1>6, <1>7, <1>8, <1>9 DEF n

LEMMA TextCovered ==
    ASSUME WellFormed, ChunkOption(options)
    PROVE  ChunksCoverTheText
<1>1. PICK m, r : m = Merged(Pack(options.target), options) /\ r = ChunkRanges(options)
  OBVIOUS
<1>2. PICK n, l : n = Len(m) /\ l = Len(text)
  OBVIOUS
<1>3. PICK t, k, v : t = options.target /\ k = options.min /\ v = options.overlap
  OBVIOUS
<1>4. t \in Nat /\ k \in Nat /\ v \in Nat
  BY <1>3 DEF ChunkOption
<1>5. /\ n \in Nat /\ Len(r) = n /\ DOMAIN r = 1 .. n
      /\ n = 0 => l = 0
      /\ n > 0 => m[1][1] = 0 /\ m[n][2] = l /\ r[1] = m[1]
      /\ \A i \in 1 .. n :
            /\ m[i][1] \in Ends /\ m[i][2] \in Ends /\ m[i][1] < m[i][2]
            /\ Fit(m[i], t, k)
            /\ r[i][2] = m[i][2] /\ r[i][1] \in Nat /\ r[i][1] <= m[i][1] /\ Safe(r[i][1])
            /\ m[i][1] - r[i][1] <= v
      /\ \A i \in 2 .. n : m[i - 1][2] = m[i][1] /\ m[i - 1][1] <= r[i][1]
  BY <1>1, <1>2, <1>3, ChunksAre
<1>6. \A i \in 1 .. n : m[i][1] \in Nat /\ m[i][2] \in Nat /\ Safe(m[i][2])
  BY <1>5, EndsAre
<1>7. ASSUME "blank rest" \notin ToSet(text) PROVE ChunksCanBeSliced
  <2>1. \A i \in 1 .. n : CharBoundary(r[i][1]) /\ CharBoundary(r[i][2])
    BY <1>5, <1>6, <1>7 DEF Safe
  <2>2. QED
    BY <1>1, <1>5, <2>1 DEF ChunksCanBeSliced
<1>8. ASSUME text # <<>> PROVE r # <<>> /\ r[1][1] = 0 /\ Last(r)[2] = Len(text)
  <2>1. l # 0
    <3>1. text \in Seq(Byte)
      BY DEF WellFormed
    <3>2. QED
      BY <1>2, <1>8, <3>1, EmptySeq
  <2>2. n > 0 /\ n \in 1 .. n
    BY <1>5, <2>1
  <2>3. r # <<>>
    <3>1. DOMAIN r # {}
      BY <1>5, <2>2
    <3>2. QED
      BY <3>1
  <2>4. r[1][1] = 0
    BY <1>5, <2>2
  <2>5. r[n][2] = l
    BY <1>5, <2>2
  <2>6. QED
    BY <1>2, <1>5, <2>3, <2>4, <2>5 DEF Last
<1>9. ASSUME NEW i \in 2 .. n
      PROVE  /\ r[i - 1][1] <= r[i][1] /\ r[i][1] <= r[i - 1][2] /\ r[i - 1][2] < r[i][2]
             /\ r[i - 1][2] - r[i][1] <= v
  <2>1. PICK j \in 1 .. n : j = i - 1
    BY <1>5
  <2>2. i \in 1 .. n
    BY <1>5
  <2>3. /\ r[j][1] \in Nat /\ r[j][1] <= m[j][1] /\ m[j][1] \in Nat /\ m[j][2] = m[i][1]
        /\ m[j][1] <= r[i][1] /\ r[i][1] \in Nat /\ r[i][1] <= m[i][1] /\ m[i][1] \in Nat
        /\ r[j][2] = m[j][2] /\ r[i][2] = m[i][2] /\ m[i][1] < m[i][2] /\ m[i][1] - r[i][1] <= v
    BY <1>5, <1>6, <2>1, <2>2
  <2>4. r[j][1] <= r[i][1]
    BY <2>3
  <2>5. r[i][1] <= r[j][2] /\ r[j][2] < r[i][2] /\ r[j][2] - r[i][1] <= v
    BY <2>3
  <2>6. QED
    BY <2>1, <2>4, <2>5
<1>10. ASSUME NEW i \in 1 .. n, Size(r[i]) > 2 * t + k + v
       PROVE  \E a, b \in r[i][1] .. r[i][2] : b - a > t /\ Unbroken(a, b)
  <2>1. PICK p, q : p = m[i] /\ q = r[i]
    OBVIOUS
  <2>2. /\ p[1] \in Nat /\ p[2] \in Nat /\ Fit(p, t, k)
        /\ q[2] = p[2] /\ q[1] \in Nat /\ q[1] <= p[1] /\ p[1] - q[1] <= v
    BY <1>5, <1>6, <2>1
  <2>3. q[2] - q[1] > 2 * t + k + v
    BY <1>10, <2>1 DEF Size
  <2>4. Size(p) = p[2] - p[1] /\ Size(p) > 2 * t + k
    <3>1. p[2] - p[1] > 2 * t + k
      BY <1>4, <2>2, <2>3
    <3>2. QED
      BY <3>1 DEF Size
  <2>5. Long(p, t)
    BY <1>4, <2>2, <2>4 DEF Fit
  <2>6. PICK a \in Places, b \in Places :
            p[1] <= a /\ a <= b /\ b <= p[2] /\ b - a > t /\ Unbroken(a, b)
    BY <2>5 DEF Long
  <2>7. a \in q[1] .. q[2] /\ b \in q[1] .. q[2]
    BY <2>2, <2>6, PlacesAre
  <2>8. QED
    BY <2>1, <2>6, <2>7
<1>11. QED
  <2>1. \A i \in 2 .. Len(r) :
           /\ r[i - 1][1] <= r[i][1] /\ r[i][1] <= r[i - 1][2] /\ r[i - 1][2] < r[i][2]
           /\ r[i - 1][2] - r[i][1] <= options.overlap
    BY <1>3, <1>5, <1>9
  <2>2. \A i \in DOMAIN r :
           Size(r[i]) > 2 * options.target + options.min + options.overlap =>
               \E a, b \in r[i][1] .. r[i][2] : b - a > options.target /\ Unbroken(a, b)
    BY <1>3, <1>5, <1>10
  <2>3. QED
    BY <1>1, <1>7, <1>8, <2>1, <2>2 DEF ChunksCoverTheText

-----------------------------------------------------------------------------
(* Sections.                                                               *)

\* The section of a heading.
SectionLast(h) == Min({Len(document)} \cup {g - 1 : g \in {k \in Headings : k > h}})
SectionOf(h) == [first |-> h, last |-> SectionLast(h), scope |-> Max({0} \cup Enclosing(h))]

LEMMA HeadingsAre ==
    ASSUME document \in Seq(Line)
    PROVE  /\ Len(document) \in Nat /\ Headings \in SUBSET (1 .. Len(document)) /\ Headings \in SUBSET Nat
           /\ \A h \in Headings : IsHeading(document[h]) /\ h >= 1 /\ h <= Len(document)
<1>1. Len(document) \in Nat /\ DOMAIN document = 1 .. Len(document)
  OBVIOUS
<1>2. \A h \in Headings : h \in 1 .. Len(document) /\ IsHeading(document[h])
  BY <1>1 DEF Headings
<1>3. QED
  BY <1>1, <1>2

LEMMA SectionLastIs ==
    ASSUME document \in Seq(Line), NEW h \in Headings
    PROVE  /\ SectionLast(h) \in Nat /\ h <= SectionLast(h) /\ SectionLast(h) <= Len(document)
           /\ \A g \in Headings : g > h => SectionLast(h) < g
           /\ \A i \in Nat : i <= Len(document) /\ (\A g \in Headings : g > h => i < g) => i <= SectionLast(h)
<1> DEFINE S == {Len(document)} \cup {g - 1 : g \in {k \in Headings : k > h}}
<1>1. /\ Len(document) \in Nat /\ h \in Nat /\ h <= Len(document)
      /\ \A g \in Headings : g \in Nat /\ g >= 1
  BY HeadingsAre
<1>2. S \in SUBSET Nat /\ Len(document) \in S
  BY <1>1
<1>3. \A g \in Headings : g > h => g - 1 \in S
  OBVIOUS
<1>4. \A n \in S : n = Len(document) \/ \E g \in Headings : g > h /\ n = g - 1
  OBVIOUS
<1>5. PICK l : l = SectionLast(h)
  OBVIOUS
<1>6. l \in S /\ \A n \in S : l <= n
  <2>1. l = Min(S)
    BY <1>5 DEF SectionLast
  <2> HIDE DEF S
  <2>2. QED
    BY <1>2, <2>1, MinOf
<1> HIDE DEF S
<1>7. l \in Nat /\ l <= Len(document)
  BY <1>2, <1>6
<1>8. \A g \in Headings : g > h => l < g
  BY <1>1, <1>3, <1>6, <1>7
<1>9. ASSUME NEW i \in Nat, i <= Len(document), \A g \in Headings : g > h => i < g
      PROVE  i <= l
  BY <1>1, <1>4, <1>6, <1>9
<1>10. h <= l
  BY <1>1, <1>9
<1>11. QED
  BY <1>5, <1>7, <1>8, <1>9, <1>10

LEMMA PreambleIs ==
    ASSUME document \in Seq(Line)
    PROVE  \E l \in Nat :
              /\ l <= Len(document)
              /\ Preamble = IF \A i \in 1 .. l : Blank(i) THEN {}
                            ELSE {[first |-> 1, last |-> l, scope |-> 0]}
              /\ \A h \in Headings : l < h
              /\ \A i \in 1 .. Len(document) : (\A h \in Headings : i < h) => i <= l
<1>1. PICK l : l = IF Headings = {} THEN Len(document) ELSE Min(Headings) - 1
  OBVIOUS
<1>2. Preamble = IF \A i \in 1 .. l : Blank(i) THEN {} ELSE {[first |-> 1, last |-> l, scope |-> 0]}
  BY <1>1 DEF Preamble
<1>3. /\ Len(document) \in Nat /\ Headings \in SUBSET Nat
      /\ \A h \in Headings : h >= 1 /\ h <= Len(document)
  BY HeadingsAre
<1>4. CASE Headings = {}
  <2>1. l = Len(document)
    BY <1>1, <1>4
  <2>2. l \in Nat /\ l <= Len(document) /\ \A h \in Headings : l < h
    BY <1>3, <1>4, <2>1
  <2>3. \A i \in 1 .. Len(document) : i <= l
    BY <2>1
  <2>4. QED
    BY <1>2, <2>2, <2>3
<1>5. CASE Headings # {}
  <2>1. PICK m : m = Min(Headings)
    OBVIOUS
  <2>2. m \in Headings /\ \A h \in Headings : m <= h
    BY <1>3, <1>5, <2>1, MinOf
  <2>3. l = m - 1
    BY <1>1, <1>5, <2>1
  <2>4. l \in Nat /\ l <= Len(document) /\ \A h \in Headings : l < h
    BY <1>3, <2>2, <2>3
  <2>5. \A i \in 1 .. Len(document) : i < m => i <= l
    BY <1>3, <2>2, <2>3
  <2>6. QED
    BY <1>2, <2>2, <2>4, <2>5
<1>6. QED
  BY <1>4, <1>5

LEMMA SectionsAre == Sections = Preamble \cup {SectionOf(h) : h \in Headings}
BY DEF Sections, SectionOf, SectionLast

\* A line is in the one section of the last heading that does not come after
\* it, or in the preamble, or blank.
LEMMA OneSection ==
    ASSUME document \in Seq(Line), NEW i \in 1 .. Len(document)
    PROVE  \/ Blank(i) /\ \A s \in Sections : i \notin s.first .. s.last
           \/ \E s \in Sections :
                 /\ i \in s.first .. s.last /\ s.first \in Headings \cup {1}
                 /\ \A q \in Sections : i \in q.first .. q.last => q = s
<1>1. /\ Len(document) \in Nat /\ Headings \in SUBSET Nat /\ i \in Nat /\ i >= 1 /\ i <= Len(document)
      /\ \A h \in Headings : h >= 1 /\ h <= Len(document)
  BY HeadingsAre
<1>2. PICK l \in Nat :
              /\ l <= Len(document)
              /\ Preamble = IF \A k \in 1 .. l : Blank(k) THEN {}
                            ELSE {[first |-> 1, last |-> l, scope |-> 0]}
              /\ \A h \in Headings : l < h
              /\ \A k \in 1 .. Len(document) : (\A h \in Headings : k < h) => k <= l
  BY PreambleIs
<1>3. \A h \in Headings : SectionOf(h).first = h /\ SectionOf(h).last = SectionLast(h)
  BY DEF SectionOf
<1>4. \A q \in Preamble : q = [first |-> 1, last |-> l, scope |-> 0] /\ q.first = 1 /\ q.last = l
  BY <1>2
<1> DEFINE U == {h \in Headings : h <= i}
<1>5. CASE U = {}
  <2>1. \A h \in Headings : i < h
    BY <1>1, <1>5
  <2>2. i \in 1 .. l
    BY <1>1, <1>2, <2>1
  <2>3. \A q \in Sections : i \in q.first .. q.last => q \in Preamble
    BY <1>1, <1>3, <2>1, SectionsAre
  <2>4. CASE \A k \in 1 .. l : Blank(k)
    <3>1. Preamble = {}
      BY <1>2, <2>4
    <3>2. QED
      BY <2>2, <2>3, <2>4, <3>1
  <2>5. CASE ~(\A k \in 1 .. l : Blank(k))
    <3>1. PICK s : s = [first |-> 1, last |-> l, scope |-> 0]
      OBVIOUS
    <3>2. s \in Preamble /\ s.first = 1 /\ s.last = l
      BY <1>2, <2>5, <3>1
    <3>3. s \in Sections
      BY <3>2, SectionsAre
    <3>4. \A q \in Sections : i \in q.first .. q.last => q = s
      BY <1>4, <2>3, <3>1
    <3>5. QED
      BY <2>2, <3>2, <3>3, <3>4
  <2>6. QED
    BY <2>4, <2>5
<1>6. CASE U # {}
  <2>1. PICK h : h = Max(U)
    OBVIOUS
  <2>2. h \in U /\ \A g \in U : g <= h
    <3>1. U \in SUBSET Nat /\ \A g \in U : g <= i
      BY <1>1
    <3> HIDE DEF U
    <3>2. QED
      BY <1>1, <1>6, <2>1, <3>1, LargestOf
  <2>3. h \in Headings /\ h \in Nat /\ h <= i /\ \A g \in Headings : g > h => i < g
    BY <1>1, <2>2
  <2> HIDE DEF U
  <2>4. SectionLast(h) \in Nat /\ i <= SectionLast(h)
    BY <1>1, <2>3, SectionLastIs
  <2>5. PICK s : s = SectionOf(h)
    OBVIOUS
  <2>6. s \in Sections /\ s.first = h /\ s.last = SectionLast(h)
    BY <1>3, <2>3, <2>5, SectionsAre
  <2>7. i \in s.first .. s.last
    BY <1>1, <2>3, <2>4, <2>6
  <2>8. ASSUME NEW q \in Sections, i \in q.first .. q.last PROVE q = s
    <3>1. CASE q \in Preamble
      <4>1. i <= l
        BY <1>4, <2>8, <3>1
      <4>2. l < h
        BY <1>2, <2>3
      <4>3. QED
        BY <1>1, <2>3, <4>1, <4>2
    <3>2. CASE \E g \in Headings : q = SectionOf(g)
      <4>1. PICK g \in Headings : q = SectionOf(g)
        BY <3>2
      <4>2. g \in Nat /\ g <= i /\ i <= SectionLast(g) /\ SectionLast(g) \in Nat
        BY <1>1, <1>3, <2>8, <4>1, SectionLastIs
      <4>3. ~(g > h)
        BY <1>1, <2>3, <4>2
      <4>4. ~(h > g)
        <5>1. ASSUME h > g PROVE FALSE
          <6>1. SectionLast(g) < h
            BY <2>3, <5>1, SectionLastIs
          <6>2. QED
            BY <1>1, <2>3, <4>2, <6>1
        <5>2. QED
          BY <5>1
      <4>5. g = h
        BY <2>3, <4>2, <4>3, <4>4
      <4>6. QED
        BY <2>5, <4>1, <4>5
    <3>3. QED
      BY <3>1, <3>2, SectionsAre
  <2>9. QED
    BY <2>3, <2>6, <2>7, <2>8
<1>7. QED
  BY <1>5, <1>6

LEMMA DepthIs ==
    ASSUME document \in Seq(Line)
    PROVE  \A h \in Headings : Depth(document[h]) \in Nat
<1>1. \A h \in Headings : document[h] \in {"h1", "h2", "h3"}
  BY HeadingsAre DEF IsHeading
<1>2. \A d \in {"h1", "h2", "h3"} : Depth(d) \in Nat
  BY DEF Depth
<1>3. QED
  BY <1>1, <1>2

\* The scope of a section is the nearest heading that it is nested in.
LEMMA ScopeIs ==
    ASSUME document \in Seq(Line), NEW s \in Sections, s.scope # 0
    PROVE  /\ Depth(document[s.scope]) < Depth(document[s.first])
           /\ \A i \in Headings : i > s.scope /\ i < s.first =>
                 Depth(document[i]) >= Depth(document[s.first])
<1>1. PICK h \in Headings : s = SectionOf(h)
  <2>1. \A q \in Preamble : q.scope = 0
    BY DEF Preamble
  <2>2. s \notin Preamble
    BY <2>1
  <2>3. QED
    BY <2>2, SectionsAre
<1>2. s.first = h /\ s.scope = Max({0} \cup Enclosing(h))
  BY <1>1 DEF SectionOf
<1> DEFINE S == {0} \cup Enclosing(h)
<1>3. /\ Headings \in SUBSET Nat /\ h \in Nat
      /\ \A g \in Enclosing(h) : g \in Headings /\ g < h /\ Depth(document[g]) < Depth(document[h])
      /\ \A g \in Headings : g < h /\ Depth(document[g]) < Depth(document[h]) => g \in Enclosing(h)
  BY HeadingsAre DEF Enclosing
<1>4. S \in SUBSET Nat /\ S # {} /\ \A n \in S : n <= h
  <2>1. ASSUME NEW n \in Enclosing(h) PROVE n \in Nat /\ n <= h
    <3>1. n \in Headings /\ n < h
      BY <1>3
    <3>2. QED
      BY <1>3, <3>1
  <2>2. 0 \in Nat /\ 0 <= h
    BY <1>3
  <2>3. QED
    BY <2>1, <2>2
<1>5. PICK c : c = s.scope
  OBVIOUS
<1>6. c \in S /\ \A n \in S : n <= c
  <2>1. c = Max(S)
    BY <1>2, <1>5
  <2> HIDE DEF S
  <2>2. QED
    BY <1>3, <1>4, <2>1, LargestOf
<1>7. c \in Enclosing(h) /\ c \in Nat /\ \A n \in Enclosing(h) : n <= c
  BY <1>3, <1>5, <1>6
<1>8. ASSUME NEW i \in Headings, i > c, i < h PROVE Depth(document[i]) >= Depth(document[h])
  <2>1. i \notin Enclosing(h)
    BY <1>3, <1>7, <1>8
  <2>2. ~(Depth(document[i]) < Depth(document[h]))
    BY <1>3, <1>8, <2>1
  <2>3. Depth(document[i]) \in Nat /\ Depth(document[h]) \in Nat
    BY DepthIs
  <2>4. QED
    BY <2>2, <2>3
<1>9. QED
  BY <1>2, <1>3, <1>5, <1>7, <1>8

LEMMA DocumentCovered ==
    ASSUME document \in Seq(Line)
    PROVE  SectionsCoverTheDocument
<1>1. ASSUME NEW i \in 1 .. Len(document)
      PROVE  \/ Blank(i) /\ Cardinality({s \in Passages : i \in s.first .. s.last}) <= 1
             \/ Cardinality({s \in Passages : i \in s.first .. s.last}) = 1
             \/ \E s \in Sections : s.first = i /\ Container(s) /\ (i \in Headings \/ i = 1)
  <2> DEFINE Q == {s \in Passages : i \in s.first .. s.last}
  <2>1. \A s : s \in Q <=> s \in Sections /\ ~Container(s) /\ i \in s.first .. s.last
    BY DEF Passages
  <2>2. Cardinality({}) = 0 /\ 0 <= 1
    BY FS_EmptySet
  <2> HIDE DEF Q
  <2>3. CASE Blank(i) /\ \A s \in Sections : i \notin s.first .. s.last
    <3>1. Q = {}
      BY <2>1, <2>3
    <3>2. Cardinality(Q) <= 1
      BY <2>2, <3>1
    <3>3. QED
      BY <2>3, <3>2 DEF Q
  <2>4. ASSUME NEW s \in Sections, i \in s.first .. s.last, s.first \in Headings \cup {1},
               \A q \in Sections : i \in q.first .. q.last => q = s
        PROVE  \/ Blank(i) /\ Cardinality(Q) <= 1
               \/ Cardinality(Q) = 1
               \/ \E q \in Sections : q.first = i /\ Container(q) /\ (i \in Headings \/ i = 1)
    <3>1. CASE ~Container(s)
      <4>1. Q = {s}
        BY <2>1, <2>4, <3>1
      <4>2. Cardinality(Q) = 1
        BY <4>1, FS_Singleton
      <4>3. QED
        BY <4>2
    <3>2. CASE Container(s) /\ s.first = i
      BY <2>4, <3>2
    <3>3. CASE Container(s) /\ s.first # i
      <4>1. Q = {}
        BY <2>1, <2>4, <3>3
      <4>2. Cardinality(Q) <= 1
        BY <2>2, <4>1
      <4>3. s.first \in Nat
        <5>1. PICK f : f = s.first
          OBVIOUS
        <5>2. f \in Headings \/ f = 1
          BY <2>4, <5>1
        <5>3. \A h \in Headings : h \in Nat
          BY HeadingsAre
        <5>4. f \in Nat
          BY <5>2, <5>3
        <5>5. QED
          BY <5>1, <5>4
      <4>4. i \in s.first + 1 .. s.last
        BY <2>4, <3>3, <4>3
      <4>5. Blank(i)
        BY <3>3, <4>4 DEF Container
      <4>6. QED
        BY <4>2, <4>5
    <3>4. QED
      BY <3>1, <3>2, <3>3
  <2>5. QED
    BY <2>3, <2>4, OneSection DEF Q
<1>2. \A s \in Passages : s \in Sections
  BY DEF Passages
<1>3. DOMAIN document = 1 .. Len(document)
  OBVIOUS
<1>4. QED
  BY <1>1, <1>2, <1>3, ScopeIs DEF SectionsCoverTheDocument

-----------------------------------------------------------------------------
(* What is written.                                                        *)

ProseInv ==
    /\ WellFormed
    /\ options \in Options
    /\ document \in Seq(Line)

\* A text goes on with a whole character.
LEMMA OneMoreCharacter ==
    ASSUME WellFormed, NEW c \in Character, text' = text \o c
    PROVE  WellFormed'
<1>1. /\ c \in Seq(Byte) /\ Len(c) \in Nat /\ Len(c) > 0
      /\ c[1] \notin {"rest", "blank rest"}
      /\ \A i \in 2 .. Len(c) : c[1] = "letter" /\ c[i] \in {"rest", "blank rest"}
  <2>1. c \in Seq(Byte) /\ c # <<>>
    BY ProseAssumption
  <2>2. Len(c) \in Nat /\ Len(c) > 0
    BY <2>1, EmptySeq
  <2>3. QED
    BY <2>1, <2>2, ProseAssumption
<1>2. PICK n, k : n = Len(text) /\ k = Len(c)
  OBVIOUS
<1>3. text \in Seq(Byte) /\ n \in Nat /\ k \in Nat /\ k > 0
  <2>1. text \in Seq(Byte)
    BY DEF WellFormed
  <2>2. n \in Nat
    BY <1>2, <2>1
  <2>3. k \in Nat /\ k > 0
    BY <1>1, <1>2
  <2>4. QED
    BY <2>1, <2>2, <2>3
<1> DEFINE u == text \o c
<1>4. /\ u \in Seq(Byte) /\ Len(u) = n + k
      /\ \A i \in 1 .. n : u[i] = text[i]
      /\ \A i \in 1 .. k : u[n + i] = c[i]
  <2>1. u \in Seq(Byte) /\ Len(u) = n + k
    BY <1>1, <1>2, <1>3, ConcatProperties
  <2>2. \A i \in 1 .. Len(text) + Len(c) :
           (text \o c)[i] = IF i <= Len(text) THEN text[i] ELSE c[i - Len(text)]
    BY <1>1, <1>3, ConcatProperties
  <2>3. \A i \in 1 .. n + k : u[i] = IF i <= n THEN text[i] ELSE c[i - n]
    BY <1>2, <2>2
  <2> HIDE DEF u
  <2>4. \A i \in 1 .. n : u[i] = text[i]
    BY <1>3, <2>3
  <2>5. ASSUME NEW i \in 1 .. k PROVE u[n + i] = c[i]
    <3>1. PICK j : j = n + i
      OBVIOUS
    <3>2. j \in 1 .. n + k /\ ~(j <= n) /\ j - n = i
      BY <1>3, <3>1
    <3>3. u[j] = c[j - n]
      BY <2>3, <3>2
    <3>4. QED
      BY <3>1, <3>2, <3>3
  <2>6. QED
    BY <2>1, <2>4, <2>5
<1> HIDE DEF u
<1>5. ASSUME NEW i \in 1 .. Len(u), u[i] \in {"rest", "blank rest"}
      PROVE  i > 1 /\ u[i - 1] \notin {"space", "newline", "period"}
  <2>1. CASE i \in 1 .. n
    <3>1. text[i] \in {"rest", "blank rest"}
      BY <1>4, <1>5, <2>1
    <3>2. i > 1 /\ text[i - 1] \notin {"space", "newline", "period"}
      BY <1>2, <2>1, <3>1 DEF WellFormed
    <3>3. i - 1 \in 1 .. n
      BY <1>3, <2>1, <3>2
    <3>4. QED
      BY <1>4, <3>2, <3>3
  <2>2. CASE i \notin 1 .. n
    <3>1. PICK j \in 1 .. k : i = n + j
      <4>1. i - n \in 1 .. k /\ i = n + (i - n)
        BY <1>3, <1>4, <2>2
      <4>2. QED
        BY <4>1
    <3>2. c[j] \in {"rest", "blank rest"}
      BY <1>4, <1>5, <3>1
    <3>3. j # 1 /\ j \in 2 .. k /\ c[1] = "letter"
      <4>1. j # 1
        BY <1>1, <3>2
      <4>2. j \in 2 .. k
        BY <1>3, <3>1, <4>1
      <4>3. QED
        BY <1>1, <1>2, <4>1, <4>2
    <3>4. PICK g \in 1 .. k : g = j - 1
      BY <1>3, <3>3
    <3>5. i - 1 = n + g /\ i > 1
      BY <1>3, <3>1, <3>3, <3>4
    <3>6. u[i - 1] = c[g]
      BY <1>4, <3>4, <3>5
    <3>7. c[g] \in {"letter", "rest", "blank rest"}
      <4>1. CASE g = 1
        BY <3>3, <4>1
      <4>2. CASE g # 1
        <5>1. g \in 2 .. k
          BY <1>3, <4>2
        <5>2. QED
          BY <1>1, <1>2, <5>1
      <4>3. QED
        BY <4>1, <4>2
    <3>8. QED
      BY <3>5, <3>6, <3>7
  <2>3. QED
    BY <2>1, <2>2
<1>6. text' = u
  BY DEF u
<1>7. QED
  BY <1>4, <1>5, <1>6 DEF WellFormed

LEMMA ProseStep ==
    ASSUME ProseInv, [ProseNext]_proseVars
    PROVE  ProseInv'
<1>1. WellFormed /\ options \in Options /\ document \in Seq(Line)
  BY DEF ProseInv
<1>2. CASE Writes
  <2>1. WellFormed' /\ options' = options /\ document' = document
    BY <1>1, <1>2, OneMoreCharacter DEF Writes
  <2>2. QED
    BY <1>1, <2>1 DEF ProseInv
<1>3. CASE AddsLine
  <2>1. text' = text /\ options' = options
    BY <1>3 DEF AddsLine
  <2>2. PICK l \in Line : document' = Append(document, l)
    BY <1>3 DEF AddsLine
  <2>3. document' \in Seq(Line)
    BY <1>1, <2>2
  <2>4. WellFormed'
    BY <1>1, <2>1 DEF WellFormed
  <2>5. QED
    BY <1>1, <2>1, <2>3, <2>4 DEF ProseInv
<1>4. CASE UNCHANGED proseVars
  BY <1>1, <1>4 DEF proseVars, ProseInv, WellFormed
<1>5. QED
  BY <1>2, <1>3, <1>4 DEF ProseNext

LEMMA ProseFirst ==
    ASSUME ProseInit
    PROVE  ProseInv
<1>1. text = <<>> /\ options \in Options /\ document = <<>>
  BY DEF ProseInit
<1>2. text \in Seq(Byte) /\ Len(text) = 0 /\ document \in Seq(Line)
  BY <1>1
<1>3. WellFormed
  BY <1>2 DEF WellFormed
<1>4. QED
  BY <1>1, <1>2, <1>3 DEF ProseInv

LEMMA ProseCovered ==
    ASSUME ProseInv
    PROVE  NothingIsUnindexed
<1>1. WellFormed /\ options \in Options /\ document \in Seq(Line)
  BY DEF ProseInv
<1>2. ChunkOption(options)
  <2>1. options.target \in Nat \ {0} /\ options.min \in Nat /\ options.overlap \in 0 .. (options.target \div 2)
    BY <1>1, ProseAssumption
  <2>2. QED
    BY <2>1 DEF ChunkOption
<1>3. QED
  BY <1>1, <1>2, TextCovered, DocumentCovered DEF NothingIsUnindexed

\* No byte of a text and no line of a document is unindexed, for texts and
\* documents of any length, and any options.
THEOREM NothingIsLost == ProseSpec => []NothingIsUnindexed
<1>1. ProseInv => NothingIsUnindexed
  BY ProseCovered
<1>2. ProseInit => ProseInv
  BY ProseFirst
<1>3. ProseInv /\ [ProseNext]_proseVars => ProseInv'
  BY ProseStep
<1>4. QED
  BY <1>1, <1>2, <1>3, PTL DEF ProseSpec

=============================================================================
