-------------------------- MODULE LiveCorpusProofs --------------------------
(***************************************************************************)
(* Theorems about LiveCorpus, for any number of documents, contents, runs, *)
(* publications and edits.                                                 *)
(***************************************************************************)
EXTENDS LiveCorpus, FiniteSetTheorems, TLAPS

-----------------------------------------------------------------------------
(* Finite sets of numbers.                                                 *)

HasMax(S) == \E x \in S : \A y \in S : x >= y
HasMin(S) == \E x \in S : \A y \in S : x <= y

\* By induction over the subsets of S, as a least counterexample.
LEMMA FiniteMax ==
    ASSUME NEW S \in SUBSET Nat, IsFiniteSet(S), S # {}
    PROVE  HasMax(S)
<1> DEFINE Bad == {T \in SUBSET S : T # {} /\ ~HasMax(T)}
<1>1. SUFFICES ASSUME Bad # {}
               PROVE  FALSE
  OBVIOUS
<1>2. IsWellFoundedOn(StrictSubsetOrdering(S), SUBSET S)
  BY FS_StrictSubsetOrderingWellFounded, FS_FiniteSubsetsOfFinite
<1>3. PICK T \in Bad : \A U \in Bad : <<U, T>> \notin StrictSubsetOrdering(S)
  <2>1. Bad \subseteq SUBSET S
    OBVIOUS
  <2> HIDE DEF Bad
  <2>2. QED
    BY <1>1, <1>2, <2>1, WFMin
<1>4. PICK x \in T : TRUE
  OBVIOUS
<1>5. T \ {x} \notin Bad
  BY <1>3, <1>4 DEF StrictSubsetOrdering
<1>6. CASE T \ {x} = {}
  BY <1>4, <1>6 DEF HasMax
<1>7. CASE HasMax(T \ {x})
  <2>1. PICK m \in T \ {x} : \A y \in T \ {x} : m >= y
    BY <1>7 DEF HasMax
  <2>2. \A y \in T : y \in Nat
    OBVIOUS
  <2>3. CASE x >= m
    BY <1>4, <2>1, <2>2, <2>3 DEF HasMax
  <2>4. CASE ~(x >= m)
    BY <1>4, <2>1, <2>2, <2>4 DEF HasMax
  <2>5. QED
    BY <2>3, <2>4
<1>8. QED
  BY <1>5, <1>6, <1>7

LEMMA MaxIs ==
    ASSUME NEW S \in SUBSET Nat, IsFiniteSet(S), S # {}
    PROVE  Max(S) \in S /\ \A y \in S : Max(S) >= y
BY FiniteMax DEF HasMax, Max

LEMMA SetMin ==
    ASSUME NEW S \in SUBSET Nat, S # {}
    PROVE  HasMin(S)
<1>1. PICK x \in S : \A y \in S : <<y, x>> \notin OpToRel(<, Nat)
  BY NatLessThanWellFounded, WFMin
<1>2. \A y \in S : ~(y < x)
  BY <1>1 DEF OpToRel
<1>3. QED
  BY <1>2 DEF HasMin

\* The rank of an element grows with the element.
LEMMA RankGrows ==
    ASSUME NEW S \in SUBSET Nat, IsFiniteSet(S), NEW d \in S
    PROVE  /\ Cardinality({x \in S : x <= d}) \in Nat \ {0}
           /\ \A e \in S : d < e =>
                  Cardinality({x \in S : x <= d}) < Cardinality({x \in S : x <= e})
<1> DEFINE Upto(e) == {x \in S : x <= e}
<1>1. \A e \in S : IsFiniteSet(Upto(e)) /\ Cardinality(Upto(e)) \in Nat
  BY FS_Subset, FS_CardinalityType
<1>2. Upto(d) # {}
  OBVIOUS
<1>3. Cardinality(Upto(d)) # 0
  BY <1>1, <1>2, FS_EmptySet
<1>4. ASSUME NEW e \in S, d < e
      PROVE  Cardinality(Upto(d)) < Cardinality(Upto(e))
  <2>1. Upto(d) \in SUBSET Upto(e) /\ Upto(d) # Upto(e)
    <3>1. e \in Upto(e) /\ e \notin Upto(d)
      BY <1>4
    <3>2. \A x \in Upto(d) : x \in Upto(e)
      BY <1>4
    <3>3. QED
      BY <3>1, <3>2
  <2> HIDE DEF Upto
  <2>2. /\ Cardinality(Upto(d)) <= Cardinality(Upto(e))
        /\ Cardinality(Upto(d)) # Cardinality(Upto(e))
    BY <1>1, <2>1, FS_Subset
  <2>3. QED
    BY <1>1, <2>2
<1>5. QED
  BY <1>1, <1>3, <1>4

-----------------------------------------------------------------------------
(* Publication.                                                            *)

RowsType(rows) == rows \in [Doc -> Row \cup {None}]
LiveIn(rows) == {d \in Doc : rows[d] # None}
UniqueIn(rows) == \A d, e \in LiveIn(rows) : rows[d].id = rows[e].id => d = e

LEMMA FreshRow ==
    ASSUME NEW d \in Doc, source[d] \in Text, NEW i \in Nat
    PROVE  /\ Fresh(d, i) \in Row /\ Fresh(d, i) # None
           /\ Fresh(d, i).id = i /\ Fresh(d, i).text = source[d] /\ Fresh(d, i).signature = None
BY NoneAssumption DEF Fresh, Row

\* The largest rowid is one, or 0, and none is larger.
LEMMA LastIdIs ==
    ASSUME NEW rows, RowsType(rows)
    PROVE  /\ LastId(rows) \in Nat
           /\ \A d \in LiveIn(rows) : rows[d].id <= LastId(rows)
<1> DEFINE Ids == {rows[d].id : d \in LiveIn(rows)}
<1>1. Ids \cup {0} \in SUBSET Nat
  BY DEF RowsType, LiveIn, Row
<1>2. IsFiniteSet(Ids)
  <2> DEFINE f == [d \in LiveIn(rows) |-> rows[d].id]
  <2>1. f \in Surjection(LiveIn(rows), Ids)
    BY DEF Surjection
  <2>2. IsFiniteSet(LiveIn(rows))
    BY CorpusAssumption, FS_Subset DEF LiveIn
  <2>3. QED
    BY <2>1, <2>2, FS_Surjection
<1>3. IsFiniteSet(Ids \cup {0})
  BY <1>2, FS_AddElement
<1>4. LastId(rows) = Max(Ids \cup {0})
  BY DEF LastId, LiveIn
<1> HIDE DEF Ids
<1>5. /\ Max(Ids \cup {0}) \in Ids \cup {0}
      /\ \A y \in Ids \cup {0} : Max(Ids \cup {0}) >= y
  BY <1>1, <1>3, MaxIs
<1>6. \A d \in LiveIn(rows) : rows[d].id \in Ids
  BY DEF Ids
<1>7. QED
  BY <1>1, <1>4, <1>5, <1>6

\* What a publication makes of the rows: a document that changed has a new row
\* with an id of its own, or none; the others keep theirs.
LEMMA InsertedRows ==
    ASSUME RowsType(row), source \in [Doc -> Text \cup {None}]
    PROVE  /\ RowsType(Inserted)
           /\ \A d \in Doc \ Replaced : Inserted[d] = row[d]
           /\ \A d \in Replaced : source[d] = None => Inserted[d] = None
           /\ \A d \in Replaced : source[d] # None =>
                  /\ Inserted[d] # None /\ Inserted[d].text = source[d]
                  /\ Inserted[d].signature = None
           /\ UniqueIn(row) => UniqueIn(Inserted)
<1> DEFINE New == {x \in Replaced : source[x] # None}
           Rank(d) == Cardinality({x \in New : x <= d})
           last == LastId(Kept)
<1>1. RowsType(Kept)
  BY DEF RowsType, Kept
<1>2. last \in Nat /\ \A d \in LiveIn(Kept) : Kept[d].id <= last
  BY <1>1, LastIdIs
<1>3. New \in SUBSET Nat /\ IsFiniteSet(New) /\ New \subseteq Doc
  BY CorpusAssumption, FS_Subset DEF Replaced
<1>4. /\ \A d \in New : Rank(d) \in Nat \ {0}
      /\ \A d, e \in New : d < e => Rank(d) < Rank(e)
  <2> HIDE DEF New
  <2>1. QED
    BY <1>3, RankGrows
<1>5. \A d \in New : source[d] \in Text
  BY <1>3
<1>6. \A d \in New : {x \in Replaced : x <= d /\ source[x] # None} = {x \in New : x <= d}
  OBVIOUS
<1>7. \A d \in New : Inserted[d] = Fresh(d, last + Rank(d))
  BY <1>3, <1>6 DEF Inserted
<1>8. \A d \in Doc \ New : Inserted[d] = Kept[d]
  BY DEF Inserted
<1> DEFINE Id(d) == last + Rank(d)
<1>9. \A d \in New : Id(d) \in Nat /\ Id(d) > last
  <2> HIDE DEF New, Rank, last
  <2>1. QED
    BY <1>2, <1>4
<1>10. \A d \in New : /\ Inserted[d] \in Row /\ Inserted[d] # None
                      /\ Inserted[d].id = Id(d)
                      /\ Inserted[d].text = source[d] /\ Inserted[d].signature = None
  <2> HIDE DEF New, Rank, last
  <2>1. QED
    BY <1>3, <1>5, <1>7, <1>9, FreshRow
<1>11. \A d, e \in New : Id(d) = Id(e) => d = e
  <2> HIDE DEF New, Rank, last
  <2>1. \A d, e \in New : d < e => Id(d) < Id(e)
    BY <1>2, <1>4
  <2>2. \A d \in New : d \in Nat
    BY <1>3
  <2>3. QED
    BY <1>9, <2>1, <2>2
<1>12. RowsType(Inserted)
  <2>1. DOMAIN Inserted = Doc /\ Inserted = [d \in Doc |-> Inserted[d]]
    BY DEF Inserted
  <2>2. \A d \in Doc : Inserted[d] \in Row \cup {None}
    BY <1>1, <1>8, <1>10 DEF RowsType
  <2>3. QED
    BY <2>1, <2>2 DEF RowsType
<1>13. \A d \in Doc \ Replaced : Inserted[d] = row[d]
  BY <1>8 DEF Kept
<1>14. \A d \in Replaced : source[d] = None => Inserted[d] = None
  BY <1>8 DEF Kept, Replaced
<1>15. ASSUME UniqueIn(row), NEW d \in LiveIn(Inserted), NEW e \in LiveIn(Inserted),
              Inserted[d].id = Inserted[e].id
       PROVE  d = e
  <2>1. \A x \in LiveIn(Inserted) \ New : x \in LiveIn(row) /\ x \in LiveIn(Kept)
                                         /\ Inserted[x] = row[x] /\ Inserted[x] = Kept[x]
    BY <1>8 DEF LiveIn, Kept
  <2>2. \A x \in LiveIn(Inserted) \ New : Inserted[x].id <= last /\ Inserted[x].id \in Nat
    <3>1. \A x \in LiveIn(Kept) : Kept[x] \in Row /\ Kept[x].id \in Nat
      BY <1>1 DEF RowsType, LiveIn, Row
    <3>2. QED
      BY <1>2, <2>1, <3>1
  <2>3. CASE d \in New /\ e \in New
    <3> HIDE DEF New, Id
    <3>1. Id(d) = Id(e)
      BY <1>10, <1>15, <2>3
    <3>2. QED
      BY <1>11, <2>3, <3>1
  <2>4. CASE d \notin New /\ e \notin New
    BY <1>15, <2>1, <2>4 DEF UniqueIn
  <2>5. CASE d \in New /\ e \notin New
    <3>1. Inserted[d].id > last /\ Inserted[e].id <= last
      BY <1>9, <1>10, <2>2, <2>5
    <3> HIDE DEF last
    <3>2. QED
      BY <1>2, <1>15, <2>2, <2>5, <3>1
  <2>6. CASE d \notin New /\ e \in New
    <3>1. Inserted[e].id > last /\ Inserted[d].id <= last
      BY <1>9, <1>10, <2>2, <2>6
    <3> HIDE DEF last
    <3>2. QED
      BY <1>2, <1>15, <2>2, <2>6, <3>1
  <2>7. QED
    BY <2>3, <2>4, <2>5, <2>6
<1>16. UniqueIn(row) => UniqueIn(Inserted)
  BY <1>15 DEF UniqueIn
<1>17. \A d \in Replaced : source[d] # None => d \in New
  OBVIOUS
<1>18. QED
  BY <1>10, <1>12, <1>13, <1>14, <1>16, <1>17

-----------------------------------------------------------------------------
(* The embedding loop.                                                     *)

Pages == {"page", "locate", "recover", "batch", "insert"}
Hashes(S) == {x.hash : x \in S}

\* The hashes that the loop has seen to, or is about to, up to its cursor.
Seen(s) == Embedded \cup s.unresolved \cup s.missing \cup Hashes(s.todo) \cup Hashes(s.batch)

EmbedderOK(e) ==
    LET s == embedder[e] IN
    /\ s.at \in Pages => space = ModelOf[e]
    /\ \A x \in s.todo \cup s.batch : x.text = x.hash
    /\ steady[e] \subseteq LiveTexts
    /\ \A h \in steady[e] : (h > s.after /\ s.at # "done") \/ h \in Seen(s)
    /\ s.at \notin {"locate", "recover"} => s.missing = {}
    /\ s.at \notin {"batch", "insert"} => s.todo = {}
    /\ s.at # "insert" => s.batch = {}
    /\ s.at \in {"new", "space", "creating", "failed"} => s.after = 0

LEMMA TextsType ==
    ASSUME CorpusTypeOK
    PROVE  /\ LiveTexts \subseteq Text /\ Text \subseteq Nat
           /\ Embedded \subseteq Text
           /\ \A h \in Text : h > 0
BY CorpusAssumption DEF CorpusTypeOK, LiveTexts, LiveDocs, Row, Embedded, Vector

LEMMA FiniteTexts ==
    ASSUME NEW S \in SUBSET Text
    PROVE  /\ IsFiniteSet(S) /\ S \in SUBSET Nat
           /\ Cardinality(S) \in Nat
           /\ S # {} => HasMax(S) /\ HasMin(S)
BY CorpusAssumption, FS_Subset, FS_CardinalityType, FiniteMax, SetMin

\* What is left out of a page comes after it.
LEMMA PageIs ==
    ASSUME CorpusTypeOK, NEW e \in Embedder
    PROVE  /\ PageOf(e) \subseteq Pending(e) /\ Pending(e) \subseteq Text
           /\ PageOf(e) = {} => Pending(e) = {}
           /\ PageOf(e) # {} =>
                  /\ Cursor(e) \in Nat /\ Cursor(e) > embedder[e].after
                  /\ \A h \in Pending(e) \ PageOf(e) : h > Cursor(e)
<1> DEFINE P == Pending(e)
           Below(x) == {y \in P : y < x}
<1>1. P \subseteq Text /\ Text \subseteq Nat /\ embedder[e].after \in Nat
  BY TextsType DEF Pending, CorpusTypeOK, EmbedderState
<1>2. PageOf(e) = {x \in P : Cardinality(Below(x)) < PageSize}
  BY DEF PageOf, Smallest
<1>3. \A x \in P : IsFiniteSet(Below(x)) /\ Cardinality(Below(x)) \in Nat
  BY <1>1, FiniteTexts
<1>4. PageOf(e) = {} => P = {}
  <2>1. SUFFICES ASSUME P # {}
                 PROVE  PageOf(e) # {}
    OBVIOUS
  <2>2. PICK x \in P : \A y \in P : x <= y
    BY <1>1, <2>1, FiniteTexts DEF HasMin
  <2>3. Below(x) = {}
    BY <1>1, <2>2
  <2>4. Cardinality(Below(x)) = 0
    BY <2>3, FS_EmptySet
  <2>5. QED
    BY <1>2, <2>4, CorpusAssumption
<1>5. ASSUME PageOf(e) # {}
      PROVE  /\ Cursor(e) \in PageOf(e)
             /\ \A h \in PageOf(e) : Cursor(e) >= h
  BY <1>1, <1>2, <1>5, FiniteTexts, MaxIs DEF Cursor
<1>6. ASSUME NEW x \in PageOf(e), NEW h \in P \ PageOf(e)
      PROVE  h > x
  <2>1. x \in Nat /\ h \in Nat /\ x \in P /\ x # h
    BY <1>1, <1>2
  <2>2. CASE h < x
    <3>1. \A y \in P : y \in Nat
      BY <1>1
    <3>2. \A y \in P : y < h => y < x
      BY <2>1, <2>2, <3>1
    <3>3. Below(h) \in SUBSET Below(x)
      BY <3>2
    <3>4. Cardinality(Below(h)) <= Cardinality(Below(x))
      <4> HIDE DEF Below
      <4>1. QED
        BY <1>3, <2>1, <3>3, FS_Subset
    <3>5. Cardinality(Below(h)) < PageSize
      <4> HIDE DEF Below
      <4>1. QED
        BY <1>2, <1>3, <2>1, <3>4, CorpusAssumption
    <3>6. QED
      BY <1>2, <3>5
  <2>3. QED
    BY <2>1, <2>2
<1>7. \A x \in PageOf(e) : x \in Nat /\ x > embedder[e].after
  BY <1>1, <1>2 DEF Pending
<1>8. QED
  BY <1>1, <1>2, <1>4, <1>5, <1>6, <1>7

\* A batch is empty only if nothing is left to embed.
LEMMA BatchIs ==
    ASSUME NEW S \in SUBSET Text
    PROVE  /\ Largest(BatchSize, S) \subseteq S
           /\ Largest(BatchSize, S) = {} => S = {}
<1> DEFINE Over(x) == {y \in S : y > x}
<1>1. SUFFICES ASSUME S # {}
               PROVE  Largest(BatchSize, S) # {}
  BY DEF Largest
<1>2. PICK x \in S : \A y \in S : x >= y
  BY <1>1, FiniteTexts DEF HasMax
<1>3. Over(x) = {}
  BY <1>2, FiniteTexts
<1>4. Cardinality(Over(x)) = 0
  BY <1>3, FS_EmptySet
<1>5. QED
  BY <1>2, <1>4, CorpusAssumption DEF Largest

\* One step of the loop, and what it means for the thread whose step it is.
StepOf(e) ==
    /\ embedder'[e] \in EmbedderState
    /\ \A o \in Embedder \ {e} : embedder'[o] = embedder[o]
    /\ embedder' = [embedder EXCEPT ![e] = embedder'[e]]

LEMMA EmbedsIs ==
    ASSUME CorpusTypeOK, NEW e \in Embedder, NEW s \in EmbedderState, Embeds(e, s)
    PROVE  StepOf(e) /\ embedder'[e] = s
BY DEF CorpusTypeOK, Embeds, StepOf

LEMMA FailedIs ==
    /\ Failed \in EmbedderState
    /\ Failed.at = "failed" /\ Failed.after = 0
    /\ Failed.todo = {} /\ Failed.batch = {} /\ Failed.missing = {} /\ Failed.unresolved = {}
BY DEF Failed, NewEmbedder, EmbedderState

\* What a step of one loop does to the rest of the project.
EmbedDone(e) ==
    /\ StepOf(e) /\ EmbedderOK(e)'
    /\ space' = space \/ (space = None /\ space' = ModelOf[e])
    /\ steady' \in [Embedder -> SUBSET Text]
    /\ \A o \in Embedder \ {e} : steady'[o] = steady[o]
    /\ vectors \subseteq vectors' /\ vectors' \subseteq Vector
    /\ VectorsMeanTheirHash' /\ Embedded' \subseteq LiveTexts
    /\ passes' \in Nat

StoreInv ==
    /\ CorpusTypeOK /\ UniqueIn(row)
    /\ VectorsMeanTheirHash /\ NothingOutlivesItsUnit

\* A step that stores no vector and creates no space has its goal from the new
\* state of its loop alone.
LEMMA QuietStep ==
    ASSUME StoreInv, NEW e \in Embedder, UNCHANGED <<vectors, space>>, StepOf(e),
           EmbedderOK(e)', steady' = steady, passes' \in Nat
    PROVE  EmbedDone(e)
BY DEF StoreInv, EmbedDone, VectorsMeanTheirHash, NothingOutlivesItsUnit, Embedded,
       CorpusTypeOK

LEMMA LiveTextsKept ==
    ASSUME EmbedOnly
    PROVE  LiveTexts' = LiveTexts
BY DEF EmbedOnly, LiveTexts, LiveDocs

LEMMA StepBeginEmbedding ==
    ASSUME StoreInv, NEW e \in Embedder, EmbedderOK(e), BeginEmbedding(e)
    PROVE  EmbedDone(e)
<1> DEFINE s == [embedder[e] EXCEPT !.at = "space"]
<1>1. CorpusTypeOK
  BY DEF StoreInv
<1>2. embedder[e] \in EmbedderState /\ embedder[e].at = "new"
  BY <1>1 DEF CorpusTypeOK, BeginEmbedding, EmbedderAt
<1>3. /\ s \in EmbedderState /\ s.at = "space" /\ s.after = 0
      /\ s.todo = {} /\ s.batch = {} /\ s.missing = {}
  BY <1>2 DEF EmbedderState, EmbedderOK
<1>4. StepOf(e) /\ embedder'[e] = s
  <2>1. Embeds(e, s)
    BY DEF BeginEmbedding
  <2> HIDE DEF s
  <2>2. QED
    BY <1>1, <1>3, <2>1, EmbedsIs
<1>5. /\ UNCHANGED <<vectors, space>> /\ EmbedOnly /\ passes' = passes + 1
      /\ steady' = [steady EXCEPT ![e] = LiveTexts]
  BY DEF BeginEmbedding, Begins
<1>6. LiveTexts' = LiveTexts /\ LiveTexts \subseteq Text
  BY <1>1, <1>5, LiveTextsKept, TextsType
<1>7. /\ steady' \in [Embedder -> SUBSET Text] /\ steady'[e] = LiveTexts
      /\ \A o \in Embedder \ {e} : steady'[o] = steady[o]
  BY <1>1, <1>5, <1>6 DEF CorpusTypeOK
<1> HIDE DEF s
<1>8. EmbedderOK(e)'
  <2>1. \A h \in LiveTexts : h > 0
    BY <1>1, <1>6, TextsType
  <2>2. QED
    BY <1>3, <1>4, <1>6, <1>7, <2>1 DEF EmbedderOK, Pages
<1>9. passes' \in Nat
  BY <1>1, <1>5 DEF CorpusTypeOK
<1>10. VectorsMeanTheirHash' /\ Embedded' \subseteq LiveTexts /\ vectors \subseteq Vector
  BY <1>5 DEF StoreInv, VectorsMeanTheirHash, NothingOutlivesItsUnit, Embedded, CorpusTypeOK
<1>11. QED
  BY <1>4, <1>5, <1>7, <1>8, <1>9, <1>10 DEF EmbedDone

\* A failed loop promises nothing any more.
LEMMA FailedStep ==
    ASSUME CorpusTypeOK, NEW e \in Embedder, EmbedderOK(e), StepOf(e),
           embedder'[e] = Failed, EmbedOnly, steady' = steady
    PROVE  EmbedderOK(e)'
<1>1. \A h \in steady[e] : h > 0
  BY TextsType DEF CorpusTypeOK
<1>2. steady'[e] \subseteq LiveTexts'
  BY LiveTextsKept DEF EmbedderOK
<1>3. QED
  BY <1>1, <1>2, FailedIs DEF EmbedderOK, Pages

LEMMA StepFindSpace ==
    ASSUME StoreInv, NEW e \in Embedder, EmbedderOK(e), FindSpace(e)
    PROVE  EmbedDone(e)
<1> DEFINE Going(place) == [embedder[e] EXCEPT !.at = place]
<1>1. CorpusTypeOK /\ EmbedOnly /\ UNCHANGED <<vectors, space, steady, passes>>
  BY DEF StoreInv, FindSpace
<1>2. passes' \in Nat
  BY <1>1 DEF CorpusTypeOK
<1>3. embedder[e] \in EmbedderState /\ embedder[e].at = "space"
  BY <1>1 DEF CorpusTypeOK, FindSpace, EmbedderAt
<1>4. \A place \in {"creating", "page"} :
        /\ Going(place) \in EmbedderState /\ Going(place).at = place
        /\ Going(place).after = embedder[e].after /\ Going(place).missing = embedder[e].missing
        /\ Going(place).todo = embedder[e].todo /\ Going(place).batch = embedder[e].batch
        /\ Going(place).unresolved = embedder[e].unresolved
  BY <1>3 DEF EmbedderState
<1>5. LiveTexts' = LiveTexts /\ Embedded' = Embedded
  BY <1>1, LiveTextsKept DEF Embedded
<1>6. ASSUME NEW place \in {"creating", "page"}, Embeds(e, Going(place)),
             place = "page" => space = ModelOf[e]
      PROVE  StepOf(e) /\ EmbedderOK(e)'
  <2>1. StepOf(e) /\ embedder'[e] = Going(place)
    <3> HIDE DEF Going
    <3>1. QED
      BY <1>1, <1>4, <1>6, EmbedsIs
  <2> HIDE DEF Going
  <2>2. QED
    BY <1>1, <1>3, <1>4, <1>5, <1>6, <2>1 DEF EmbedderOK, Pages, Seen, Hashes
<1>7. CASE Embeds(e, Failed)
  BY <1>1, <1>2, <1>7, FailedIs, EmbedsIs, FailedStep, QuietStep
<1>8. \/ Embeds(e, Going("creating"))
      \/ Embeds(e, Going("page")) /\ space = ModelOf[e]
      \/ Embeds(e, Failed)
  BY DEF FindSpace, AcceptsSpace
<1>9. QED
  BY <1>1, <1>2, <1>6, <1>7, <1>8, QuietStep

LEMMA StepCreateSpace ==
    ASSUME StoreInv, NEW e \in Embedder, EmbedderOK(e), CreateSpace(e)
    PROVE  EmbedDone(e)
<1> DEFINE s == [embedder[e] EXCEPT !.at = "page"]
<1>1. CorpusTypeOK /\ EmbedOnly /\ UNCHANGED <<vectors, steady, passes>>
  BY DEF StoreInv, CreateSpace
<1>2. passes' \in Nat
  BY <1>1 DEF CorpusTypeOK
<1>3. embedder[e] \in EmbedderState /\ embedder[e].at = "creating"
  BY <1>1 DEF CorpusTypeOK, CreateSpace, EmbedderAt
<1>4. CASE UNCHANGED space /\ Embeds(e, Failed)
  BY <1>1, <1>2, <1>4, FailedIs, EmbedsIs, FailedStep, QuietStep
<1>5. CASE space = None /\ space' = ModelOf[e] /\ Embeds(e, s)
  <2>1. /\ s \in EmbedderState /\ s.at = "page" /\ s.after = embedder[e].after
        /\ s.missing = embedder[e].missing /\ s.todo = embedder[e].todo
        /\ s.batch = embedder[e].batch /\ s.unresolved = embedder[e].unresolved
    BY <1>3 DEF EmbedderState
  <2> HIDE DEF s
  <2>2. StepOf(e) /\ embedder'[e] = s
    BY <1>1, <1>5, <2>1, EmbedsIs
  <2>3. LiveTexts' = LiveTexts /\ Embedded' = Embedded
    BY <1>1, LiveTextsKept DEF Embedded
  <2>4. EmbedderOK(e)'
    BY <1>1, <1>3, <1>5, <2>1, <2>2, <2>3 DEF EmbedderOK, Pages, Seen, Hashes
  <2>5. vectors = {}
    <3>1. \A v \in vectors : v.model = None /\ v.model # None
      BY <1>5, CorpusAssumption DEF StoreInv, VectorsMeanTheirHash, CorpusTypeOK, Vector
    <3>2. QED
      BY <3>1
  <2>6. QED
    BY <1>1, <1>2, <1>5, <2>2, <2>4, <2>5
       DEF EmbedDone, VectorsMeanTheirHash, Embedded, CorpusTypeOK
<1>6. QED
  BY <1>4, <1>5 DEF CreateSpace

LEMMA StepReadPage ==
    ASSUME StoreInv, NEW e \in Embedder, EmbedderOK(e), ReadPage(e)
    PROVE  EmbedDone(e)
<1> DEFINE old == embedder[e]
           s == [old EXCEPT !.at = "done"]
           t == [old EXCEPT
                    !.at = IF retained THEN "batch" ELSE "locate",
                    !.after = Cursor(e),
                    !.missing = IF retained THEN {} ELSE PageOf(e),
                    !.todo = IF retained THEN {[hash |-> h, text |-> h] : h \in PageOf(e)}
                             ELSE {}]
<1>1. CorpusTypeOK /\ EmbedOnly /\ UNCHANGED <<vectors, space, steady, passes>>
  BY DEF StoreInv, ReadPage
<1>2. passes' \in Nat
  BY <1>1 DEF CorpusTypeOK
<1>3. old \in EmbedderState /\ old.at = "page"
  BY <1>1 DEF CorpusTypeOK, ReadPage, EmbedderAt
<1>4. LiveTexts' = LiveTexts /\ Embedded' = Embedded
  BY <1>1, LiveTextsKept DEF Embedded
<1>5. /\ space = ModelOf[e] /\ old.missing = {} /\ old.todo = {} /\ old.batch = {}
      /\ steady[e] \subseteq LiveTexts
      /\ \A h \in steady[e] : h > old.after \/ h \in Embedded \cup old.unresolved
  BY <1>3 DEF EmbedderOK, Pages, Seen, Hashes
<1>6. \A h \in steady[e] : h \in Embedded \cup old.unresolved \/ h \in Pending(e)
  BY <1>5 DEF Pending
<1>7. CASE PageOf(e) = {}
  <2>1. Pending(e) = {}
    BY <1>1, <1>7, PageIs
  <2>2. /\ s \in EmbedderState /\ s.at = "done" /\ s.unresolved = old.unresolved
        /\ s.missing = {} /\ s.todo = {} /\ s.batch = {}
    BY <1>3, <1>5 DEF EmbedderState
  <2>3. StepOf(e) /\ embedder'[e] = s
    <3>1. Embeds(e, s)
      BY <1>7 DEF ReadPage
    <3> HIDE DEF s
    <3>2. QED
      BY <1>1, <2>2, <3>1, EmbedsIs
  <2> HIDE DEF s
  <2>4. EmbedderOK(e)'
    BY <1>1, <1>4, <1>5, <1>6, <2>1, <2>2, <2>3 DEF EmbedderOK, Pages, Seen
  <2>5. QED
    BY <1>1, <1>2, <2>3, <2>4, QuietStep
<1>8. CASE PageOf(e) # {}
  <2>1. /\ PageOf(e) \subseteq Text /\ Cursor(e) \in Nat
        /\ \A h \in Pending(e) \ PageOf(e) : h > Cursor(e)
    BY <1>1, <1>8, PageIs
  <2>2. /\ t.at = IF retained THEN "batch" ELSE "locate"
        /\ t.after = Cursor(e) /\ t.unresolved = old.unresolved /\ t.batch = {}
        /\ t.missing = IF retained THEN {} ELSE PageOf(e)
        /\ t.todo = IF retained THEN {[hash |-> h, text |-> h] : h \in PageOf(e)} ELSE {}
    BY <1>3, <1>5 DEF EmbedderState
  <2>3. t.todo \subseteq [hash : Text, text : Text]
    BY <2>1, <2>2
  <2>4. t.missing \subseteq Text
    BY <2>1, <2>2
  <2>5. t \in EmbedderState
    <3>1. {[hash |-> h, text |-> h] : h \in PageOf(e)} \subseteq [hash : Text, text : Text]
      BY <2>1
    <3>2. QED
      BY <1>3, <2>1, <3>1 DEF EmbedderState
  <2>6. StepOf(e) /\ embedder'[e] = t
    <3>1. Embeds(e, t)
      BY <1>8 DEF ReadPage
    <3> HIDE DEF t
    <3>2. QED
      BY <1>1, <2>5, <3>1, EmbedsIs
  <2> HIDE DEF t
  <2>7. \A h \in PageOf(e) : h \in t.missing \cup Hashes(t.todo)
    <3>1. ASSUME NEW h \in PageOf(e), retained
          PROVE  h \in Hashes(t.todo)
      <4>1. [hash |-> h, text |-> h] \in t.todo
        BY <2>2, <3>1
      <4>2. QED
        BY <4>1 DEF Hashes
    <3>2. QED
      BY <2>2, <3>1
  <2>8. \A x \in t.todo \cup t.batch : x.text = x.hash
    BY <2>2
  <2>9. \A h \in steady[e] : \/ h > t.after
                             \/ h \in Embedded \cup t.unresolved \cup t.missing \cup Hashes(t.todo)
    BY <1>6, <2>1, <2>2, <2>7
  <2>10. EmbedderOK(e)'
    BY <1>1, <1>4, <1>5, <2>2, <2>6, <2>8, <2>9 DEF EmbedderOK, Pages, Seen
  <2>11. QED
    BY <1>1, <1>2, <2>6, <2>10, QuietStep
<1>9. QED
  BY <1>7, <1>8

LEMMA StepLocate ==
    ASSUME StoreInv, NEW e \in Embedder, EmbedderOK(e), Locate(e)
    PROVE  EmbedDone(e)
<1> DEFINE old == embedder[e]
           s(found) == [old EXCEPT !.at = "recover", !.located = found]
<1>1. CorpusTypeOK /\ EmbedOnly /\ UNCHANGED <<vectors, space, steady, passes>>
  BY DEF StoreInv, Locate
<1>2. passes' \in Nat
  BY <1>1 DEF CorpusTypeOK
<1>3. old \in EmbedderState /\ old.at = "locate"
  BY <1>1 DEF CorpusTypeOK, Locate, EmbedderAt
<1>4. LiveTexts' = LiveTexts /\ Embedded' = Embedded
  BY <1>1, LiveTextsKept DEF Embedded
<1>5. PICK found \in SUBSET LiveDocs : Embeds(e, s(found))
  BY DEF Locate
<1> DEFINE t == s(found)
<1>6. /\ t \in EmbedderState /\ t.at = "recover" /\ t.after = old.after
      /\ t.missing = old.missing /\ t.todo = old.todo /\ t.batch = old.batch
      /\ t.unresolved = old.unresolved
  <2>1. found \in SUBSET Doc
    BY DEF LiveDocs
  <2>2. QED
    BY <1>3, <2>1 DEF EmbedderState
<1>7. StepOf(e) /\ embedder'[e] = t
  <2> HIDE DEF t, s
  <2>1. Embeds(e, t)
    BY <1>5 DEF t
  <2>2. QED
    BY <1>1, <1>6, <2>1, EmbedsIs
<1> HIDE DEF t
<1>8. EmbedderOK(e)'
  BY <1>1, <1>3, <1>4, <1>6, <1>7 DEF EmbedderOK, Pages, Seen, Hashes
<1>9. QED
  BY <1>1, <1>2, <1>7, <1>8, QuietStep

LEMMA StepRecover ==
    ASSUME StoreInv, NEW e \in Embedder, EmbedderOK(e), Recover(e)
    PROVE  EmbedDone(e)
<1> DEFINE old == embedder[e]
           lost == old.missing \ {x.hash : x \in Recovered(e)}
           t == [old EXCEPT !.at = "batch", !.missing = {}, !.located = {},
                            !.todo = Recovered(e), !.unresolved = @ \cup lost]
<1>1. CorpusTypeOK /\ EmbedOnly /\ UNCHANGED <<vectors, space, steady, passes>>
  BY DEF StoreInv, Recover
<1>2. passes' \in Nat
  BY <1>1 DEF CorpusTypeOK
<1>3. old \in EmbedderState /\ old.at = "recover"
  BY <1>1 DEF CorpusTypeOK, Recover, EmbedderAt
<1>4. LiveTexts' = LiveTexts /\ Embedded' = Embedded
  BY <1>1, LiveTextsKept DEF Embedded
<1>5. /\ Recovered(e) \subseteq [hash : Text, text : Text]
      /\ \A x \in Recovered(e) : x.text = x.hash
  BY <1>3 DEF Recovered, EmbedderState
<1>6. Embeds(e, t)
  BY DEF Recover
<1>7. /\ t \in EmbedderState /\ t.at = "batch" /\ t.after = old.after
      /\ t.missing = {} /\ t.todo = Recovered(e) /\ t.batch = old.batch
      /\ t.unresolved = old.unresolved \cup lost
  <2>1. lost \subseteq Text
    BY <1>3 DEF EmbedderState
  <2> HIDE DEF lost
  <2>2. QED
    BY <1>3, <1>5, <2>1 DEF EmbedderState
<1> HIDE DEF t
<1>8. StepOf(e) /\ embedder'[e] = t
  BY <1>1, <1>6, <1>7, EmbedsIs
<1>9. old.todo = {} /\ old.batch = {}
  BY <1>3 DEF EmbedderOK
<1>10. \A h \in old.missing : h \in t.unresolved \cup Hashes(t.todo)
  BY <1>7 DEF Hashes
<1>11. EmbedderOK(e)'
  BY <1>1, <1>3, <1>4, <1>5, <1>7, <1>8, <1>9, <1>10 DEF EmbedderOK, Pages, Seen, Hashes
<1>12. QED
  BY <1>1, <1>2, <1>8, <1>11, QuietStep

LEMMA StepTakeBatch ==
    ASSUME StoreInv, NEW e \in Embedder, EmbedderOK(e), TakeBatch(e)
    PROVE  EmbedDone(e)
<1> DEFINE old == embedder[e]
           hashes == Largest(BatchSize, {x.hash : x \in old.todo})
           batch == {x \in old.todo : x.hash \in hashes}
           s == [old EXCEPT !.at = "page"]
           t == [old EXCEPT !.at = "insert", !.batch = batch, !.todo = @ \ batch]
<1>1. CorpusTypeOK /\ EmbedOnly /\ UNCHANGED <<vectors, space, steady, passes>>
  BY DEF StoreInv, TakeBatch
<1>2. passes' \in Nat
  BY <1>1 DEF CorpusTypeOK
<1>3. old \in EmbedderState /\ old.at = "batch"
  BY <1>1 DEF CorpusTypeOK, TakeBatch, EmbedderAt
<1>4. LiveTexts' = LiveTexts /\ Embedded' = Embedded
  BY <1>1, LiveTextsKept DEF Embedded
<1>5. old.missing = {} /\ old.batch = {}
  BY <1>3 DEF EmbedderOK
<1>6. CASE batch = {} /\ Embeds(e, s)
  <2>1. old.todo = {}
    <3>1. {x.hash : x \in old.todo} \subseteq Text
      BY <1>3 DEF EmbedderState
    <3>2. hashes \subseteq {x.hash : x \in old.todo}
      BY DEF Largest
    <3>3. hashes = {}
      BY <1>6, <3>2
    <3>4. {x.hash : x \in old.todo} = {}
      <4> HIDE DEF batch, s
      <4>1. QED
        BY <3>1, <3>3, BatchIs
    <3>5. QED
      BY <3>4
  <2>2. /\ s \in EmbedderState /\ s.at = "page" /\ s.after = old.after
        /\ s.missing = {} /\ s.todo = {} /\ s.batch = {} /\ s.unresolved = old.unresolved
    BY <1>3, <1>5, <2>1 DEF EmbedderState
  <2> HIDE DEF s, batch
  <2>3. StepOf(e) /\ embedder'[e] = s
    BY <1>1, <1>6, <2>2, EmbedsIs
  <2>4. EmbedderOK(e)'
    BY <1>1, <1>3, <1>4, <1>5, <2>1, <2>2, <2>3 DEF EmbedderOK, Pages, Seen, Hashes
  <2>5. QED
    BY <1>1, <1>2, <2>3, <2>4, QuietStep
<1>7. CASE Embeds(e, t)
  <2>1. batch \subseteq old.todo
    OBVIOUS
  <2> HIDE DEF batch
  <2>2. /\ t \in EmbedderState /\ t.at = "insert" /\ t.after = old.after
        /\ t.missing = {} /\ t.todo = old.todo \ batch /\ t.batch = batch
        /\ t.unresolved = old.unresolved
    BY <1>3, <1>5, <2>1 DEF EmbedderState
  <2> HIDE DEF t
  <2>3. StepOf(e) /\ embedder'[e] = t
    BY <1>1, <1>7, <2>2, EmbedsIs
  <2>4. t.todo \cup t.batch = old.todo
    BY <2>1, <2>2
  <2>5. Hashes(old.todo) \subseteq Hashes(t.todo) \cup Hashes(t.batch)
    BY <2>4 DEF Hashes
  <2>6. Hashes(old.batch) = {}
    BY <1>5 DEF Hashes
  <2>7. \A h \in steady[e] : h > t.after \/ h \in Embedded \cup t.unresolved \cup t.missing
                                            \cup Hashes(t.todo) \cup Hashes(t.batch)
    BY <1>3, <1>5, <2>2, <2>5, <2>6 DEF EmbedderOK, Seen
  <2>8. EmbedderOK(e)'
    BY <1>1, <1>3, <1>4, <1>5, <2>2, <2>3, <2>4, <2>7 DEF EmbedderOK, Pages, Seen
  <2>9. QED
    BY <1>1, <1>2, <2>3, <2>8, QuietStep
<1>8. CASE Embeds(e, Failed)
  BY <1>1, <1>2, <1>8, FailedIs, EmbedsIs, FailedStep, QuietStep
<1>9. \/ batch = {} /\ Embeds(e, s)
      \/ Embeds(e, t)
      \/ Embeds(e, Failed)
  BY DEF TakeBatch
<1>10. QED
  BY <1>6, <1>7, <1>8, <1>9

LEMMA StepInsertBatch ==
    ASSUME StoreInv, NEW e \in Embedder, EmbedderOK(e), InsertBatch(e)
    PROVE  EmbedDone(e)
<1> DEFINE old == embedder[e]
           t == [old EXCEPT !.at = "batch", !.batch = {}]
           stored == {[hash |-> x.hash, text |-> x.text, model |-> ModelOf[e]] :
                         x \in {y \in old.batch : Storable(y)}}
<1>1. CorpusTypeOK /\ EmbedOnly /\ UNCHANGED <<space, steady, passes>>
  BY DEF StoreInv, InsertBatch
<1>2. passes' \in Nat
  BY <1>1 DEF CorpusTypeOK
<1>3. old \in EmbedderState /\ old.at = "insert"
  BY <1>1 DEF CorpusTypeOK, InsertBatch, EmbedderAt
<1>4. LiveTexts' = LiveTexts
  BY <1>1, LiveTextsKept
<1>5. space = ModelOf[e] /\ \A x \in old.batch : x.text = x.hash
  BY <1>3 DEF EmbedderOK, Pages
<1>6. vectors' = vectors \cup stored
  BY DEF InsertBatch
<1>7. /\ t \in EmbedderState /\ t.at = "batch" /\ t.after = old.after
      /\ t.missing = old.missing /\ t.todo = old.todo /\ t.batch = {}
      /\ t.unresolved = old.unresolved
  BY <1>3 DEF EmbedderState
<1>8. StepOf(e) /\ embedder'[e] = t
  <2>1. Embeds(e, t)
    BY DEF InsertBatch
  <2> HIDE DEF t
  <2>2. QED
    BY <1>1, <1>7, <2>1, EmbedsIs
<1> HIDE DEF t
<1>9. /\ stored \subseteq Vector
      /\ \A v \in stored : v.text = v.hash /\ v.model = space /\ v.hash \in LiveTexts
  <2>1. SUFFICES ASSUME NEW x \in old.batch, Storable(x)
                 PROVE  LET v == [hash |-> x.hash, text |-> x.text, model |-> ModelOf[e]]
                        IN  v \in Vector /\ v.text = v.hash /\ v.model = space /\ v.hash \in LiveTexts
    OBVIOUS
  <2>2. x \in [hash : Text, text : Text]
    BY <1>3 DEF EmbedderState
  <2>3. QED
    BY <1>5, <2>1, <2>2 DEF Vector, Storable
<1>10. \A x \in old.batch : x.hash \in LiveTexts => x.hash \in Embedded'
  <2>1. SUFFICES ASSUME NEW x \in old.batch, x.hash \in LiveTexts \ Embedded
                 PROVE  x.hash \in Embedded'
    BY <1>6 DEF Embedded
  <2>2. [hash |-> x.hash, text |-> x.text, model |-> ModelOf[e]] \in vectors'
    BY <1>6, <2>1 DEF Storable
  <2>3. QED
    BY <2>2 DEF Embedded
<1>11. Embedded \subseteq Embedded' /\ Embedded' \subseteq LiveTexts
  <2>1. Embedded \subseteq LiveTexts
    BY DEF StoreInv, NothingOutlivesItsUnit
  <2> HIDE DEF stored
  <2>2. QED
    BY <1>6, <1>9, <2>1 DEF Embedded
<1>12. \A h \in steady[e] : h > t.after \/ h \in Embedded' \cup t.unresolved \cup t.missing
                                             \cup Hashes(t.todo) \cup Hashes(t.batch)
  <2>1. SUFFICES ASSUME NEW h \in steady[e], h \in Hashes(old.batch)
                 PROVE  h \in Embedded'
    BY <1>3, <1>7, <1>11 DEF EmbedderOK, Seen
  <2>2. h \in LiveTexts
    BY DEF EmbedderOK
  <2>3. QED
    BY <1>10, <2>1, <2>2 DEF Hashes
<1>13. EmbedderOK(e)'
  BY <1>1, <1>3, <1>4, <1>5, <1>7, <1>8, <1>12 DEF EmbedderOK, Pages, Seen
<1>14. vectors' \subseteq Vector /\ VectorsMeanTheirHash'
  <2>1. vectors \subseteq Vector /\ \A v \in vectors : v.text = v.hash /\ v.model = space
    BY <1>1 DEF CorpusTypeOK, StoreInv, VectorsMeanTheirHash
  <2> HIDE DEF stored
  <2>2. QED
    BY <1>1, <1>6, <1>9, <2>1 DEF VectorsMeanTheirHash
<1>15. QED
  <2> HIDE DEF stored
  <2>1. QED
    BY <1>1, <1>2, <1>6, <1>8, <1>11, <1>13, <1>14 DEF EmbedDone, CorpusTypeOK

-----------------------------------------------------------------------------
(* The store and the loops, under every action.                            *)

LoopInv == \A e \in Embedder : EmbedderOK(e)

LEMMA EmbedIsDone ==
    ASSUME StoreInv, LoopInv, NEW e \in Embedder, Embed(e)
    PROVE  EmbedDone(e) /\ EmbedOnly
<1>1. EmbedderOK(e)
  BY DEF LoopInv
<1>2. CASE BeginEmbedding(e)
  BY <1>1, <1>2, StepBeginEmbedding DEF BeginEmbedding
<1>3. CASE FindSpace(e)
  BY <1>1, <1>3, StepFindSpace DEF FindSpace
<1>4. CASE CreateSpace(e)
  BY <1>1, <1>4, StepCreateSpace DEF CreateSpace
<1>5. CASE ReadPage(e)
  BY <1>1, <1>5, StepReadPage DEF ReadPage
<1>6. CASE Locate(e)
  BY <1>1, <1>6, StepLocate DEF Locate
<1>7. CASE Recover(e)
  BY <1>1, <1>7, StepRecover DEF Recover
<1>8. CASE TakeBatch(e)
  BY <1>1, <1>8, StepTakeBatch DEF TakeBatch
<1>9. CASE InsertBatch(e)
  BY <1>1, <1>9, StepInsertBatch DEF InsertBatch
<1>10. QED
  BY <1>2, <1>3, <1>4, <1>5, <1>6, <1>7, <1>8, <1>9 DEF Embed

LEMMA EmbedKeepsStore ==
    ASSUME StoreInv, LoopInv, NEW e \in Embedder, Embed(e)
    PROVE  StoreInv' /\ LoopInv'
<1>1. EmbedDone(e) /\ EmbedOnly /\ CorpusTypeOK
  BY EmbedIsDone DEF StoreInv
<1>2. UNCHANGED <<source, retained, row, lexical, generation, relations, enricher, reader,
                  edits, published, raced>>
  BY <1>1 DEF EmbedOnly
<1>3. LiveTexts' = LiveTexts /\ LiveDocs' = LiveDocs
  BY <1>2 DEF LiveTexts, LiveDocs
<1>4. /\ embedder' \in [Embedder -> EmbedderState]
      /\ space' \in {ModelOf[x] : x \in Embedder} \cup {None}
      /\ vectors' \subseteq Vector /\ steady' \in [Embedder -> SUBSET Text] /\ passes' \in Nat
  BY <1>1 DEF EmbedDone, StepOf, CorpusTypeOK
<1>5. CorpusTypeOK'
  BY <1>1, <1>2, <1>4 DEF CorpusTypeOK
<1>6. StoreInv'
  BY <1>1, <1>2, <1>3, <1>5 DEF StoreInv, EmbedDone, UniqueIn, LiveIn, NothingOutlivesItsUnit
<1>7. ASSUME NEW o \in Embedder \ {e}
      PROVE  EmbedderOK(o)'
  <2>1. EmbedderOK(o) /\ embedder'[o] = embedder[o] /\ steady'[o] = steady[o]
    BY <1>1 DEF LoopInv, EmbedDone, StepOf
  <2>2. Embedded \subseteq Embedded'
    BY <1>1 DEF EmbedDone, Embedded
  <2>3. space = ModelOf[o] => space' = ModelOf[o]
    BY <1>1, CorpusAssumption DEF EmbedDone
  <2>4. QED
    BY <1>3, <2>1, <2>2, <2>3 DEF EmbedderOK, Seen
<1>8. LoopInv'
  BY <1>1, <1>7 DEF LoopInv, EmbedDone
<1>9. QED
  BY <1>6, <1>8

\* The documents keep their rows, but for the signatures.
SameTexts ==
    /\ RowsType(row') /\ LiveDocs' = LiveDocs
    /\ \A d \in LiveDocs : row'[d].id = row[d].id /\ row'[d].text = row[d].text

LEMMA SameTextsMeans ==
    ASSUME SameTexts
    PROVE  /\ LiveTexts' = LiveTexts /\ RowsOf(row') = RowsOf(row)
           /\ UniqueIn(row) => UniqueIn(row')
<1>1. LiveTexts' = {row[d].text : d \in LiveDocs}
  BY DEF SameTexts, LiveTexts
<1>2. RowsOf(row') = RowsOf(row)
  <2>1. /\ RowsOf(row) = {[doc |-> d, text |-> row[d].text] : d \in LiveDocs}
        /\ RowsOf(row') = {[doc |-> d, text |-> row'[d].text] : d \in LiveDocs'}
    BY DEF RowsOf, LiveDocs
  <2>2. QED
    BY <2>1 DEF SameTexts
<1>3. QED
  BY <1>1, <1>2 DEF SameTexts, LiveTexts, UniqueIn, LiveIn, LiveDocs

LEMMA QuietStore ==
    ASSUME StoreInv, LoopInv, SameTexts, CorpusTypeOK',
           UNCHANGED <<vectors, space, lexical, embedder, steady>>
    PROVE  StoreInv' /\ LoopInv'
<1>1. LiveTexts' = LiveTexts /\ Embedded' = Embedded /\ LiveDocs' = LiveDocs
  BY SameTextsMeans DEF Embedded, SameTexts
<1>2. UniqueIn(row)'
  BY SameTextsMeans DEF StoreInv, UniqueIn, LiveIn
<1>3. VectorsMeanTheirHash'
  BY DEF StoreInv, VectorsMeanTheirHash
<1>4. NothingOutlivesItsUnit'
  BY <1>1 DEF StoreInv, NothingOutlivesItsUnit, SameTexts
<1>5. LoopInv'
  BY <1>1 DEF LoopInv, EmbedderOK, Seen
<1>6. QED
  BY <1>2, <1>3, <1>4, <1>5 DEF StoreInv

LEMMA SameRow ==
    ASSUME CorpusTypeOK, row' = row
    PROVE  SameTexts
BY DEF CorpusTypeOK, SameTexts, RowsType, LiveDocs

\* Publication: the units that go take their texts along, and those that stay
\* were live all along.
LEMMA PublishedRows ==
    ASSUME StoreInv, Publish
    PROVE  /\ RowsType(row') /\ UniqueIn(row') /\ row' = Inserted
           /\ LiveTexts' = {x.text : x \in RowsOf(Inserted)}
           /\ RowsOf(Inserted) \subseteq Listed
           /\ RowsOf(row') = RowsOf(Inserted)
<1>1. row' = Inserted
  BY DEF Publish
<1>2. RowsType(row') /\ UniqueIn(row')
  BY <1>1, InsertedRows DEF StoreInv, CorpusTypeOK, RowsType
<1>3. LiveTexts' = {row'[d].text : d \in {x \in Doc : row'[x] # None}}
  BY DEF LiveTexts, LiveDocs
<1>4. RowsOf(row') = {[doc |-> d, text |-> row'[d].text] : d \in {x \in Doc : row'[x] # None}}
  BY DEF RowsOf
<1>5. RowsOf(row') \subseteq Listed
  BY <1>2, <1>4 DEF RowsType, Row, Listed
<1>6. LiveTexts' = {x.text : x \in RowsOf(row')}
  <2>1. ASSUME NEW h \in LiveTexts'
        PROVE  h \in {x.text : x \in RowsOf(row')}
    <3>1. PICK d \in {x \in Doc : row'[x] # None} : h = row'[d].text
      BY <1>3
    <3>2. [doc |-> d, text |-> row'[d].text] \in RowsOf(row')
      BY <1>4
    <3>3. QED
      BY <3>1, <3>2
  <2>2. ASSUME NEW x \in RowsOf(row')
        PROVE  x.text \in LiveTexts'
    BY <1>3, <1>4
  <2>3. QED
    BY <2>1, <2>2
<1>7. QED
  BY <1>1, <1>2, <1>5, <1>6

LEMMA PublishedIndex ==
    ASSUME StoreInv, Publish
    PROVE  lexical' = {[id |-> row'[d].id, text |-> row'[d].text] : d \in LiveDocs'}
<1> DEFINE entry(rows, d) == [id |-> rows[d].id, text |-> rows[d].text]
           new == {x \in Replaced : source[x] # None}
<1>1. row' = Inserted /\ LiveDocs' = {d \in Doc : Inserted[d] # None}
  BY DEF Publish, LiveDocs
<1>2. lexical' = {x \in lexical : \A d \in Replaced : row[d] # None => row[d].id # x.id} \cup
                 {entry(Inserted, d) : d \in new}
  BY DEF Publish, LexicalAfter
<1>3. lexical = {entry(row, d) : d \in LiveDocs}
  BY DEF StoreInv, NothingOutlivesItsUnit
<1>4. /\ \A d \in Doc \ Replaced : Inserted[d] = row[d]
      /\ \A d \in Replaced : Inserted[d] # None <=> source[d] # None
  BY InsertedRows DEF StoreInv, CorpusTypeOK, RowsType
<1>5. Replaced \subseteq Doc
  BY DEF Replaced
<1>6. ASSUME NEW d \in LiveDocs \ Replaced
      PROVE  \A o \in Replaced : row[o] # None => row[o].id # entry(row, d).id
  BY <1>5 DEF StoreInv, UniqueIn, LiveIn, LiveDocs
<1>7. ASSUME NEW d \in LiveDocs'
      PROVE  entry(row', d) \in lexical'
  <2>1. CASE d \in Replaced
    BY <1>1, <1>2, <1>4, <2>1
  <2>2. CASE d \notin Replaced
    <3>1. d \in LiveDocs /\ entry(row', d) = entry(row, d)
      BY <1>1, <1>4, <2>2 DEF LiveDocs
    <3>2. entry(row, d) \in lexical
      BY <1>3, <3>1
    <3> HIDE DEF entry
    <3>3. QED
      BY <1>2, <1>6, <2>2, <3>1, <3>2
  <2>3. QED
    BY <2>1, <2>2
<1>8. ASSUME NEW x \in lexical'
      PROVE  \E d \in LiveDocs' : x = entry(row', d)
  <2>1. CASE x \in {entry(Inserted, d) : d \in new}
    BY <1>1, <1>4, <1>5, <2>1
  <2>2. CASE x \in lexical /\ \A d \in Replaced : row[d] # None => row[d].id # x.id
    <3>1. PICK d \in LiveDocs : x = entry(row, d)
      BY <1>3, <2>2
    <3>2. x.id = row[d].id
      BY <3>1
    <3>3. d \notin Replaced /\ d \in Doc
      BY <2>2, <3>2 DEF LiveDocs
    <3>4. QED
      BY <1>1, <1>4, <3>1, <3>3 DEF LiveDocs
  <2>3. QED
    BY <1>2, <2>1, <2>2
<1>9. QED
  BY <1>7, <1>8

LEMMA PublishKeepsStore ==
    ASSUME StoreInv, LoopInv, Publish
    PROVE  StoreInv' /\ LoopInv'
<1>1. CorpusTypeOK
  BY DEF StoreInv
<1>2. /\ generation < MaxPublish /\ generation' = generation + 1
      /\ published' = [published EXCEPT ![generation + 1] = RowsOf(Inserted)]
      /\ raced' \subseteq Enricher
      /\ vectors' = Swept(Inserted) /\ row' = Inserted
      /\ UNCHANGED <<source, retained, space, relations, embedder, enricher, reader, edits, passes>>
  BY DEF Publish, passVars
<1>3. /\ RowsType(row') /\ UniqueIn(row')
      /\ LiveTexts' = {x.text : x \in RowsOf(Inserted)}
      /\ RowsOf(Inserted) \subseteq Listed
  BY PublishedRows
<1>4. lexical' = {[id |-> row'[d].id, text |-> row'[d].text] : d \in LiveDocs'}
  BY PublishedIndex
<1>5. /\ lexical' \subseteq [id : Nat, text : Text]
      /\ LiveTexts' \subseteq Text
  BY <1>3, <1>4 DEF RowsType, Row, LiveDocs, LiveTexts
<1>6. steady' = [e \in Embedder |-> steady[e] \cap LiveTexts']
  BY <1>3 DEF Publish
<1>7. vectors' \subseteq vectors
  BY <1>2 DEF Swept
<1>8. CorpusTypeOK'
  <2>1. published' \in [1 .. MaxPublish -> SUBSET Listed]
    BY <1>1, <1>2, <1>3, CorpusAssumption DEF CorpusTypeOK
  <2>2. generation' \in 1 .. MaxPublish
    BY <1>1, <1>2, CorpusAssumption DEF CorpusTypeOK
  <2>3. steady' \in [Embedder -> SUBSET Text]
    BY <1>5, <1>6
  <2>4. QED
    BY <1>1, <1>2, <1>3, <1>5, <1>7, <2>1, <2>2, <2>3 DEF CorpusTypeOK, RowsType
<1>9. \A v \in vectors : v.hash \in LiveTexts' => v \in vectors'
  <2>1. LiveTexts' = {Inserted[d].text : d \in {x \in Doc : Inserted[x] # None}}
    BY <1>2 DEF LiveTexts, LiveDocs
  <2>2. QED
    BY <1>2, <2>1 DEF Swept
<1>10. \A v \in vectors' : v.hash \in LiveTexts'
  <2>1. CASE Replaced = {}
    <3>1. \A d \in Doc : Inserted[d] = row[d]
      BY <1>1, <2>1, InsertedRows DEF CorpusTypeOK, RowsType
    <3>2. LiveTexts' = LiveTexts
      BY <1>2, <3>1 DEF LiveTexts, LiveDocs
    <3>3. QED
      BY <1>7, <3>2 DEF StoreInv, NothingOutlivesItsUnit, Embedded
  <2>2. CASE Replaced # {}
    <3>1. LiveTexts' = {Inserted[d].text : d \in {x \in Doc : Inserted[x] # None}}
      BY <1>2 DEF LiveTexts, LiveDocs
    <3>2. QED
      BY <1>2, <2>2, <3>1 DEF Swept
  <2>3. QED
    BY <2>1, <2>2
<1>11. NothingOutlivesItsUnit'
  BY <1>4, <1>10 DEF NothingOutlivesItsUnit, Embedded
<1>12. VectorsMeanTheirHash'
  BY <1>2, <1>7 DEF StoreInv, VectorsMeanTheirHash
<1>13. UniqueIn(row)'
  BY <1>3 DEF UniqueIn, LiveIn
<1>14. ASSUME NEW e \in Embedder
       PROVE  EmbedderOK(e)'
  <2>1. steady'[e] = steady[e] \cap LiveTexts' /\ embedder'[e] = embedder[e]
    BY <1>2, <1>6
  <2>2. \A h \in Embedded \cap LiveTexts' : h \in Embedded'
    BY <1>9 DEF Embedded
  <2>3. \A h \in steady'[e] : h \in Seen(embedder[e]) => h \in Seen(embedder[e])'
    BY <1>2, <2>1, <2>2 DEF Seen
  <2>4. EmbedderOK(e)
    BY DEF LoopInv
  <2>5. QED
    BY <1>2, <2>1, <2>3, <2>4 DEF EmbedderOK
<1>15. QED
  BY <1>8, <1>11, <1>12, <1>13, <1>14 DEF StoreInv, LoopInv

LEMMA EditKeepsStore ==
    ASSUME StoreInv, LoopInv, NEW d \in Doc, NEW text \in Text \cup {None}, Edit(d, text)
    PROVE  StoreInv' /\ LoopInv'
<1>1. CorpusTypeOK
  BY DEF StoreInv
<1>2. UNCHANGED <<retained, row, lexical, generation, vectors, space, relations, embedder,
                  enricher, reader, passes, published, steady, raced>>
  BY DEF Edit, storeVars, passVars, history
<1>3. source' = [source EXCEPT ![d] = text] /\ edits' = edits + 1
  BY DEF Edit
<1>4. CorpusTypeOK'
  BY <1>1, <1>2, <1>3 DEF CorpusTypeOK
<1>5. QED
  BY <1>1, <1>2, <1>4, SameRow, QuietStore

-----------------------------------------------------------------------------
(* Enrichment.                                                             *)

\* What an enrichment holds: units of its generation, by their ids.
EnricherOK(n) ==
    LET s == enricher[n] IN
    /\ s.generation <= generation
    /\ s.unhovered \subseteq s.units
    /\ s.at = "new" => s.units = {}
    /\ s.generation = generation => \A u \in s.units : u.doc \in LiveDocs
    /\ n \notin raced => \A u \in s.units : u.doc \in LiveDocs /\ row[u.doc].id = u.id

AnalysisInv ==
    /\ \A n \in Enricher : EnricherOK(n)
    /\ \A r \in relations : r.generation <= generation
    /\ AnalysisIsOfItsUnits

\* What a step of one enrichment does to the rest of the project.
EnrichDone(n) ==
    /\ enricher'[n] \in EnricherState
    /\ enricher' = [enricher EXCEPT ![n] = enricher'[n]]
    /\ EnricherOK(n)'
    /\ SameTexts
    /\ relations' \subseteq Relation
    /\ \A r \in relations' : r.generation <= generation
    /\ AnalysisIsOfItsUnits'
    /\ passes' \in Nat
    /\ raced' \subseteq raced /\ raced \ {n} \subseteq raced'

LEMMA EnrichesIs ==
    ASSUME CorpusTypeOK, NEW n \in Enricher, NEW s \in EnricherState, Enriches(n, s)
    PROVE  enricher'[n] = s /\ enricher' = [enricher EXCEPT ![n] = s]
BY DEF CorpusTypeOK, Enriches

\* A step that stores nothing has its goal from the new state of its run alone.
LEMMA QuietEnrichment ==
    ASSUME StoreInv, AnalysisInv, NEW n \in Enricher, NEW s \in EnricherState,
           Enriches(n, s), UNCHANGED <<row, relations, generation>>, passes' \in Nat,
           raced' = raced, EnricherOK(n)'
    PROVE  EnrichDone(n)
<1>1. CorpusTypeOK
  BY DEF StoreInv
<1>2. enricher'[n] = s /\ enricher' = [enricher EXCEPT ![n] = s]
  BY <1>1, EnrichesIs
<1>3. SameTexts
  BY <1>1, SameRow
<1>4. relations' \subseteq Relation /\ \A r \in relations' : r.generation <= generation
  BY <1>1 DEF CorpusTypeOK, AnalysisInv
<1>5. AnalysisIsOfItsUnits'
  BY DEF AnalysisInv, AnalysisIsOfItsUnits, LiveDocs
<1>6. QED
  BY <1>2, <1>3, <1>4, <1>5 DEF EnrichDone

LEMMA StepBeginEnrichment ==
    ASSUME StoreInv, AnalysisInv, NEW n \in Enricher, BeginEnrichment(n)
    PROVE  EnrichDone(n)
<1> DEFINE s == [enricher[n] EXCEPT !.at = "files", !.generation = generation]
<1>1. CorpusTypeOK /\ EnrichOnly /\ UNCHANGED <<row, relations>> /\ raced' = raced \ {n}
  BY DEF StoreInv, BeginEnrichment
<1>2. generation \in Nat /\ generation' = generation /\ passes' \in Nat
  BY <1>1, CorpusAssumption DEF CorpusTypeOK, EnrichOnly, BeginEnrichment, Begins
<1>3. enricher[n] \in EnricherState /\ enricher[n].at = "new" /\ EnricherOK(n)
  BY <1>1 DEF CorpusTypeOK, BeginEnrichment, EnricherAt, AnalysisInv
<1>4. /\ s \in EnricherState /\ s.at = "files" /\ s.generation = generation
      /\ s.units = {} /\ s.unhovered = {}
  BY <1>2, <1>3 DEF EnricherState, EnricherOK
<1>5. enricher'[n] = s /\ enricher' = [enricher EXCEPT ![n] = s]
  <2>1. Enriches(n, s)
    BY DEF BeginEnrichment
  <2> HIDE DEF s
  <2>2. QED
    BY <1>1, <1>4, <2>1, EnrichesIs
<1> HIDE DEF s
<1>6. EnricherOK(n)'
  BY <1>2, <1>4, <1>5 DEF EnricherOK
<1>7. SameTexts
  BY <1>1, SameRow
<1>8. AnalysisIsOfItsUnits'
  BY <1>1, <1>2 DEF AnalysisInv, AnalysisIsOfItsUnits, LiveDocs
<1>9. QED
  BY <1>1, <1>2, <1>4, <1>5, <1>6, <1>7, <1>8 DEF EnrichDone, CorpusTypeOK, AnalysisInv

LEMMA StepListFiles ==
    ASSUME StoreInv, AnalysisInv, NEW n \in Enricher, ListFiles(n)
    PROVE  EnrichDone(n)
<1> DEFINE s == [enricher[n] EXCEPT !.at = "units",
                                    !.unlisted = {row[d].id : d \in LiveDocs}]
<1>1. /\ CorpusTypeOK /\ EnrichOnly /\ UNCHANGED <<row, relations, passes, raced>>
      /\ Enriches(n, s)
  BY DEF StoreInv, ListFiles
<1>2. generation' = generation /\ passes' \in Nat
  BY <1>1 DEF CorpusTypeOK, EnrichOnly
<1>3. enricher[n] \in EnricherState /\ EnricherOK(n)
  BY <1>1 DEF CorpusTypeOK, AnalysisInv
<1>4. {row[d].id : d \in LiveDocs} \subseteq Nat
  BY <1>1 DEF CorpusTypeOK, LiveDocs, Row
<1>5. /\ s \in EnricherState /\ s.at = "units" /\ s.generation = enricher[n].generation
      /\ s.units = enricher[n].units /\ s.unhovered = enricher[n].unhovered
  BY <1>3, <1>4 DEF EnricherState
<1> HIDE DEF s
<1>6. enricher'[n] = s
  BY <1>1, <1>5, EnrichesIs
<1>7. EnricherOK(n)'
  BY <1>1, <1>2, <1>3, <1>5, <1>6 DEF EnricherOK, LiveDocs
<1>8. QED
  BY <1>1, <1>2, <1>5, <1>7, QuietEnrichment

LEMMA StepListUnits ==
    ASSUME StoreInv, AnalysisInv, NEW n \in Enricher, ListUnits(n)
    PROVE  EnrichDone(n)
<1> DEFINE old == enricher[n]
           id == Min(old.unlisted)
           listed == {[doc |-> d, id |-> id] : d \in {x \in LiveDocs : row[x].id = id}}
           s == [old EXCEPT !.at = "hover", !.unhovered = old.units]
           t == [old EXCEPT !.unlisted = @ \ {id}, !.units = @ \cup listed]
<1>1. CorpusTypeOK /\ EnrichOnly /\ UNCHANGED <<row, relations, passes, raced>>
  BY DEF StoreInv, ListUnits
<1>2. generation' = generation /\ passes' \in Nat
  BY <1>1 DEF CorpusTypeOK, EnrichOnly
<1>3. old \in EnricherState /\ EnricherOK(n) /\ old.at = "units"
  BY <1>1 DEF CorpusTypeOK, AnalysisInv, ListUnits, EnricherAt
<1>4. CASE Enriches(n, s)
  <2>1. /\ s \in EnricherState /\ s.at = "hover" /\ s.generation = old.generation
        /\ s.units = old.units /\ s.unhovered = old.units
    BY <1>3 DEF EnricherState
  <2> HIDE DEF s
  <2>2. enricher'[n] = s
    BY <1>1, <1>4, <2>1, EnrichesIs
  <2>3. EnricherOK(n)'
    BY <1>1, <1>2, <1>3, <2>1, <2>2 DEF EnricherOK, LiveDocs
  <2>4. QED
    BY <1>1, <1>2, <1>4, <2>1, <2>3, QuietEnrichment
<1>5. CASE Enriches(n, t)
  <2>1. \A u \in listed : u \in Unit /\ u.doc \in LiveDocs /\ row[u.doc].id = u.id
    BY <1>1 DEF LiveDocs, Unit, CorpusTypeOK, Row
  <2> HIDE DEF listed, id
  <2>2. /\ t \in EnricherState /\ t.at = "units" /\ t.generation = old.generation
        /\ t.units = old.units \cup listed /\ t.unhovered = old.unhovered
    BY <1>3, <2>1 DEF EnricherState
  <2> HIDE DEF t
  <2>3. enricher'[n] = t
    BY <1>1, <1>5, <2>2, EnrichesIs
  <2>4. EnricherOK(n)'
    BY <1>1, <1>2, <1>3, <2>1, <2>2, <2>3 DEF EnricherOK, LiveDocs
  <2>5. QED
    BY <1>1, <1>2, <1>5, <2>2, <2>4, QuietEnrichment
<1>6. Enriches(n, s) \/ Enriches(n, t)
  BY DEF ListUnits
<1>7. QED
  BY <1>4, <1>5, <1>6

\* A signature goes to the unit it was computed for, unless a publication
\* overtook the run: nobody else has the id.
LEMMA StepHover ==
    ASSUME StoreInv, AnalysisInv, NEW n \in Enricher, Hover(n)
    PROVE  EnrichDone(n)
<1> DEFINE old == enricher[n]
           targets(u) == {d \in LiveDocs : row[d].id = u.id}
           next(u) == [old EXCEPT !.unhovered = @ \ {u}]
           gone == [NewEnricher EXCEPT !.at = "failed"]
           found(u) == [of |-> u.doc, raced |-> n \in raced]
           signed(u) == [d \in Doc |-> IF d \in targets(u)
                                       THEN [row[d] EXCEPT !.signature = found(u)]
                                       ELSE row[d]]
<1>1. CorpusTypeOK /\ EnrichOnly /\ UNCHANGED <<relations, passes, raced>>
  BY DEF StoreInv, Hover
<1>2. generation' = generation /\ passes' \in Nat
  BY <1>1 DEF CorpusTypeOK, EnrichOnly
<1>3. old \in EnricherState /\ EnricherOK(n) /\ old.at = "hover"
  BY <1>1 DEF CorpusTypeOK, AnalysisInv, Hover, EnricherAt
<1>4. PICK u \in old.unhovered :
        \/ row' = signed(u) /\ Enriches(n, next(u))
        \/ Enriches(n, gone) /\ UNCHANGED row
        \/ Enriches(n, next(u)) /\ UNCHANGED row
  BY DEF Hover
<1>5. u \in Unit /\ u \in old.units
  BY <1>3 DEF EnricherState, EnricherOK
<1> DEFINE t == next(u)
<1>6. /\ t \in EnricherState /\ t.at = "hover" /\ t.generation = old.generation
      /\ t.units = old.units /\ t.unhovered \subseteq t.units
  BY <1>3 DEF EnricherState, EnricherOK
<1>7. /\ gone \in EnricherState /\ gone.at = "failed" /\ gone.units = {}
      /\ gone.unhovered = {} /\ gone.generation = 0
  BY DEF NewEnricher, EnricherState
<1>8. CASE Enriches(n, gone) /\ UNCHANGED row
  <2> HIDE DEF gone
  <2>1. enricher'[n] = gone
    BY <1>1, <1>7, <1>8, EnrichesIs
  <2>2. generation \in Nat
    BY <1>1, CorpusAssumption DEF CorpusTypeOK
  <2>3. EnricherOK(n)'
    BY <1>2, <1>7, <2>1, <2>2 DEF EnricherOK
  <2>4. QED
    BY <1>1, <1>2, <1>7, <1>8, <2>3, QuietEnrichment
<1>9. CASE Enriches(n, t) /\ UNCHANGED row
  <2> HIDE DEF t, next
  <2>1. enricher'[n] = t
    BY <1>1, <1>6, <1>9, EnrichesIs
  <2>2. EnricherOK(n)'
    BY <1>1, <1>2, <1>3, <1>6, <1>9, <2>1 DEF EnricherOK, LiveDocs
  <2>3. QED
    BY <1>1, <1>2, <1>6, <1>9, <2>2, QuietEnrichment
<1>10. CASE row' = signed(u) /\ Enriches(n, t)
  <2>1. found(u) \in Signature /\ found(u).of = u.doc /\ found(u).raced = (n \in raced)
    BY <1>5 DEF Signature, Unit
  <2>2. row \in [Doc -> Row \cup {None}] /\ targets(u) \subseteq LiveDocs
    BY <1>1 DEF CorpusTypeOK
  <2> HIDE DEF found
  <2>3. \A d \in LiveDocs : row[d] \in Row /\ d \in Doc
    BY <2>2 DEF LiveDocs
  <2>4. \A d \in targets(u) : LET r == [row[d] EXCEPT !.signature = found(u)]
                              IN  r \in Row /\ r # None /\ r.id = row[d].id
                                  /\ r.text = row[d].text /\ r.signature = found(u)
    BY <2>1, <2>2, <2>3, NoneAssumption DEF Row
  <2>5. /\ \A d \in targets(u) : /\ row'[d] \in Row /\ row'[d] # None
                                 /\ row'[d].id = row[d].id /\ row'[d].text = row[d].text
                                 /\ row'[d].signature = found(u)
        /\ \A d \in Doc \ targets(u) : row'[d] = row[d]
        /\ row' = [d \in Doc |-> row'[d]]
    BY <1>10, <2>2, <2>3, <2>4
  <2> HIDE DEF targets, signed
  <2>6. RowsType(row')
    BY <2>2, <2>5 DEF RowsType
  <2>7. \A d \in Doc : row'[d] # None <=> row[d] # None
    BY <2>2, <2>5 DEF LiveDocs
  <2>8. SameTexts
    BY <2>2, <2>5, <2>6, <2>7 DEF SameTexts, LiveDocs
  <2>9. LiveDocs' = LiveDocs
    BY <2>8 DEF SameTexts
  <2> HIDE DEF t, next
  <2>10. enricher'[n] = t /\ enricher' = [enricher EXCEPT ![n] = t]
    BY <1>1, <1>6, <1>10, EnrichesIs
  <2>11. EnricherOK(n)'
    BY <1>1, <1>2, <1>3, <1>6, <2>8, <2>9, <2>10 DEF EnricherOK, SameTexts
  <2>12. ASSUME NEW d \in LiveDocs, row'[d].signature # None
         PROVE  row'[d].signature.of = d \/ row'[d].signature.raced
    <3>1. CASE d \notin targets(u)
      BY <2>3, <2>5, <2>12, <3>1 DEF AnalysisInv, AnalysisIsOfItsUnits
    <3>2. CASE d \in targets(u) /\ n \notin raced
      <4>1. u.doc \in LiveDocs /\ row[u.doc].id = u.id
        BY <1>3, <1>5, <3>2 DEF EnricherOK
      <4>2. row[d].id = u.id
        BY <3>2 DEF targets
      <4>3. d = u.doc
        BY <4>1, <4>2 DEF StoreInv, UniqueIn, LiveIn, LiveDocs
      <4>4. QED
        BY <2>1, <2>5, <3>2, <4>3
    <3>3. CASE d \in targets(u) /\ n \in raced
      BY <2>1, <2>5, <3>3
    <3>4. QED
      BY <3>1, <3>2, <3>3
  <2>13. AnalysisIsOfItsUnits'
    BY <1>1, <1>2, <2>9, <2>12 DEF AnalysisInv, AnalysisIsOfItsUnits
  <2>14. QED
    BY <1>1, <1>2, <1>6, <2>8, <2>10, <2>11, <2>13 DEF EnrichDone, CorpusTypeOK, AnalysisInv
<1>11. QED
  BY <1>4, <1>8, <1>9, <1>10

LEMMA StepHovered ==
    ASSUME StoreInv, AnalysisInv, NEW n \in Enricher, Hovered(n)
    PROVE  EnrichDone(n)
<1> DEFINE s == [enricher[n] EXCEPT !.at = "relations"]
<1>1. /\ CorpusTypeOK /\ EnrichOnly /\ UNCHANGED <<row, relations, passes, raced>>
      /\ Enriches(n, s)
  BY DEF StoreInv, Hovered
<1>2. generation' = generation /\ passes' \in Nat
  BY <1>1 DEF CorpusTypeOK, EnrichOnly
<1>3. enricher[n] \in EnricherState /\ EnricherOK(n)
  BY <1>1 DEF CorpusTypeOK, AnalysisInv
<1>4. /\ s \in EnricherState /\ s.at = "relations" /\ s.generation = enricher[n].generation
      /\ s.units = enricher[n].units /\ s.unhovered = enricher[n].unhovered
  BY <1>3 DEF EnricherState
<1> HIDE DEF s
<1>5. enricher'[n] = s
  BY <1>1, <1>4, EnrichesIs
<1>6. EnricherOK(n)'
  BY <1>1, <1>2, <1>3, <1>4, <1>5 DEF EnricherOK, LiveDocs
<1>7. QED
  BY <1>1, <1>2, <1>4, <1>6, QuietEnrichment

LEMMA StepRelate ==
    ASSUME StoreInv, AnalysisInv, NEW n \in Enricher, Relate(n)
    PROVE  EnrichDone(n)
<1> DEFINE old == enricher[n]
           g == old.generation
           seen == {u.doc : u \in old.units}
           new == [generation : {g}, from : seen, to : seen]
           s == [NewEnricher EXCEPT !.at = "done"]
<1>1. /\ CorpusTypeOK /\ EnrichOnly /\ UNCHANGED <<row, passes, raced>>
      /\ Enriches(n, s)
      /\ relations' = {r \in relations : r.generation # g} \cup new
  BY DEF StoreInv, Relate, GenerationOf
<1>2. generation' = generation /\ passes' \in Nat /\ generation \in Nat
  BY <1>1, CorpusAssumption DEF CorpusTypeOK, EnrichOnly
<1>3. old \in EnricherState /\ EnricherOK(n)
  BY <1>1 DEF CorpusTypeOK, AnalysisInv
<1>4. /\ s \in EnricherState /\ s.at = "done" /\ s.units = {}
      /\ s.unhovered = {} /\ s.generation = 0
  BY DEF NewEnricher, EnricherState
<1> HIDE DEF s
<1>5. enricher'[n] = s /\ enricher' = [enricher EXCEPT ![n] = s]
  BY <1>1, <1>4, EnrichesIs
<1>6. EnricherOK(n)'
  BY <1>2, <1>4, <1>5 DEF EnricherOK
<1>7. seen \subseteq Doc /\ g \in Nat
  BY <1>3 DEF EnricherState, Unit
<1>8. \A r \in new : r \in Relation /\ r.generation = g /\ r.from \in seen /\ r.to \in seen
  BY <1>7 DEF Relation
<1>9. g <= generation /\ (g = generation => seen \subseteq LiveDocs)
  BY <1>3 DEF EnricherOK
<1> HIDE DEF seen, new, g
<1>10. /\ relations' \subseteq Relation
       /\ \A r \in relations' : r.generation <= generation
       /\ \A r \in relations' : r.generation = generation => {r.from, r.to} \subseteq LiveDocs
  BY <1>1, <1>8, <1>9 DEF CorpusTypeOK, AnalysisInv, AnalysisIsOfItsUnits
<1>11. SameTexts
  BY <1>1, SameRow
<1>12. AnalysisIsOfItsUnits'
  BY <1>1, <1>2, <1>10 DEF AnalysisInv, AnalysisIsOfItsUnits, LiveDocs
<1>13. QED
  BY <1>1, <1>2, <1>4, <1>5, <1>6, <1>10, <1>11, <1>12 DEF EnrichDone

LEMMA EnrichKeeps ==
    ASSUME StoreInv, LoopInv, AnalysisInv, NEW n \in Enricher, Enrich(n)
    PROVE  StoreInv' /\ LoopInv' /\ AnalysisInv' /\ SameTexts /\ EnrichOnly
<1>1. EnrichDone(n) /\ EnrichOnly
  <2>1. EnrichOnly
    BY DEF Enrich, BeginEnrichment, ListFiles, ListUnits, Hover, Hovered, Relate
  <2>2. QED
    BY <2>1, StepBeginEnrichment, StepListFiles, StepListUnits, StepHover, StepHovered,
       StepRelate DEF Enrich
<1>2. UNCHANGED <<source, retained, lexical, generation, vectors, space, embedder, reader,
                  edits, published, steady>>
  BY <1>1 DEF EnrichOnly
<1>3. CorpusTypeOK
  BY DEF StoreInv
<1>4. enricher' \in [Enricher -> EnricherState] /\ raced' \subseteq Enricher
  BY <1>1, <1>3 DEF EnrichDone, CorpusTypeOK
<1>5. CorpusTypeOK'
  BY <1>1, <1>2, <1>3, <1>4 DEF CorpusTypeOK, EnrichDone, SameTexts, RowsType
<1>6. StoreInv' /\ LoopInv'
  BY <1>1, <1>2, <1>5, QuietStore DEF EnrichDone
<1>7. ASSUME NEW o \in Enricher \ {n}
      PROVE  EnricherOK(o)'
  <2>1. EnricherOK(o) /\ enricher'[o] = enricher[o]
    BY <1>1, <1>3 DEF AnalysisInv, EnrichDone, CorpusTypeOK
  <2>2. o \notin raced' => o \notin raced
    BY <1>1 DEF EnrichDone
  <2>3. LiveDocs' = LiveDocs /\ \A d \in LiveDocs : row'[d].id = row[d].id
    BY <1>1 DEF EnrichDone, SameTexts
  <2>4. QED
    BY <1>2, <2>1, <2>2, <2>3 DEF EnricherOK
<1>8. AnalysisInv'
  BY <1>1, <1>2, <1>7 DEF AnalysisInv, EnrichDone
<1>9. QED
  BY <1>1, <1>6, <1>8 DEF EnrichDone

LEMMA PublishKeepsAnalysis ==
    ASSUME StoreInv, AnalysisInv, Publish
    PROVE  AnalysisInv'
<1>1. CorpusTypeOK
  BY DEF StoreInv
<1>2. /\ generation' = generation + 1 /\ generation \in Nat
      /\ raced' = {n \in Enricher : enricher[n].at # "new"}
      /\ row' = Inserted /\ UNCHANGED <<relations, enricher>>
  BY <1>1, CorpusAssumption DEF Publish, passVars, CorpusTypeOK
<1>3. ASSUME NEW n \in Enricher
      PROVE  EnricherOK(n)'
  <2>1. EnricherOK(n) /\ enricher[n].generation \in Nat
    BY <1>1 DEF AnalysisInv, CorpusTypeOK, EnricherState
  <2>2. /\ enricher[n].generation <= generation + 1
        /\ enricher[n].generation # generation + 1
    BY <1>2, <2>1 DEF EnricherOK
  <2>3. n \notin raced' => enricher[n].units = {}
    BY <1>2, <2>1 DEF EnricherOK
  <2>4. QED
    BY <1>2, <2>1, <2>2, <2>3 DEF EnricherOK
<1>4. \A r \in relations : r.generation \in Nat /\ r.generation <= generation
  BY <1>1 DEF CorpusTypeOK, AnalysisInv, Relation
<1>5. \A r \in relations' : r.generation <= generation' /\ r.generation # generation'
  BY <1>2, <1>4
<1>6. ASSUME NEW d \in LiveDocs', row'[d].signature # None
      PROVE  row'[d].signature.of = d \/ row'[d].signature.raced
  <2>1. d \in Doc /\ Inserted[d] # None
    BY <1>2 DEF LiveDocs
  <2>2. d \notin Replaced
    BY <1>1, <1>2, <1>6, <2>1, InsertedRows DEF CorpusTypeOK, RowsType
  <2>3. row'[d] = row[d] /\ d \in LiveDocs
    BY <1>1, <1>2, <2>1, <2>2, InsertedRows DEF CorpusTypeOK, RowsType, LiveDocs
  <2>4. QED
    BY <1>6, <2>3 DEF AnalysisInv, AnalysisIsOfItsUnits
<1>7. QED
  BY <1>3, <1>5, <1>6 DEF AnalysisInv, AnalysisIsOfItsUnits

LEMMA AnalysisAlone ==
    ASSUME AnalysisInv, UNCHANGED <<row, generation, relations, enricher, raced>>
    PROVE  AnalysisInv'
BY DEF AnalysisInv, EnricherOK, AnalysisIsOfItsUnits, LiveDocs

-----------------------------------------------------------------------------
(* Snapshots.                                                              *)

DocsOf(listed) == {u.doc : u \in listed}

\* A snapshot that has begun is of one published generation.
ReaderOK(s) ==
    LET x == reader[s] IN
    /\ x.at \in {"vectors", "generation", "relations"} =>
         /\ x.pinned.generation \in 1 .. generation
         /\ x.units = published[x.pinned.generation]
         /\ \A r \in x.pinned.relations :
              r.generation = x.pinned.generation => {r.from, r.to} \subseteq DocsOf(x.units)
    /\ x.at = "relations" => x.generation = x.pinned.generation
    /\ x.at = "done" =>
         /\ x.generation \in 1 .. generation
         /\ x.units = published[x.generation]
         /\ \A r \in x.relations : {r.from, r.to} \subseteq DocsOf(x.units)

SnapshotInv ==
    /\ published[generation] = RowsOf(row)
    /\ \A s \in Reader : ReaderOK(s)

LEMMA ReadsIs ==
    ASSUME CorpusTypeOK, NEW s \in Reader, NEW x \in ReaderState, Reads(s, x)
    PROVE  /\ reader'[s] = x /\ reader' \in [Reader -> ReaderState]
           /\ \A o \in Reader \ {s} : reader'[o] = reader[o]
BY DEF CorpusTypeOK, Reads

LEMMA DatabaseIs ==
    ASSUME CorpusTypeOK
    PROVE  /\ Database \in DatabaseState
           /\ Database.units = RowsOf(row) /\ Database.generation = generation
           /\ Database.relations = relations
           /\ DocsOf(RowsOf(row)) = LiveDocs
<1>1. RowsOf(row) = {[doc |-> d, text |-> row[d].text] : d \in LiveDocs}
  BY DEF RowsOf, LiveDocs
<1>2. RowsOf(row) \subseteq Listed
  BY <1>1 DEF CorpusTypeOK, Row, Listed, LiveDocs
<1>3. generation \in Nat
  BY CorpusAssumption DEF CorpusTypeOK
<1>4. DocsOf(RowsOf(row)) = LiveDocs
  <2>1. ASSUME NEW d \in LiveDocs
        PROVE  d \in DocsOf(RowsOf(row))
    <3>1. [doc |-> d, text |-> row[d].text] \in RowsOf(row)
      BY <1>1
    <3>2. QED
      BY <3>1 DEF DocsOf
  <2>2. QED
    BY <1>1, <2>1 DEF DocsOf
<1>5. Database \in DatabaseState
  <2> DEFINE units == RowsOf(row)
  <2>1. units \in SUBSET Listed /\ vectors \in SUBSET Vector /\ relations \in SUBSET Relation
    BY <1>2 DEF CorpusTypeOK
  <2> HIDE DEF units
  <2>2. [units |-> units, vectors |-> vectors, generation |-> generation,
         relations |-> relations] \in DatabaseState
    BY <1>3, <2>1 DEF DatabaseState
  <2>3. QED
    BY <2>2 DEF Database, units
<1>6. QED
  BY <1>4, <1>5 DEF Database

\* What a step of one snapshot does.
SnapshotDone(s) ==
    /\ reader' \in [Reader -> ReaderState]
    /\ \A o \in Reader \ {s} : reader'[o] = reader[o]
    /\ ReaderOK(s)'
    /\ ReadOnly /\ passes' \in Nat

LEMMA StepReadUnits ==
    ASSUME StoreInv, AnalysisInv, SnapshotInv, NEW s \in Reader, ReadUnits(s)
    PROVE  SnapshotDone(s)
<1> DEFINE x == [reader[s] EXCEPT !.at = "vectors", !.pinned = Database,
                                  !.units = Database.units]
<1>1. CorpusTypeOK /\ ReadOnly /\ Reads(s, x) /\ passes' = passes + 1
  BY DEF StoreInv, ReadUnits, Begins
<1>2. reader[s] \in ReaderState /\ passes' \in Nat
  BY <1>1 DEF CorpusTypeOK
<1>3. /\ Database \in DatabaseState /\ Database.units = RowsOf(row)
      /\ Database.generation = generation /\ Database.relations = relations
      /\ DocsOf(RowsOf(row)) = LiveDocs /\ RowsOf(row) \subseteq Listed
  BY <1>1, DatabaseIs DEF DatabaseState
<1>4. /\ x \in ReaderState /\ x.at = "vectors" /\ x.pinned = Database
      /\ x.units = RowsOf(row)
  BY <1>2, <1>3 DEF ReaderState
<1> HIDE DEF x
<1>5. /\ reader'[s] = x /\ reader' \in [Reader -> ReaderState]
      /\ \A o \in Reader \ {s} : reader'[o] = reader[o]
  BY <1>1, <1>4, ReadsIs
<1>6. UNCHANGED <<generation, published>> /\ generation \in 1 .. generation
  BY <1>1, CorpusAssumption DEF ReadOnly, storeVars, history, CorpusTypeOK
<1>7. \A r \in relations : r.generation = generation => {r.from, r.to} \subseteq DocsOf(RowsOf(row))
  BY <1>3 DEF AnalysisInv, AnalysisIsOfItsUnits
<1>8. ReaderOK(s)'
  BY <1>3, <1>4, <1>5, <1>6, <1>7 DEF ReaderOK, SnapshotInv
<1>9. QED
  BY <1>1, <1>2, <1>5, <1>8 DEF SnapshotDone

LEMMA StepReadVectors ==
    ASSUME StoreInv, SnapshotInv, NEW s \in Reader, ReadVectors(s)
    PROVE  SnapshotDone(s)
<1> DEFINE old == reader[s]
           found == {v.hash : v \in Sees(s).vectors} \cap {u.text : u \in old.units}
           x == [old EXCEPT !.at = "generation", !.vectors = found]
<1>1. CorpusTypeOK /\ ReadOnly /\ Reads(s, x) /\ passes' = passes
  BY DEF StoreInv, ReadVectors
<1>2. old \in ReaderState /\ old.at = "vectors" /\ passes' \in Nat /\ ReaderOK(s)
  BY <1>1 DEF CorpusTypeOK, ReadVectors, ReaderAt, SnapshotInv
<1>3. found \subseteq Text
  BY <1>2 DEF ReaderState, Listed
<1> HIDE DEF found
<1>4. /\ x \in ReaderState /\ x.at = "generation" /\ x.pinned = old.pinned
      /\ x.units = old.units
  BY <1>2, <1>3 DEF ReaderState
<1> HIDE DEF x
<1>5. /\ reader'[s] = x /\ reader' \in [Reader -> ReaderState]
      /\ \A o \in Reader \ {s} : reader'[o] = reader[o]
  BY <1>1, <1>4, ReadsIs
<1>6. UNCHANGED <<generation, published>>
  BY <1>1 DEF ReadOnly, storeVars, history
<1>7. ReaderOK(s)'
  BY <1>2, <1>4, <1>5, <1>6 DEF ReaderOK
<1>8. QED
  BY <1>1, <1>2, <1>5, <1>7 DEF SnapshotDone

LEMMA StepReadGeneration ==
    ASSUME StoreInv, SnapshotInv, NEW s \in Reader, ReadGeneration(s)
    PROVE  SnapshotDone(s)
<1> DEFINE old == reader[s]
           x == [old EXCEPT !.at = "relations", !.generation = Sees(s).generation]
<1>1. CorpusTypeOK /\ ReadOnly /\ Reads(s, x) /\ passes' = passes
  BY DEF StoreInv, ReadGeneration
<1>2. old \in ReaderState /\ old.at = "generation" /\ passes' \in Nat /\ ReaderOK(s)
  BY <1>1 DEF CorpusTypeOK, ReadGeneration, ReaderAt, SnapshotInv
<1>3. /\ x \in ReaderState /\ x.at = "relations" /\ x.pinned = old.pinned
      /\ x.units = old.units /\ x.generation = old.pinned.generation
  BY <1>2 DEF ReaderState, DatabaseState, Sees
<1> HIDE DEF x
<1>4. /\ reader'[s] = x /\ reader' \in [Reader -> ReaderState]
      /\ \A o \in Reader \ {s} : reader'[o] = reader[o]
  BY <1>1, <1>3, ReadsIs
<1>5. UNCHANGED <<generation, published>>
  BY <1>1 DEF ReadOnly, storeVars, history
<1>6. ReaderOK(s)'
  BY <1>2, <1>3, <1>4, <1>5 DEF ReaderOK
<1>7. QED
  BY <1>1, <1>2, <1>4, <1>6 DEF SnapshotDone

LEMMA StepReadRelations ==
    ASSUME StoreInv, SnapshotInv, NEW s \in Reader, ReadRelations(s)
    PROVE  SnapshotDone(s)
<1> DEFINE old == reader[s]
           found == {r \in Sees(s).relations : r.generation = old.generation}
           x == [old EXCEPT !.at = "done", !.pinned = Nothing, !.relations = found]
<1>1. CorpusTypeOK /\ ReadOnly /\ Reads(s, x) /\ passes' = passes
  BY DEF StoreInv, ReadRelations
<1>2. old \in ReaderState /\ old.at = "relations" /\ passes' \in Nat /\ ReaderOK(s)
  BY <1>1 DEF CorpusTypeOK, ReadRelations, ReaderAt, SnapshotInv
<1>3. found \subseteq Relation /\ found = {r \in old.pinned.relations : r.generation = old.generation}
  BY <1>2 DEF ReaderState, DatabaseState, Sees
<1> HIDE DEF found
<1>4. Nothing \in DatabaseState
  BY DEF Nothing, DatabaseState
<1>5. /\ x \in ReaderState /\ x.at = "done" /\ x.units = old.units
      /\ x.generation = old.generation /\ x.relations = found
  BY <1>2, <1>3, <1>4 DEF ReaderState
<1> HIDE DEF x
<1>6. /\ reader'[s] = x /\ reader' \in [Reader -> ReaderState]
      /\ \A o \in Reader \ {s} : reader'[o] = reader[o]
  BY <1>1, <1>5, ReadsIs
<1>7. UNCHANGED <<generation, published>>
  BY <1>1 DEF ReadOnly, storeVars, history
<1>8. ReaderOK(s)'
  BY <1>2, <1>3, <1>5, <1>6, <1>7 DEF ReaderOK
<1>9. QED
  BY <1>1, <1>2, <1>6, <1>8 DEF SnapshotDone

LEMMA SnapshotKeeps ==
    ASSUME StoreInv, LoopInv, AnalysisInv, SnapshotInv, NEW s \in Reader, Snapshot(s)
    PROVE  StoreInv' /\ LoopInv' /\ AnalysisInv' /\ SnapshotInv'
<1>1. SnapshotDone(s)
  BY StepReadUnits, StepReadVectors, StepReadGeneration, StepReadRelations DEF Snapshot
<1>2. UNCHANGED <<source, retained, row, lexical, generation, vectors, space, relations,
                  embedder, enricher, edits, published, steady, raced>>
  BY <1>1 DEF SnapshotDone, ReadOnly, storeVars, history
<1>3. CorpusTypeOK
  BY DEF StoreInv
<1>4. CorpusTypeOK'
  BY <1>1, <1>2, <1>3 DEF CorpusTypeOK, SnapshotDone
<1>5. StoreInv' /\ LoopInv'
  BY <1>2, <1>3, <1>4, SameRow, QuietStore
<1>6. AnalysisInv'
  BY <1>2, AnalysisAlone
<1>7. ASSUME NEW o \in Reader
      PROVE  ReaderOK(o)'
  <2>1. CASE o = s
    BY <1>1, <2>1 DEF SnapshotDone
  <2>2. CASE o # s
    BY <1>1, <1>2, <2>2 DEF SnapshotInv, SnapshotDone, ReaderOK
  <2>3. QED
    BY <2>1, <2>2
<1>8. SnapshotInv'
  BY <1>2, <1>7 DEF SnapshotInv
<1>9. QED
  BY <1>5, <1>6, <1>8

LEMMA PublishKeepsSnapshots ==
    ASSUME StoreInv, SnapshotInv, Publish
    PROVE  SnapshotInv'
<1>1. CorpusTypeOK
  BY DEF StoreInv
<1>2. /\ generation < MaxPublish /\ generation' = generation + 1 /\ row' = Inserted
      /\ published' = [published EXCEPT ![generation + 1] = RowsOf(Inserted)]
      /\ reader' = reader
  BY DEF Publish, passVars
<1>3. RowsOf(row') = RowsOf(Inserted)
  BY PublishedRows
<1>4. generation \in 1 .. MaxPublish /\ generation + 1 \in 1 .. MaxPublish
  BY <1>1, <1>2, CorpusAssumption DEF CorpusTypeOK
<1>5. /\ published'[generation + 1] = RowsOf(Inserted)
      /\ \A g \in 1 .. generation : g \in 1 .. generation + 1 /\ published'[g] = published[g]
  BY <1>1, <1>2, <1>4, CorpusAssumption DEF CorpusTypeOK
<1>6. ASSUME NEW s \in Reader
      PROVE  ReaderOK(s)'
  <2>1. ReaderOK(s)
    BY DEF SnapshotInv
  <2>2. QED
    BY <1>2, <1>5, <2>1 DEF ReaderOK
<1>7. published'[generation'] = RowsOf(row')
  BY <1>2, <1>3, <1>5
<1>8. QED
  BY <1>6, <1>7 DEF SnapshotInv

LEMMA SnapshotsAlone ==
    ASSUME SnapshotInv, RowsOf(row') = RowsOf(row), UNCHANGED <<generation, published, reader>>
    PROVE  SnapshotInv'
<1>1. \A s \in Reader : ReaderOK(s)'
  BY DEF SnapshotInv, ReaderOK
<1>2. published'[generation'] = RowsOf(row')
  BY DEF SnapshotInv
<1>3. QED
  BY <1>1, <1>2 DEF SnapshotInv

-----------------------------------------------------------------------------
(* The theorems.                                                           *)

CorpusInv == StoreInv /\ LoopInv /\ AnalysisInv /\ SnapshotInv

LEMMA InitCorpus == Init => CorpusInv
<1> SUFFICES ASSUME Init
             PROVE  CorpusInv
  OBVIOUS
<1> DEFINE Rank(d) == Cardinality({x \in Doc : x <= d /\ source[x] # None})
           there == {x \in Doc : source[x] # None}
<1>1. source \in [Doc -> Text \cup {None}] /\ retained \in BOOLEAN
  BY CorpusAssumption DEF Init
<1>2. there \in SUBSET Nat /\ IsFiniteSet(there) /\ there \subseteq Doc
  BY CorpusAssumption, FS_Subset
<1>3. \A d \in there : {x \in Doc : x <= d /\ source[x] # None} = {x \in there : x <= d}
  OBVIOUS
<1>4. /\ \A d \in there : Rank(d) \in Nat
      /\ \A d, e \in there : d < e => Rank(d) < Rank(e)
  <2> HIDE DEF there
  <2>1. \A d \in there : Rank(d) = Cardinality({x \in there : x <= d})
    BY <1>3
  <2> HIDE DEF Rank
  <2>2. QED
    BY <1>2, <2>1, RankGrows
<1>5. row = [d \in Doc |-> IF source[d] = None THEN None
                           ELSE [id |-> Rank(d), text |-> source[d], signature |-> None]]
  BY DEF Init
<1>6. \A d \in there : /\ row[d] \in Row /\ row[d] # None /\ row[d].id = Rank(d)
                       /\ row[d].signature = None
  <2> HIDE DEF Rank
  <2>1. \A d \in there : source[d] \in Text /\ source[d] # None /\ d \in Doc
    BY <1>1, <1>2
  <2>2. \A d \in there : [id |-> Rank(d), text |-> source[d], signature |-> None] \in Row
    BY <1>4, <2>1 DEF Row
  <2>3. QED
    BY <1>5, <2>1, <2>2, NoneAssumption
<1>7. \A d \in Doc : d \in there \/ row[d] = None
  BY <1>5
<1>8. LiveDocs = there
  BY <1>2, <1>6, <1>7 DEF LiveDocs
<1>9. RowsType(row)
  <2>1. \A d \in Doc : row[d] \in Row \cup {None}
    BY <1>6, <1>7
  <2>2. row = [d \in Doc |-> row[d]]
    BY <1>5
  <2>3. QED
    BY <2>1, <2>2 DEF RowsType
<1>10. UniqueIn(row)
  <2> HIDE DEF there, Rank
  <2>1. \A d, e \in there : Rank(d) = Rank(e) => d = e
    <3>1. \A d \in there : d \in Nat /\ Rank(d) \in Nat
      BY <1>2, <1>4
    <3>2. QED
      BY <1>4, <3>1
  <2>2. QED
    BY <1>6, <1>8, <2>1 DEF UniqueIn, LiveIn, LiveDocs
<1>11. lexical \subseteq [id : Nat, text : Text]
  <2>1. lexical = {[id |-> row[d].id, text |-> row[d].text] : d \in LiveDocs}
    BY DEF Init
  <2>2. QED
    BY <1>9, <2>1 DEF RowsType, LiveDocs, Row
<1>12. /\ NewEmbedder \in EmbedderState /\ NewEnricher \in EnricherState
       /\ NewReader \in ReaderState
  BY DEF NewEmbedder, EmbedderState, NewEnricher, EnricherState, NewReader, ReaderState,
         Nothing, DatabaseState
<1>13. RowsOf(row) \subseteq Listed
  BY <1>9 DEF RowsOf, RowsType, Row, Listed
<1>14. /\ generation = 1 /\ vectors = {} /\ space = None /\ relations = {}
       /\ embedder = [e \in Embedder |-> NewEmbedder]
       /\ enricher = [n \in Enricher |-> NewEnricher]
       /\ reader = [s \in Reader |-> NewReader]
       /\ edits = 0 /\ passes = 0 /\ steady = [e \in Embedder |-> {}] /\ raced = {}
       /\ published = [g \in 1 .. MaxPublish |-> IF g = 1 THEN RowsOf(row) ELSE {}]
  BY DEF Init
<1>15. 1 \in 1 .. MaxPublish
  BY CorpusAssumption
<1>16. published \in [1 .. MaxPublish -> SUBSET Listed] /\ published[generation] = RowsOf(row)
  BY <1>13, <1>14, <1>15
<1> HIDE DEF there, Rank
<1>17. CorpusTypeOK
  BY <1>1, <1>9, <1>11, <1>12, <1>14, <1>15, <1>16 DEF CorpusTypeOK, RowsType
<1>18. StoreInv
  <2>1. NothingOutlivesItsUnit
    BY <1>14 DEF NothingOutlivesItsUnit, Embedded, Init
  <2>2. VectorsMeanTheirHash
    BY <1>14 DEF VectorsMeanTheirHash
  <2>3. QED
    BY <1>10, <1>17, <2>1, <2>2 DEF StoreInv
<1>19. LoopInv
  BY <1>14 DEF LoopInv, EmbedderOK, NewEmbedder, Pages
<1>20. AnalysisInv
  <2>1. \A n \in Enricher : EnricherOK(n)
    BY <1>14 DEF EnricherOK, NewEnricher
  <2>2. AnalysisIsOfItsUnits
    BY <1>6, <1>8, <1>14 DEF AnalysisIsOfItsUnits
  <2>3. QED
    BY <1>14, <2>1, <2>2 DEF AnalysisInv
<1>21. SnapshotInv
  BY <1>14, <1>16 DEF SnapshotInv, ReaderOK, NewReader
<1>22. QED
  BY <1>18, <1>19, <1>20, <1>21 DEF CorpusInv

LEMMA NextCorpus == CorpusInv /\ [Next]_vars => CorpusInv'
<1> SUFFICES ASSUME CorpusInv, [Next]_vars
             PROVE  CorpusInv'
  OBVIOUS
<1> USE DEF CorpusInv
<1>1. CASE Publish
  BY <1>1, PublishKeepsStore, PublishKeepsAnalysis, PublishKeepsSnapshots
<1>2. ASSUME NEW d \in Doc, NEW text \in Text \cup {None}, Edit(d, text)
      PROVE  CorpusInv'
  <2>1. UNCHANGED <<row, generation, relations, enricher, raced, published, reader>>
    BY <1>2 DEF Edit, storeVars, passVars, history
  <2>2. RowsOf(row') = RowsOf(row)
    BY <2>1
  <2>3. QED
    BY <1>2, <2>1, <2>2, EditKeepsStore, AnalysisAlone, SnapshotsAlone
<1>3. ASSUME NEW e \in Embedder, Embed(e)
      PROVE  CorpusInv'
  <2>1. UNCHANGED <<row, generation, relations, enricher, raced, published, reader>>
    BY <1>3, EmbedIsDone DEF EmbedOnly
  <2>2. RowsOf(row') = RowsOf(row)
    BY <2>1
  <2>3. QED
    BY <1>3, <2>1, <2>2, EmbedKeepsStore, AnalysisAlone, SnapshotsAlone
<1>4. ASSUME NEW n \in Enricher, Enrich(n)
      PROVE  CorpusInv'
  <2>1. SameTexts /\ UNCHANGED <<generation, published, reader>>
    BY <1>4, EnrichKeeps DEF EnrichOnly
  <2>2. RowsOf(row') = RowsOf(row)
    BY <2>1, SameTextsMeans
  <2>3. QED
    BY <1>4, <2>1, <2>2, EnrichKeeps, SnapshotsAlone
<1>5. ASSUME NEW s \in Reader, Snapshot(s)
      PROVE  CorpusInv'
  BY <1>5, SnapshotKeeps
<1>6. CASE UNCHANGED vars
  <2>1. UNCHANGED <<source, retained, row, lexical, generation, vectors, space, relations,
                    embedder, enricher, reader, edits, passes, published, steady, raced>>
    BY <1>6 DEF vars, storeVars, passVars, history
  <2>2. CorpusTypeOK' /\ CorpusTypeOK
    BY <2>1 DEF StoreInv, CorpusTypeOK
  <2>3. RowsOf(row') = RowsOf(row)
    BY <2>1
  <2>4. QED
    BY <2>1, <2>2, <2>3, SameRow, QuietStore, AnalysisAlone, SnapshotsAlone
<1>7. QED
  BY <1>1, <1>2, <1>3, <1>4, <1>5, <1>6 DEF Next

\* Every variable has its type, whatever is published while passes go on.
THEOREM CorpusTypeCorrect == Spec => []CorpusTypeOK
<1>1. CorpusInv => CorpusTypeOK
  BY DEF CorpusInv, StoreInv
<1>2. QED
  BY InitCorpus, NextCorpus, <1>1, PTL DEF Spec

\* The sweep of publish_sources and the check of insert_embeddings together
\* leave no vector without its unit, and the rows cleared from the lexical
\* index are those of the units that go: rowids are unique among live units.
THEOREM NoOrphans == Spec => []NothingOutlivesItsUnit
<1>1. CorpusInv => NothingOutlivesItsUnit
  BY DEF CorpusInv, StoreInv
<1>2. QED
  BY InitCorpus, NextCorpus, <1>1, PTL DEF Spec

\* Texts are stored under the hash they were recovered by, and only by loops
\* whose contract is that of the space, which never changes once it is created.
THEOREM VectorsAreMeant == Spec => []VectorsMeanTheirHash
<1>1. CorpusInv => VectorsMeanTheirHash
  BY DEF CorpusInv, StoreInv
<1>2. QED
  BY InitCorpus, NextCorpus, <1>1, PTL DEF Spec

\* A loop that ends has passed every hash that was live since it began: what is
\* pending lies beyond its cursor, and what it took is stored, counted as
\* unresolved or no longer live.
THEOREM EmbeddingIsComplete == Spec => []FinishedEmbeddingIsComplete
<1>1. CorpusInv => FinishedEmbeddingIsComplete
  <2> SUFFICES ASSUME CorpusInv, NEW e \in Embedder, EmbedderAt(e, "done")
               PROVE  steady[e] \subseteq Embedded \cup embedder[e].unresolved
    BY DEF FinishedEmbeddingIsComplete
  <2>1. EmbedderOK(e) /\ embedder[e].at = "done"
    BY DEF CorpusInv, LoopInv, EmbedderAt
  <2>2. QED
    BY <2>1 DEF EmbedderOK, Seen, Hashes
<1>2. QED
  BY InitCorpus, NextCorpus, <1>1, PTL DEF Spec

\* The snapshot's transaction sees what its first statement saw, so its units,
\* its generation and its relations are those of one publication.
THEOREM SnapshotsAreOneGeneration == Spec => []SnapshotIsOneGeneration
<1>1. CorpusInv => SnapshotIsOneGeneration
  BY DEF CorpusInv, SnapshotInv, ReaderOK, SnapshotIsOneGeneration, ReaderAt, DocsOf
<1>2. QED
  BY InitCorpus, NextCorpus, <1>1, PTL DEF Spec

\* Relations name the generation their pass began with, and an id a pass holds
\* is that of its unit as long as nothing was published since it began.
THEOREM AnalysisIsOfItsUnit == Spec => []AnalysisIsOfItsUnits
<1>1. CorpusInv => AnalysisIsOfItsUnits
  BY DEF CorpusInv, AnalysisInv
<1>2. QED
  BY InitCorpus, NextCorpus, <1>1, PTL DEF Spec

=============================================================================
