---------------------------- MODULE BatchPacking ----------------------------
(***************************************************************************)
(* One pass of the embedding loop over a store nobody publishes to         *)
(* (indexer's embed_space, embedding's pack_batches and MemoryGuard): the  *)
(* unembedded texts page by page, packed into batches that the memory of   *)
(* a padded tensor bounds, the model released while memory is short.       *)
(* A text is the number of its characters and of its rendered tokens; its  *)
(* hash is its position.                                                   *)
(***************************************************************************)
EXTENDS Naturals, Sequences, FiniteSets, SequencesExt, FiniteSetsExt

CONSTANTS
    Texts,        \* the stores: sequences of [chars, tokens]
    Settings,     \* [items, chars, area, page, prompts, own, padded], see below
    MaxSequence,  \* tokens a model attends to, at least one
    PauseBelow,
    ResumeAbove,
    Memory,       \* what is available, or Unmeasured
    Unmeasured

\* own are the limits a remote backend asks for, or Unmeasured; prompts says
\* whether the contract and the space render a document.
ASSUME PackingAssumption ==
    /\ Texts \subseteq Seq([chars : Nat, tokens : Nat])
    /\ \A s \in Settings :
          /\ {s.items, s.area, s.page} \subseteq Nat \ {0} /\ s.chars \in Nat
          /\ s.own # Unmeasured => s.own.items \in Nat /\ s.own.chars \in Nat
    /\ MaxSequence \in Nat \ {0}
    /\ ResumeAbove >= PauseBelow  \* MemoryGuard::new
    /\ Unmeasured \notin Nat

VARIABLES
    pass,      \* where the pass is
    setting,
    texts,
    cursor,    \* after_hash
    page,      \* the hashes of the page, longest text first
    batches,   \* of the page, from place to place, those not yet embedded
    embedded,  \* the hashes in the order they were stored
    loaded     \* whether the model holds its memory

packingVars == <<pass, setting, texts, cursor, page, batches, embedded, loaded>>

Tokens(h) == IF texts[h].tokens < MaxSequence THEN texts[h].tokens ELSE MaxSequence

Items == IF setting.own # Unmeasured THEN setting.own.items ELSE setting.items
Chars == IF setting.own # Unmeasured THEN setting.own.chars ELSE setting.chars
Longer(m, n) == IF m > n THEN m ELSE n
PageSize == IF setting.own # Unmeasured THEN Longer(setting.page, Items) ELSE setting.page

\* Faulty: the area as if every text were as short as the one that joins.
FullAsShortest(items, s, n) ==
    /\ n > s.start
    /\ \/ n - s.start >= Items
       \/ s.chars + texts[items[n]].chars > Chars
       \/ setting.padded /\ (n - s.start + 1) * Tokens(items[n]) * Tokens(items[n]) > setting.area

\* Whether item n does not fit the batch that begins at s.start.
Full(items, s, n) ==
    LET longest == Longer(s.longest, Tokens(items[n])) IN
    /\ n > s.start
    /\ \/ n - s.start >= Items
       \/ s.chars + texts[items[n]].chars > Chars
       \/ setting.padded /\ (n - s.start + 1) * longest * longest > setting.area

\* Faulty: the characters of the batch before count on.
PacksOn(items, s, n) ==
    [closed |-> IF Full(items, s, n) THEN Append(s.closed, <<s.start, n - 1>>) ELSE s.closed,
     start |-> IF Full(items, s, n) THEN n ELSE s.start,
     chars |-> s.chars + texts[items[n]].chars,
     longest |-> IF Full(items, s, n) THEN Tokens(items[n]) ELSE Longer(s.longest, Tokens(items[n]))]

\* One turn of the loop over the items: the batches closed, and the open one.
Packs(items, s, n) ==
    IF Full(items, s, n)
    THEN [closed |-> Append(s.closed, <<s.start, n - 1>>), start |-> n,
          chars |-> texts[items[n]].chars, longest |-> Tokens(items[n])]
    ELSE [closed |-> s.closed, start |-> s.start,
          chars |-> s.chars + texts[items[n]].chars,
          longest |-> Longer(s.longest, Tokens(items[n]))]

Packing(items) ==
    LET packing[n \in 0 .. Len(items)] ==
          IF n = 0 THEN [closed |-> <<>>, start |-> 1, chars |-> 0, longest |-> 0]
          ELSE Packs(items, packing[n - 1], n)
    IN packing

PackBatches(items) ==
    LET last == Packing(items)[Len(items)] IN
    IF last.start <= Len(items) THEN Append(last.closed, <<last.start, Len(items)>>)
    ELSE last.closed

\* render_input of a document, for a space without a prompt of its own.
Renders == setting.prompts # "paired"

NextBatch == SubSeq(page, Head(batches)[1], Head(batches)[2])

PackingInit ==
    /\ pass = "page" /\ setting \in Settings /\ texts \in Texts
    /\ cursor = 0 /\ page = <<>> /\ batches = <<>> /\ embedded = <<>> /\ loaded = TRUE

Pending == {h \in DOMAIN texts : h > cursor /\ h \notin ToSet(embedded)}

\* unembedded_hashes_page.
PendingPage == {h \in Pending : Cardinality({g \in Pending : g < h}) < PageSize}

Precedes(g, h) == Tokens(g) > Tokens(h) \/ (Tokens(g) = Tokens(h) /\ g < h)

ByLength(hashes) ==
    CHOOSE s \in SetToSeqs(hashes) : \A i, j \in DOMAIN s : i < j => Precedes(s[i], s[j])

TakesPage ==
    /\ pass = "page"
    /\ IF PendingPage = {} THEN pass' = "done" /\ UNCHANGED <<cursor, page, batches>>
       ELSE /\ cursor' = Max(PendingPage)
            /\ IF ~Renders THEN pass' = "failed" /\ UNCHANGED <<page, batches>>
               ELSE /\ page' = ByLength(PendingPage)
                    /\ batches' = PackBatches(page')
                    /\ pass' = "guard"
    /\ UNCHANGED <<setting, texts, embedded, loaded>>

\* wait_for_memory, before each batch.
Guards ==
    /\ pass = "guard"
    /\ \E available \in Memory :
         IF available # Unmeasured /\ available < PauseBelow
         THEN \/ pass' = "paused" /\ loaded' \in BOOLEAN  \* release may keep it: Ok(false)
              \/ pass' = "failed" /\ UNCHANGED loaded  \* the model cannot be released
         ELSE pass' = "embed" /\ UNCHANGED loaded
    /\ UNCHANGED <<setting, texts, cursor, page, batches, embedded>>

Resumes ==
    /\ pass = "paused"
    /\ \E available \in Memory : available # Unmeasured => available >= ResumeAbove
    /\ \/ pass' = "embed" /\ loaded' = TRUE
       \/ pass' = "failed" /\ UNCHANGED loaded  \* the model cannot be loaded again
    /\ UNCHANGED <<setting, texts, cursor, page, batches, embedded>>

\* The vectors are counted, measured, shortened and stored, all or none.
Embeds ==
    /\ pass = "embed"
    /\ \/ /\ embedded' = embedded \o NextBatch
          /\ batches' = Tail(batches)
          /\ pass' = IF batches' = <<>> THEN "page" ELSE "guard"
       \/ pass' = "failed" /\ UNCHANGED <<embedded, batches>>
    /\ UNCHANGED <<setting, texts, cursor, page, loaded>>

PackingNext == TakesPage \/ Guards \/ Resumes \/ Embeds

PackingSpec == PackingInit /\ [][PackingNext]_packingVars

(* Properties **************************************************************)

CharsOf(batch) ==
    LET chars[n \in 0 .. Len(batch)] ==
          IF n = 0 THEN 0 ELSE chars[n - 1] + texts[batch[n]].chars
    IN chars[Len(batch)]

\* Of the longest text.
TokensOf(batch) == Max({0} \cup {Tokens(h) : h \in ToSet(batch)})

\* As many rows as texts, as wide as the longest, squared.
Area(batch) == Len(batch) * TokensOf(batch) * TokensOf(batch)

KeepsLimits(batch) ==
    /\ Len(batch) <= Items
    /\ CharsOf(batch) <= Chars
    /\ setting.padded => Area(batch) <= setting.area

\* The batch about to run exceeds a limit only when it is a single text, no
\* text that follows would have fitted, no text is embedded twice, and a pass
\* that paused for memory and resumed still embeds every text of the store.
BatchesFitAndCover ==
    /\ pass = "embed" =>
         /\ loaded
         /\ Len(NextBatch) > 1 => KeepsLimits(NextBatch)
         /\ Head(batches)[2] < Len(page) =>
              ~KeepsLimits(Append(NextBatch, page[Head(batches)[2] + 1]))
    /\ IsInjective(embedded)
    /\ pass = "done" => ToSet(embedded) = DOMAIN texts

=============================================================================
