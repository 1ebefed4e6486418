----------------------------- MODULE ProseChunks -----------------------------
(***************************************************************************)
(* How prose becomes units (prose's chunk.rs, markdown.rs and lib.rs): a   *)
(* text is packed into chunks at the strongest separators that fit, runts  *)
(* are merged, and chunks overlap; a Markdown document is cut into the     *)
(* sections of its headings.  A text is a sequence of bytes of which only  *)
(* their class matters; a document is a sequence of lines.  Both grow one  *)
(* character or line at a time, so that every small one is looked at.      *)
(***************************************************************************)
EXTENDS Naturals, Sequences, FiniteSets, SequencesExt, FiniteSetsExt

CONSTANTS
    Character,  \* characters of a text, as the classes of their bytes
    Line,       \* the lines a document may have
    Options,    \* ChunkOptions: [target, min, overlap]
    MaxBytes,
    MaxLines

\* "letter" also begins a longer character and stands for the period of an
\* abbreviation; "rest" is a later byte of a character, and "blank rest" one
\* of 0x85 and 0xA0, which `as char` turns into a space.
Byte == {"letter", "rest", "blank rest", "space", "newline", "period"}

\* UTF-8: a character begins with a byte of its own, and only one that is no
\* separator is longer.
ASSUME ProseAssumption ==
    /\ \A c \in Character :
          /\ c \in Seq(Byte) /\ c # <<>> /\ c[1] \notin {"rest", "blank rest"}
          /\ \A i \in 2 .. Len(c) : c[1] = "letter" /\ c[i] \in {"rest", "blank rest"}
    /\ \A o \in Options :
          o.target \in Nat \ {0} /\ o.min \in Nat /\ o.overlap \in 0 .. (o.target \div 2)
    /\ MaxBytes \in Nat /\ MaxLines \in Nat

VARIABLES
    text,     \* the plain text
    options,
    document  \* the Markdown document

proseVars == <<text, options, document>>

Whitespace(b) == b \in {"space", "newline", "blank rest"}

\* The byte at an offset, which counts from 0.
ByteAt(i) == text[i + 1]
CharBoundary(i) == i \in {0, Len(text)} \/ ByteAt(i) \notin {"rest", "blank rest"}

\* The end of the whitespace that begins at i, within a span that ends at b.
AfterBlanks(i, b) ==
    Min({j \in i .. b : j = b \/ ~Whitespace(ByteAt(j))})

Newlines(i, j) == Cardinality({k \in i .. (j - 1) : ByteAt(k) = "newline"})

\* boundaries: just past each separator of a strength, in the span a .. b.
Boundaries(level, a, b) ==
    CASE level = "paragraph" ->
           {AfterBlanks(i, b) : i \in {k \in a .. (b - 2) :
               ByteAt(k) = "newline" /\ Newlines(k, AfterBlanks(k, b)) >= 2}}
      [] level = "line" ->
           {i + 1 : i \in {k \in a .. (b - 2) : ByteAt(k) = "newline"}}
      [] level = "sentence" ->
           {AfterBlanks(i + 1, b) : i \in {k \in a .. (b - 2) :
               ByteAt(k) = "period" /\ Whitespace(ByteAt(k + 1))}} \ {b}
      [] level = "word" ->
           {AfterBlanks(i, b) : i \in {k \in a .. (b - 2) : Whitespace(ByteAt(k))}} \ {b}

\* From byte to byte of the text.
Spans == {r \in (0 .. Len(text)) \X (0 .. Len(text)) : r[1] <= r[2]}

Size(r) == r[2] - r[1]

\* A piece of a hard cut ends on the boundary of a character, at the first
\* that makes it as long as the target.
CutsAt(s, n, b, target) ==
    IF n = b \/ (n >= s.start + target /\ CharBoundary(n))
    THEN [out |-> Append(s.out, <<s.start, n>>), start |-> n]
    ELSE s

Cutting(a, b, target) ==
    LET cutting[n \in 0 .. b - a] ==
          IF n = 0 THEN [out |-> <<>>, start |-> a] ELSE CutsAt(cutting[n - 1], a + n, b, target)
    IN cutting

HardCut(a, b, target) == Cutting(a, b, target)[b - a].out

\* Faulty: restarts after the point that did not fit.
RestartedAtPoint(s, point, target) == [s EXCEPT !.start = point, !.fit = 0]

\* The point is considered again from the cut; one that does not fit is passed over.
Restarted(s, point, target) ==
    [s EXCEPT !.start = s.fit, !.fit = IF point - s.fit <= target THEN point ELSE 0]

\* One turn of the loop over the points; below is what becomes of a span.
Turn(s, point, target, below) ==
    IF point <= s.start THEN s
    ELSE IF point - s.start <= target THEN [s EXCEPT !.fit = point]
    ELSE IF s.fit # 0
    THEN Restarted([s EXCEPT !.out = Append(@, <<s.start, s.fit>>)], point, target)
    ELSE [s EXCEPT !.out = @ \o below[<<s.start, point>>], !.start = point]

Turns(points, a, b, target, below) ==
    LET turns[n \in 0 .. b - a] ==
          IF n = 0 THEN [start |-> a, fit |-> 0, out |-> <<>>]
          ELSE IF a + n \in points THEN Turn(turns[n - 1], a + n, target, below)
          ELSE turns[n - 1]
    IN turns

\* What follows the last cut.
Ended(s, b, target, below) ==
    IF s.start = b THEN s.out
    ELSE IF b - s.start <= target THEN Append(s.out, <<s.start, b>>)
    ELSE s.out \o below[<<s.start, b>>]

\* pack at one level: what becomes of each span, given what becomes of one
\* without separators and of one that is too long between two.
Packed(level, target, without, below) ==
    [r \in Spans |->
        IF Size(r) = 0 THEN <<>>
        ELSE IF Size(r) <= target THEN <<r>>
        ELSE LET points == Boundaries(level, r[1], r[2]) IN
             IF points = {} THEN without[r]
             ELSE Ended(Turns(points, r[1], r[2], target, below)[Size(r)], r[2], target, below)]

HardCuts(target) == [r \in Spans |-> HardCut(r[1], r[2], target)]
AsOne == [r \in Spans |-> <<r>>]

\* Level::next, from the weakest.
Words(target) == Packed("word", target, HardCuts(target), AsOne)
Sentences(target) == Packed("sentence", target, Words(target), Words(target))
Lines(target) == Packed("line", target, Sentences(target), Sentences(target))
Paragraphs(target) == Packed("paragraph", target, Lines(target), Lines(target))

Pack(target) == Paragraphs(target)[<<0, Len(text)>>]

\* Faulty: a runt takes the place of its predecessor.
MergedOver(ranges, r) == Append(Front(ranges), r)

MergedInto(ranges, r) == Append(Front(ranges), <<Last(ranges)[1], r[2]>>)

\* A runt joins its predecessor within twice the target.
Joins(out, r, o) ==
    IF out # <<>> /\ Size(r) < o.min /\ r[2] - Last(out)[1] <= 2 * o.target
    THEN MergedInto(out, r) ELSE Append(out, r)

Joining(ranges, o) ==
    LET joining[n \in 0 .. Len(ranges)] ==
          IF n = 0 THEN <<>> ELSE Joins(joining[n - 1], ranges[n], o)
    IN joining

MergedBack(ranges, o) == Joining(ranges, o)[Len(ranges)]

\* A runt in the first place joins its successor.
MergedForward(ranges, o) ==
    IF Len(ranges) > 1 /\ Size(ranges[1]) < o.min
    THEN <<<<ranges[1][1], ranges[2][2]>>>> \o SubSeq(ranges, 3, Len(ranges))
    ELSE ranges

Merged(ranges, o) == MergedForward(MergedBack(ranges, o), o)

\* Faulty: the overlap begins wherever it falls.
OverlapStartAnywhere(ranges, i, o) ==
    Max({ranges[i - 1][1], IF ranges[i][1] < o.overlap THEN 0 ELSE ranges[i][1] - o.overlap})

\* Not before the predecessor, and on the boundary of a character.
OverlapStart(ranges, i, o) ==
    LET wanted == IF ranges[i][1] < o.overlap THEN 0 ELSE ranges[i][1] - o.overlap IN
    Min({s \in 0 .. ranges[i][1] :
            /\ s >= wanted /\ s >= ranges[i - 1][1]
            /\ CharBoundary(s) \/ s = ranges[i][1]})

Overlapped(ranges, o) ==
    [i \in DOMAIN ranges |->
        IF i = 1 THEN ranges[i] ELSE <<OverlapStart(ranges, i, o), ranges[i][2]>>]

ChunkRanges(o) == Overlapped(Merged(Pack(o.target), o), o)

(* Markdown ****************************************************************)

\* A line is a heading of a level, or prose, blank, a fence or dashes.
IsHeading(line) == line \in {"h1", "h2", "h3"}
Depth(line) == CASE line = "h1" -> 1 [] line = "h2" -> 2 [] line = "h3" -> 3

\* The scanner's state after each line: front matter, a fence, or neither.
Scan ==
    LET after[i \in 0 .. Len(document)] ==
          IF i = 0 THEN "open"
          ELSE CASE i = 1 /\ document[1] = "dashes" -> "front"
                 [] after[i - 1] = "front" ->
                      IF document[i] = "dashes" THEN "open" ELSE "front"
                 [] after[i - 1] \in {"ticks", "tildes"} ->
                      IF document[i] = after[i - 1] THEN "open" ELSE after[i - 1]
                 [] OTHER -> IF document[i] \in {"ticks", "tildes"} THEN document[i] ELSE "open"
    IN after

Headings ==
    LET after == Scan IN
    {i \in DOMAIN document : IsHeading(document[i]) /\ after[i - 1] = "open"}

Blank(i) == document[i] = "blank"

\* sections: what precedes the first heading, then one section per heading.
Preamble ==
    LET last == IF Headings = {} THEN Len(document) ELSE Min(Headings) - 1 IN
    IF \A i \in 1 .. last : Blank(i) THEN {} ELSE {[first |-> 1, last |-> last, scope |-> 0]}

\* Faulty: the nearest heading before it.
EnclosingPrevious(h) == {g \in Headings : g < h}

Enclosing(h) == {g \in Headings : g < h /\ Depth(document[g]) < Depth(document[h])}

Sections ==
    Preamble \cup
    {[first |-> h,
      last |-> Min({Len(document)} \cup {g - 1 : g \in {k \in Headings : k > h}}),
      scope |-> Max({0} \cup Enclosing(h))] : h \in Headings}

\* Faulty: one line of prose is not worth a unit.
ContainerOrShort(s) == \A i \in s.first + 2 .. s.last : Blank(i)

\* is_container: blank after its first line, whatever that line is.
Container(s) == \A i \in s.first + 1 .. s.last : Blank(i)

\* extract_prose for Markdown.
Passages == {s \in Sections : ~Container(s)}

(* The documents ***********************************************************)

ProseInit == text = <<>> /\ options \in Options /\ document = <<>>

Writes ==
    /\ \E c \in Character :
         Len(text) + Len(c) <= MaxBytes /\ text' = text \o c
    /\ UNCHANGED <<options, document>>

AddsLine ==
    /\ text = <<>> /\ Len(document) < MaxLines
    /\ \E l \in Line : document' = Append(document, l)
    /\ UNCHANGED <<text, options>>

ProseNext == (document = <<>> /\ Writes) \/ AddsLine

ProseSpec == ProseInit /\ [][ProseNext]_proseVars

(* Properties **************************************************************)

\* "It degrades to a character window without ever failing" (chunk.rs:6-7):
\* every chunk begins and ends where it can be sliced out of the text.
ChunksCanBeSliced ==
    \A i \in DOMAIN ChunkRanges(options) :
        CharBoundary(ChunkRanges(options)[i][1]) /\ CharBoundary(ChunkRanges(options)[i][2])

\* A word with the blanks after it, or a part of them.
Unbroken(a, b) ==
    \A i \in a .. (b - 2) : Whitespace(ByteAt(i)) => Whitespace(ByteAt(i + 1))

\* However packing descends, merges and overlaps, the chunks cover the text in
\* order, repeat no more than the overlap of their predecessor, are large only
\* around a word that is longer than the target with the blanks after it, and
\* cut no character in two unless a byte of it reads as a space.
ChunksCoverTheText ==
    LET r == ChunkRanges(options) IN
    /\ "blank rest" \notin ToSet(text) => ChunksCanBeSliced
    /\ text # <<>> => r # <<>> /\ r[1][1] = 0 /\ Last(r)[2] = Len(text)
    /\ \A i \in 2 .. Len(r) :
         /\ r[i - 1][1] <= r[i][1] /\ r[i][1] <= r[i - 1][2] /\ r[i - 1][2] < r[i][2]
         /\ r[i - 1][2] - r[i][1] <= options.overlap
    /\ \A i \in DOMAIN r :
         Size(r[i]) > 2 * options.target + options.min + options.overlap =>
             \E a, b \in r[i][1] .. r[i][2] : b - a > options.target /\ Unbroken(a, b)

\* Every line of a document that is not blank is in exactly one passage, and
\* headings alone are left out - or a single line before the first heading -
\* and the scope of a passage is the section it is nested in.
SectionsCoverTheDocument ==
    /\ \A i \in DOMAIN document :
         \/ Blank(i) /\ Cardinality({s \in Passages : i \in s.first .. s.last}) <= 1
         \/ Cardinality({s \in Passages : i \in s.first .. s.last}) = 1
         \/ \E s \in Sections : s.first = i /\ Container(s) /\ (i \in Headings \/ i = 1)
    /\ \A s \in Passages : s.scope # 0 =>
         /\ Depth(document[s.scope]) < Depth(document[s.first])
         /\ \A i \in Headings : i > s.scope /\ i < s.first =>
              Depth(document[i]) >= Depth(document[s.first])

\* No byte of a text and no line of a document is unindexed.
NothingIsUnindexed == ChunksCoverTheText /\ SectionsCoverTheDocument

=============================================================================
