------------------------------ MODULE Passages ------------------------------
(***************************************************************************)
(* From a file to its chunks: the loaders for Markdown and PDF             *)
(* (ingestion/loaders/), which read a document line by line and keep a     *)
(* stack of headings, and the chunker (ingestion/chunker.py).              *)
(*                                                                         *)
(* A line of text is one sentence and a sequence of words; a word is known *)
(* by its line and its place, and has a cost in tokens.  The cost of a     *)
(* text is the sum of its words'.  A heading stands for its title by the   *)
(* number of its line.                                                     *)
(***************************************************************************)
EXTENDS Naturals, FiniteSets, Sequences, SequencesExt, FiniteSetsExt

CONSTANTS
  MaxLines,       \* bound: lines of a document
  MaxPages,       \* bound: pages of a PDF document
  HashLevels,     \* bound: the levels of Markdown headings, of 1..6
  Texts,          \* the costs of the words of a line, as far as they matter
  Sizes,          \* font sizes
  MaxDepth,       \* MAX_HEADING_DEPTH
  Target,         \* CHUNK_TARGET_TOKENS
  Overlap,        \* CHUNK_OVERLAP_TOKENS
  MinTokens       \* CHUNK_MIN_TOKENS

ASSUME PassagesAssumption ==
  /\ {MaxLines, MaxPages, MaxDepth, Target, MinTokens} \subseteq Nat \ {0}
  /\ Overlap \in Nat /\ Sizes \subseteq Nat \ {0}
  /\ HashLevels \subseteq Nat \ {0} /\ Texts \subseteq Seq(Nat \ {0})

VARIABLES
  pc,       \* reading, loaded, chunked, empty
  format,   \* md or pdf
  fonts,    \* of a PDF: its font sizes, and that of most of its text
  lines,    \* the lines read so far
  inFence,  \* Markdown: within a code fence
  stack,    \* the headings above the current line, with their levels
  buffer,   \* the lines of the current section
  first,    \* the page the current section starts on
  last,     \* and the one it ends on so far
  sections, \* finished sections
  chunks    \* the chunks

vars == <<pc, format, fonts, lines, inFence, stack, buffer, first, last, sections, chunks>>

-----------------------------------------------------------------------------

NoLevel == 0
Words(n) == [i \in 1..Len(lines[n].words) |-> <<n, i>>]
Cost(word) == lines[word[1]].words[word[2]]
Tokens(words) == FoldLeft(LAMBDA sum, w : sum + Cost(w), 0, words)
Page == IF lines = <<>> THEN 1 ELSE Last(lines).page

Init ==
  /\ pc = "reading"
  /\ format \in {"md", "pdf"}
  /\ IF format = "md" THEN fonts = [sizes |-> {}, body |-> 0]
     ELSE fonts \in {f \in [sizes : SUBSET Sizes, body : Sizes] : f.body \in f.sizes}
  /\ lines = <<>> /\ inFence = FALSE /\ stack = <<>>
  /\ buffer = <<>> /\ first = 1 /\ last = 1
  /\ sections = <<>> /\ chunks = <<>>

-----------------------------------------------------------------------------
(* Loading *)

Read(kind, level, words, page) ==
  /\ pc = "reading" /\ Len(lines) < MaxLines
  /\ lines' = Append(lines, [kind |-> kind, level |-> level, words |-> words, page |-> page])
  /\ UNCHANGED <<pc, format, fonts, chunks>>

HasText(body) == \E i \in 1..Len(body) : lines[body[i]].words # <<>>
Titles == [i \in 1..Len(stack) |-> stack[i].title]

Section == [path |-> SubSeq(Titles, 1, IF Len(stack) < MaxDepth THEN Len(stack) ELSE MaxDepth),
            body |-> buffer, first |-> first, last |-> last]

\* Mutant: a section is kept although nothing is in it.
FlushedAlways == Append(sections, Section)

\* A section without text is dropped, its heading too if nothing is below it.
Flushed == IF HasText(buffer) THEN Append(sections, Section) ELSE sections

\* Mutant: a heading does not end one of its own level.
OpenBelowOr(level) == SelectSeq(stack, LAMBDA h : h.level <= level)

\* Levels on the stack increase, so popping from the end selects; those of a
\* PDF are at most MaxDepth, so its paths are never cut.
OpenBelow(level) == SelectSeq(stack, LAMBDA h : h.level < level)

Heading(level, page) ==
  /\ sections' = Flushed
  /\ buffer' = <<>>
  /\ stack' = Append(OpenBelow(level), [level |-> level, title |-> Len(lines) + 1])
  /\ first' = page /\ last' = page

Body(page) ==
  /\ buffer' = Append(buffer, Len(lines) + 1)
  /\ first' = IF buffer = <<>> THEN page ELSE first
  /\ last' = page
  /\ UNCHANGED <<stack, sections>>

\* Any line that starts like a fence opens or closes one.
MarkdownFence ==
  /\ format = "md"
  /\ Read("fence", NoLevel, <<1>>, 1)
  /\ inFence' = ~inFence
  /\ Body(1)

MarkdownHeading(level) ==
  /\ format = "md"
  /\ IF inFence THEN Read("text", NoLevel, <<1>>, 1) /\ Body(1)
     ELSE Read("heading", level, <<1>>, 1) /\ Heading(level, 1)
  /\ UNCHANGED inFence

MarkdownText(words) ==
  /\ format = "md"
  /\ Read("text", NoLevel, words, 1)
  /\ Body(1)
  /\ UNCHANGED inFence

\* PDF_HEADING_SIZE_RATIO is small: any larger size will do.
HeadingSizes == {s \in fonts.sizes : s > fonts.body}
LevelOfSize(size) ==
  LET rank == Cardinality({s \in HeadingSizes : s >= size}) IN
    IF size \in HeadingSizes /\ rank <= MaxDepth THEN rank ELSE NoLevel

\* A long line is text, a large one a heading; then the table of contents
\* decides, then bold type, unless it is smaller or ends with a full stop.
HeadingLevel(size, long, inToc, boldTitle) ==
  IF long THEN NoLevel
  ELSE IF LevelOfSize(size) # NoLevel THEN LevelOfSize(size)
  ELSE IF inToc \/ (boldTitle /\ size >= fonts.body) THEN MaxDepth
  ELSE NoLevel

\* Blank lines are left out.  What a line looks like is only told by its level.
PdfLine(page, words) ==
  /\ format = "pdf" /\ page >= Page /\ words # <<>>
  /\ \E level \in {HeadingLevel(size, long, inToc, boldTitle) :
                     size \in fonts.sizes, long, inToc, boldTitle \in BOOLEAN} :
       IF level = NoLevel
       THEN Read("text", NoLevel, words, page) /\ Body(page)
       ELSE /\ words = CHOOSE w \in Texts : w # <<>>
            /\ Read("heading", level, words, page) /\ Heading(level, page)
  /\ UNCHANGED inFence

\* No section is an EmptyDocumentError.
EndOfFile ==
  /\ pc = "reading"
  /\ sections' = Flushed
  /\ pc' = IF sections' = <<>> THEN "empty" ELSE "loaded"
  /\ buffer' = <<>>
  /\ UNCHANGED <<format, fonts, lines, inFence, stack, first, last, chunks>>

-----------------------------------------------------------------------------
(* Chunking *)

\* Mutant: what is left after the last full piece is forgotten.
HardSplitFullOnly(unit) ==
  LET step(acc, w) ==
        IF acc.words # <<>> /\ Tokens(acc.words) + Cost(w) > Target
        THEN [pieces |-> Append(acc.pieces, acc.words), words |-> <<w>>]
        ELSE [acc EXCEPT !.words = Append(@, w)]
  IN  FoldLeft(step, [pieces |-> <<>>, words |-> <<>>], unit).pieces

\* A sentence that is too long, word by word.
HardSplit(unit) ==
  LET step(acc, w) ==
        IF acc.words # <<>> /\ Tokens(acc.words) + Cost(w) > Target
        THEN [pieces |-> Append(acc.pieces, acc.words), words |-> <<w>>]
        ELSE [acc EXCEPT !.words = Append(@, w)]
      done == FoldLeft(step, [pieces |-> <<>>, words |-> <<>>], unit)
  IN  Append(done.pieces, done.words)

Units(body) ==
  FlattenSeq([i \in 1..Len(body) |->
    LET unit == Words(body[i]) IN
      IF unit = <<>> THEN <<>>
      ELSE IF Tokens(unit) > Target THEN HardSplit(unit) ELSE <<unit>>])

Suffix(s, n) == SubSeq(s, Len(s) - n + 1, Len(s))

\* Mutant: the overlap has no budget.
OverlapTailWhole(units) == units

\* The units from the end that fit the overlap.
OverlapTail(units) ==
  Suffix(units, Max({n \in 0..Len(units) : Tokens(FlattenSeq(Suffix(units, n))) <= Overlap}))

Windows(units) ==
  LET step(acc, unit) ==
        IF acc.current # <<>> /\ Tokens(FlattenSeq(acc.current)) + Tokens(unit) > Target
        THEN [windows |-> Append(acc.windows, FlattenSeq(acc.current)),
              current |-> Append(OverlapTail(acc.current), unit)]
        ELSE [acc EXCEPT !.current = Append(@, unit)]
      done == FoldLeft(step, [windows |-> <<>>, current |-> <<>>], units)
  IN  IF done.current = <<>> THEN done.windows
      ELSE Append(done.windows, FlattenSeq(done.current))

\* The last window is appended to the one before if it is short, with the
\* overlap it starts with.
Pack(units) ==
  LET windows == Windows(units)
      n == Len(windows) IN
    IF n > 1 /\ Tokens(windows[n]) < MinTokens
    THEN Append(SubSeq(windows, 1, n - 2), windows[n - 1] \o windows[n])
    ELSE windows

ChunksOf(s) ==
  LET texts == Pack(Units(sections[s].body)) IN
    [i \in 1..Len(texts) |-> [text |-> texts[i], section |-> s]]

Chunk ==
  /\ pc = "loaded"
  /\ chunks' = FlattenSeq([s \in 1..Len(sections) |-> ChunksOf(s)])
  /\ pc' = "chunked"
  /\ UNCHANGED <<format, fonts, lines, inFence, stack, buffer, first, last, sections>>

-----------------------------------------------------------------------------

Next ==
  \/ MarkdownFence
  \/ \E level \in HashLevels : MarkdownHeading(level)
  \/ \E words \in Texts : MarkdownText(words)
  \/ \E page \in 1..MaxPages, words \in Texts : PdfLine(page, words)
  \/ EndOfFile \/ Chunk

Spec == Init /\ [][Next]_vars

-----------------------------------------------------------------------------
(* Properties *)

TypeOK ==
  /\ pc \in {"reading", "loaded", "chunked", "empty"}
  /\ format \in {"md", "pdf"}
  /\ lines \in Seq([kind : {"fence", "heading", "text"}, level : Nat,
                    words : Seq(Nat), page : 1..MaxPages])
  /\ inFence \in BOOLEAN
  /\ stack \in Seq([level : Nat \ {0}, title : 1..MaxLines])
  /\ buffer \in Seq(1..MaxLines)
  /\ \A i \in 1..Len(sections) : HasText(sections[i].body)
  /\ \A i \in 1..Len(chunks) : chunks[i].text # <<>>

IsHeading(n) == lines[n].kind = "heading"

\* The headings a reader sees above line n: those no later heading of their
\* level, or of a higher one, has closed.
Above(n) == {h \in 1..n - 1 :
  IsHeading(h) /\ \A g \in h + 1..n - 1 : IsHeading(g) => lines[g].level > lines[h].level}

\* A section is located where its text is: it carries the headings a reader
\* sees above the text, outermost first and no more than the depth kept
\* (markdown_loader.py:50, pdf_loader.py:146), it ends where the next heading
\* begins, and its pages are exactly those the text is on (pdf_loader.py:139).
SectionsAreLocated ==
  \A i \in 1..Len(sections) :
    LET pages == {lines[n].page : n \in ToSet(sections[i].body)} IN
      /\ sections[i].first = Min(pages) /\ sections[i].last = Max(pages)
      /\ \A j \in 1..Len(sections[i].body) :
           LET above == SetToSortSeq(Above(sections[i].body[j]), <) IN
             sections[i].path = SubSeq(above, 1, Min({MaxDepth, Len(above)}))

BodyText ==
  FlattenSeq([n \in 1..Len(lines) |-> IF IsHeading(n) THEN <<>> ELSE Words(n)])

\* Nothing but headings is lost, and nothing changes place: the chunks hold
\* every word of the file, first occurrences in the order of the file
\* (chunker.py:61), and a chunk never crosses a section.
NoTextIsLost ==
  pc = "chunked" =>
    /\ FoldLeft(LAMBDA seen, w : IF Contains(seen, w) THEN seen ELSE Append(seen, w), <<>>,
                FlattenSeq([i \in 1..Len(chunks) |-> chunks[i].text])) = BodyText
    /\ \A i \in 1..Len(chunks) : \A w \in ToSet(chunks[i].text) :
         Contains(sections[chunks[i].section].body, w[1])

LongestWord == Max({Target} \cup {Cost(w) : w \in ToSet(BodyText)})
IsLastOfSection(i) == i = Len(chunks) \/ chunks[i + 1].section # chunks[i].section
IsOnlyOfSection(i) == IsLastOfSection(i) /\ (i = 1 \/ chunks[i - 1].section # chunks[i].section)

\* A chunk exceeds the target by the overlap at most, unless one word does,
\* and the last of a section by a window that was too short to stand alone
\* (chunker.py:68, :78); what stands alone at the end of a section is not too
\* short, unless it is all of it.
ChunkSizesBounded ==
  pc = "chunked" => \A i \in 1..Len(chunks) :
    LET size == Tokens(chunks[i].text) IN
      /\ size <= LongestWord + Overlap + IF IsLastOfSection(i) THEN MinTokens - 1 ELSE 0
      /\ IsLastOfSection(i) /\ ~IsOnlyOfSection(i) => size >= MinTokens
=============================================================================
