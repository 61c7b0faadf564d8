--------------------------- MODULE AnswerPipeline ---------------------------
(***************************************************************************)
(* From a question to its citations: the two searches, their fusion,       *)
(* hydration, reranking, the diversity cap, the context block and the      *)
(* validation of markers (retrieval/, generation/prompt.py,                *)
(* generation/citations.py, graph/), while documents of the owner come and *)
(* go.                                                                     *)
(*                                                                         *)
(* Every SELECT sees what is committed when it runs.  A chunk is its id,   *)
(* <<document, index>>: files never change, so an id never stands for two  *)
(* texts.  All chunks are the asking owner's; every statement filters by   *)
(* owner.  What the searches and the models find is left open: any order.  *)
(***************************************************************************)
EXTENDS Orders, SequencesExt, FiniteSetsExt

CONSTANTS
  Docs,           \* documents, numbered as their ids sort
  MaxChunks,      \* bound: chunks of a document
  VectorCount,    \* VECTOR_CANDIDATE_COUNT
  LexicalCount,   \* LEXICAL_CANDIDATE_COUNT
  VectorWeight,   \* RRF_VECTOR_WEIGHT and
  LexicalWeight,  \*   RRF_LEXICAL_WEIGHT, in one unit
  K,              \* RRF_K
  Shortlist,      \* SHORTLIST_CANDIDATE_COUNT
  RerankerEnabled,
  TopK,           \* TOP_K
  MaxPerDocument, \* MAX_CHUNKS_PER_DOCUMENT
  MaxContext,     \* MAX_CONTEXT_CHARS
  MaxMarkers      \* bound: markers in an answer

ASSUME AnswerAssumption ==
  /\ Docs \subseteq Nat /\ RerankerEnabled \in BOOLEAN
  /\ {MaxChunks, VectorCount, LexicalCount, VectorWeight, LexicalWeight, K,
      Shortlist, TopK, MaxPerDocument, MaxContext, MaxMarkers} \subseteq Nat \ {0}

VARIABLES
  store,     \* store[d]: absent, searchable, removed
  pc,        \* where the turn is
  vector,    \* what vector search found, best first
  lexical,   \* what lexical search found, best first
  ranked,    \* the shortlist, as it is ordered so far
  selected,  \* RAGState.retrieved, StreamedAnswer.chunks
  shown,     \* the chunks in the context block
  markers,   \* the markers of the answer
  citations, \* marker and chunk of every citation
  disturbed  \* history: a document was removed during the searches

vars == <<store, pc, vector, lexical, ranked, selected, shown, markers, citations, disturbed>>

-----------------------------------------------------------------------------

Chunks == Docs \X (1..MaxChunks)
Doc(c) == c[1]
\* Any text will do: chunk i of a document is i long.
BlockLength(c) == c[2]
NoChunk == <<0, 0>>

Searchable == {c \in Chunks : store[Doc(c)] = "searchable"}
Rankings(S, n) == {r \in UNION {[1..m -> S] : m \in 0..n} : IsInjective(r)}
Found == ToSet(vector) \cup ToSet(lexical)

Init ==
  /\ store = [d \in Docs |-> "absent"]
  /\ pc = "idle"
  /\ vector = <<>> /\ lexical = <<>> /\ ranked = <<>>
  /\ selected = <<>> /\ shown = <<>>
  /\ markers = <<>> /\ citations = {}
  /\ disturbed = FALSE

-----------------------------------------------------------------------------
(* Other requests and the worker *)

\* All chunks of a document appear in one transaction.
DocumentReady(d) ==
  /\ store[d] = "absent"
  /\ store' = [store EXCEPT ![d] = "searchable"]
  /\ UNCHANGED <<pc, vector, lexical, ranked, selected, shown, markers, citations, disturbed>>

DocumentRemoved(d) ==
  /\ store[d] = "searchable"
  /\ store' = [store EXCEPT ![d] = "removed"]
  /\ disturbed' = (disturbed \/ pc \in {"searching", "fusing", "hydrating"})
  /\ UNCHANGED <<pc, vector, lexical, ranked, selected, shown, markers, citations>>

-----------------------------------------------------------------------------
(* Retrieval *)

Ask ==
  /\ pc \in {"idle", "answered"}
  /\ pc' = "searching"
  /\ selected' = <<>> /\ shown' = <<>> /\ markers' = <<>> /\ citations' = {}
  /\ disturbed' = FALSE
  /\ UNCHANGED <<store, vector, lexical, ranked>>

\* The index is approximate: it may miss neighbours.
VectorSearch ==
  /\ pc = "searching"
  /\ vector' \in Rankings(Searchable, VectorCount)
  /\ pc' = "fusing"
  /\ UNCHANGED <<store, lexical, ranked, selected, shown, markers, citations, disturbed>>

Rank(list, c) == CHOOSE i \in 1..Len(list) : list[i] = c

\* Scores are compared over a common denominator.
Denominator ==
  LET product[i \in 0..VectorCount + LexicalCount] ==
        IF i = 0 THEN 1 ELSE (K + i) * product[i - 1]
  IN  product[VectorCount + LexicalCount]

\* Mutant: the weight is divided by nothing.
ContributionLinear(list, weight, c) ==
  IF Contains(list, c) THEN weight * (K + Rank(list, c)) ELSE 0

Contribution(list, weight, c) ==
  IF Contains(list, c) THEN weight * (Denominator \div (K + Rank(list, c))) ELSE 0

Score(vec, lex, c) ==
  Contribution(vec, VectorWeight, c) + Contribution(lex, LexicalWeight, c)

IdBefore(a, b) == a[1] < b[1] \/ (a[1] = b[1] /\ a[2] < b[2])

Fuse(vec, lex) ==
  LET found == ToSet(vec) \cup ToSet(lex)
      before(a, b) == \/ Score(vec, lex, a) > Score(vec, lex, b)
                      \/ Score(vec, lex, a) = Score(vec, lex, b) /\ IdBefore(a, b)
  IN  Sorted(found, {pair \in found \X found : before(pair[1], pair[2])})

FirstOf(s, n) == SubSeq(s, 1, Min({n, Len(s)}))

\* The second SELECT, then fusion, and the cut before anything is hydrated.
LexicalSearch ==
  /\ pc = "fusing"
  /\ lexical' \in Rankings(Searchable, LexicalCount)
  /\ ranked' = FirstOf(Fuse(vector, lexical'), Shortlist)
  /\ pc' = "hydrating"
  /\ UNCHANGED <<store, vector, selected, shown, markers, citations, disturbed>>

\* Mutant: a place is kept for a chunk that is gone.
HydratedWithGaps(list) ==
  [i \in 1..Len(list) |-> IF list[i] \in Searchable THEN list[i] ELSE NoChunk]

\* The third SELECT; a chunk that is gone is dropped.
Hydrated(list) == Picked(list, {i \in 1..Len(list) : list[i] \in Searchable})

Hydrate ==
  /\ pc = "hydrating"
  /\ ranked' = Hydrated(ranked)
  /\ pc' = "ranking"
  /\ UNCHANGED <<store, vector, lexical, selected, shown, markers, citations, disturbed>>

\* The reranker may score the chunks as it likes, so any order comes out of the
\* sort; one of ties is the order they had.
Orderings(list) == {r \in [1..Len(list) -> ToSet(list)] : IsInjective(r)}

\* The positions that find their document below the cap: the loop has counted
\* those of the document before.
OfDocument(list, d) == {i \in 1..Len(list) : Doc(list[i]) = d}
Within(list) ==
  {p \in 1..Len(list) :
     Cardinality({q \in OfDocument(list, Doc(list[p])) : q < p}) < MaxPerDocument}

\* The loop breaks at TopK; if it does not, positions that the cap displaced
\* fill the window.
Selected(list) == FirstOf(Ascending(Within(list)), TopK)
Backfilled(list) == Selected(list)
  \o FirstOf(Ascending((1..Len(list)) \ Within(list)), TopK - Len(Selected(list)))

\* Mutant: the backfill stays at the end.
EnforceDiversityUnsorted(list) ==
  [i \in 1..Len(Backfilled(list)) |-> list[Backfilled(list)[i]]]

\* Mutant: no backfill.
EnforceDiversityShort(list) == Picked(list, ToSet(Selected(list)))

EnforceDiversity(list) == Picked(list, ToSet(Backfilled(list)))

RerankAndSelect ==
  /\ pc = "ranking"
  /\ ranked' \in IF RerankerEnabled THEN Orderings(ranked) ELSE {ranked}
  /\ selected' = EnforceDiversity(ranked')
  /\ pc' = "generating"
  /\ UNCHANGED <<store, vector, lexical, shown, markers, citations, disturbed>>

-----------------------------------------------------------------------------
(* The answer *)

\* Blocks are added until one does not fit.
ContextBlock(chunks) ==
  LET length(n) == MapThenSumSet(LAMBDA i : BlockLength(chunks[i]), 1..n)
  IN  FirstOf(chunks, Max({n \in 0..Len(chunks) : length(n) <= MaxContext}))

\* In order of first appearance, each once.
Extract(written) ==
  Picked(written, {i \in 1..Len(written) : \A j \in 1..i - 1 : written[j] # written[i]})

\* Mutant: markers count from zero.
BuildCitationsFromZero(cited, chunks) ==
  {<<m, chunks[m + 1]>> : m \in {n \in ToSet(cited) : n < Len(chunks)}}

BuildCitations(cited, chunks) ==
  {<<m, chunks[m]>> : m \in {n \in ToSet(cited) : n \in 1..Len(chunks)}}

\* What the search found is not used any more.
Forget == vector' = <<>> /\ lexical' = <<>> /\ ranked' = <<>>

\* The model may write any marker.
Generate ==
  /\ pc = "generating" /\ selected # <<>>
  /\ shown' = ContextBlock(selected)
  /\ \E written \in UNION {[1..n -> 0..TopK + 1] : n \in 0..MaxMarkers} :
       markers' = Extract(written)
  /\ Forget
  /\ pc' = "citing"
  /\ UNCHANGED <<store, selected, citations, disturbed>>

Cite ==
  /\ pc = "citing"
  /\ citations' = BuildCitations(markers, selected)
  /\ pc' = "answered"
  /\ UNCHANGED <<store, vector, lexical, ranked, selected, shown, markers, disturbed>>

\* NO_CONTEXT_ANSWER
Fallback ==
  /\ pc = "generating" /\ selected = <<>>
  /\ Forget
  /\ pc' = "answered"
  /\ UNCHANGED <<store, selected, shown, markers, citations, disturbed>>

-----------------------------------------------------------------------------

Next ==
  \/ \E d \in Docs : DocumentReady(d) \/ DocumentRemoved(d)
  \/ Ask \/ VectorSearch \/ LexicalSearch \/ Hydrate \/ RerankAndSelect
  \/ Generate \/ Cite \/ Fallback

Spec == Init /\ [][Next]_vars

-----------------------------------------------------------------------------
(* Properties *)

TypeOK ==
  /\ store \in [Docs -> {"absent", "searchable", "removed"}]
  /\ pc \in {"idle", "searching", "fusing", "hydrating", "ranking",
             "generating", "citing", "answered"}
  /\ {vector, lexical, ranked, selected, shown} \subseteq Seq(Chunks)
  /\ markers \in Seq(Nat)
  /\ citations \subseteq Nat \X Chunks
  /\ disturbed \in BOOLEAN

NotWorse(list, a, b) ==
  Contains(list, b) => Contains(list, a) /\ Rank(list, a) < Rank(list, b)

\* A chunk that both searches rank before another is before it in the fused
\* ranking, and on the shortlist if that one is (fusion.py:28): weights and
\* the ranks a source lacks never turn two agreeing sources around.
FusionRespectsAgreement ==
  pc = "hydrating" => \A a, b \in Found :
    a # b /\ NotWorse(vector, a, b) /\ NotWorse(lexical, a, b) /\ Contains(ranked, b)
      => Contains(ranked, a) /\ Rank(ranked, a) < Rank(ranked, b)

\* The selection is best first, and only a lack of other documents lets one
\* document have more than its share (diversity.py:21): no chunk is passed
\* over while another document has more than the cap, unless its own document
\* has the cap already.
SelectionIsDiverse ==
  pc = "generating" =>
    /\ \A i, j \in 1..Len(selected) :
         i < j => Rank(ranked, selected[i]) < Rank(ranked, selected[j])
    /\ \A c \in ToSet(ranked) \ ToSet(selected), d \in Docs :
         Cardinality(OfDocument(selected, d)) > MaxPerDocument
           => Cardinality(OfDocument(selected, Doc(c))) >= MaxPerDocument
    /\ \A c \in ToSet(ranked) \ ToSet(selected) :
         Cardinality(OfDocument(selected, Doc(c))) < MaxPerDocument
           => \A i \in 1..Len(selected) : Rank(ranked, selected[i]) < Rank(ranked, c)

\* The context window is as full as what was found allows, unless a document
\* was removed between a search and hydration (hybrid_retriever.py:96): then
\* the chunks that are gone have taken places on the shortlist.
WindowIsFull ==
  pc = "generating" /\ ~disturbed
    => Len(selected) = Min({TopK, Shortlist, Cardinality(Found)})

\* A number that the model was shown is resolved to the chunk it was shown under
\* that number, and to no other, also if chunks are dropped between the searches
\* and the prompt (citations.py:28).
ShownNumbersResolve ==
  pc = "answered" => \A n \in ToSet(markers) \cap 1..Len(shown) :
    {cite \in citations : cite[1] = n} = {<<n, shown[n]>>}

\* What citations.py:3 and README.md:117 promise: a marker that points outside
\* the context block that was sent is dropped.  The code compares it with the
\* chunks that were selected (citations.py:31, graph/nodes.py:55), of which the
\* context block may leave out the last: a number of those is a citation.
CitationsMatchContext ==
  pc = "answered" => \A cite \in citations :
    cite[1] \in 1..Len(shown) /\ cite[2] = shown[cite[1]]
=============================================================================
