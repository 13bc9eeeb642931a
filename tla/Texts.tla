--------------------------------- MODULE Texts ---------------------------------
(***************************************************************************)
(* The algorithms over texts, files and lists of hits, on any input: a     *)
(* behavior picks one case, an algorithm with its input, and the           *)
(* properties say what the algorithm makes of it.                          *)
(***************************************************************************)
EXTENDS Chunking, Intake, SearchRanking, Citations

CONSTANTS
  ChunkIds, HitLists,    \* chunks, and the lists of hits an index answers with
  TopKs, PageSizes,      \* top_k and page_size of a search
  SpanSets,              \* the occurrences of a query's terms in a text
  GroupTexts,            \* texts by groups and pieces
  Headings,              \* texts by their length and where sections start
  PageLengths,           \* texts by the lengths of their pages
  CitedTexts, Contexts,  \* texts by their marks, and lists of context chunks
  Files, Pdfs            \* files, and PDFs by their pages

Magics == {"pdf", "zip", "ole", "none"}
FileSizes == {"empty", "fits", "too_large"}
Span == {s \in Nat \X Nat : s[1] < s[2]}
PageOfPdf == [layer : BOOLEAN, images : SUBSET {"legible", "wordless", "tiny"}]
Part == [document : STRING, pages : Nat \X Nat]
MarkAt == [mark : [parts : Seq(Part), canonical : BOOLEAN], sentence : Nat]
ContextChunk == [document : STRING, pages : Nat \X Nat, similarTo : SUBSET Nat]

ASSUME TextsAssumption ==
  /\ \A hits \in HitLists : hits \in Seq(ChunkIds) /\ Len(hits) <= MaxRank
  /\ TopKs \subseteq Nat \ {0} /\ PageSizes \subseteq Nat \ {0}
  /\ \A spans \in SpanSets : IsFiniteSet(spans) /\ spans \subseteq Span
  /\ GroupTexts \subseteq Seq(Seq(Nat))
  /\ \A h \in Headings :
       /\ h.length \in Nat \ {0} /\ h.starts \in Seq(0 .. h.length)
       /\ \A i, j \in DOMAIN h.starts : i < j => h.starts[i] <= h.starts[j]
  /\ PageLengths \subseteq Seq(Nat) \ {<<>>}
  /\ CitedTexts \subseteq Seq(MarkAt) /\ Contexts \subseteq Seq(ContextChunk)
  /\ \A chunks \in Contexts : \A c \in DOMAIN chunks : chunks[c].pages[1] <= chunks[c].pages[2]
  /\ Files \subseteq [dotted : BOOLEAN, ending : STRING, type : STRING, size : FileSizes,
                      magic : Magics]
  /\ Pdfs \subseteq Seq(PageOfPdf)

VARIABLE case

Init == case = [of |-> "none"]

\* The vector store may hold copies, the keyword index holds each chunk once.
PickHits ==
  \E vec, kw \in HitLists, mode \in {"vector", "bm25", "hybrid"}, topK \in TopKs, size \in PageSizes :
    /\ NoRepeats(kw)
    /\ case' = [of |-> "hits", vec |-> vec, kw |-> kw, mode |-> mode, topK |-> topK, size |-> size]

PickSpans == \E spans \in SpanSets : case' = [of |-> "spans", spans |-> spans]

PickText == \E groups \in GroupTexts : case' = [of |-> "text", groups |-> groups]

PickHeadings ==
  \E h \in Headings : case' = [of |-> "headings", length |-> h.length, starts |-> h.starts]

TextLength(lengths) == PageStart(lengths, Len(lengths)) + lengths[Len(lengths)]

\* A chunk stands somewhere in the full text, or nowhere.
PickPages ==
  \E lengths \in PageLengths :
    \E from \in NotFound .. TextLength(lengths) - 1 : \E to \in from + 1 .. TextLength(lengths) :
      case' = [of |-> "pages", lengths |-> lengths, from |-> from, to |-> to]

PickCitations ==
  \E text \in CitedTexts, chunks \in Contexts :
    case' = [of |-> "citations", text |-> text, chunks |-> chunks]

PickFile == \E file \in Files : case' = [of |-> "file", file |-> file]

PickPdf == \E pdf \in Pdfs : case' = [of |-> "pdf", pdf |-> pdf]

Next ==
  /\ case.of = "none"
  /\ \/ PickHits \/ PickSpans \/ PickText \/ PickHeadings \/ PickPages \/ PickCitations
     \/ PickFile \/ PickPdf

Spec == Init /\ [][Next]_case

-----------------------------------------------------------------------------
(* Properties. *)

\* SearchRanking: fusion keeps every chunk once and respects the two rankings; the pages of
\* an answer are its first topK hits, each once, and only the pages that the total promises
\* beyond them are empty; overlapping and nested occurrences are highlighted once.
SearchesAreSound ==
  /\ case.of = "hits" =>
       /\ FusesByRank(case.vec, case.kw)
       /\ PagesPartition(case.mode, case.vec, case.kw, case.topK, case.size)
  /\ case.of = "spans" => HighlightsOnce(case.spans)

\* Chunking: no text is lost, repeated or reordered by packing and splitting, chunks pass
\* their bounds only where the algorithm has no choice, and the pages of a chunk hold it.
ChunksAreSound ==
  /\ case.of = "text" =>
       \A chunks \in {chunk_paragraph_level(case.groups), chunk_section_level(case.groups)} :
         /\ KeepsText(chunks, case.groups)
         /\ BoundedChunks(chunks, case.groups)
         /\ SmallOnlyAtBreaks(chunks, case.groups)
  /\ case.of = "pages" => RangeHolds(case.lengths, case.from, case.to)

\* Chunking: a section chunk is titled by the section it begins with, also after a section
\* that was cut; and the text is covered whatever positions the headings have.
SectionsAreSound ==
  /\ case.of = "text" => TitledByFirst(chunk_section_level(case.groups))
  /\ case.of = "headings" =>
       /\ SegmentsCover(case.length, case.starts)
       /\ \A from \in 0 .. case.length - 1 : TitleHolds(case.length, case.starts, from)

\* Citations: the confidence of each citation is what its chunks and pages warrant in whatever
\* order they are compared, every mark that no end of a sentence cuts is counted once, and
\* footnotes are numbered without gaps and say what was verified.
CitationsAreSound ==
  case.of = "citations" =>
    /\ ConfidenceIsEarned(case.text, case.chunks)
    /\ MarksAccounted(case.text, case.chunks)
    /\ FootnotesMatch(case.text, case.chunks)

\* Intake: what the service accepts goes to a parser for the kind of its bytes, which is the
\* one its name promises when the name tells the truth; the page's and the service's checks
\* agree; and of each page of a PDF its layer is read, or the words of its images.
IntakeIsSound ==
  /\ case.of = "file" => AcceptedIsParsed(case.file) /\ PageAndServiceAgree(case.file)
  /\ case.of = "pdf" => PagesAreRead(case.pdf)

=============================================================================
