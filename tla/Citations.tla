------------------------------ MODULE Citations ------------------------------
(***************************************************************************)
(* The citation service: marks [ref:...] parsed sentence by sentence, the  *)
(* references verified against the context chunks, and the verified        *)
(* citations written as footnotes.                                         *)
(*                                                                         *)
(* A text is the sequence of its marks, each with the number of its        *)
(* sentence. A mark is the string between the colon and the bracket:       *)
(* Uncertain, or the sequence of its parts between bars, and whether it    *)
(* has spaces or capitals that its canonical form has not. A part is       *)
(* Blank, Malformed (without a colon, or with an empty side), Ended (the   *)
(* end of a sentence is in it) or a document and pages; pages are a pair   *)
(* of numbers as written, or Unreadable. How similar a chunk is to a       *)
(* sentence is an input: the set of the sentences it reaches the threshold *)
(* for. What the code collects in a loop and the rest only looks up or     *)
(* counts is a set; the other loops are recursive functions.               *)
(*                                                                         *)
(* LatestOf is a mutated form of the definition after it, which no         *)
(* specification uses.                                                     *)
(***************************************************************************)
EXTENDS Integers, Sequences, SequencesExt, FiniteSets, FiniteSetsExt

Doc(document, pages) == [document |-> document, pages |-> pages]
Unreadable == <<0, 0>>
Blank == Doc("blank", Unreadable)
Malformed == Doc("malformed", Unreadable)
Ended == Doc("ended", Unreadable)
Uncertain == <<Doc("uncertain", Unreadable)>>
Mark(parts, canonical) == [parts |-> parts, canonical |-> canonical]

-----------------------------------------------------------------------------
(* Parsing. *)

\* The parts of a mark that are not blank, of the first n.
PartsTo(parts, n) ==
  LET kept[i \in 0 .. Len(parts)] ==
        IF i = 0 THEN <<>>
        ELSE IF parts[i] = Blank THEN kept[i - 1] ELSE Append(kept[i - 1], parts[i])
  IN kept[n]

\* Blank parts are skipped; one malformed part spoils the mark.
parse_ref_mark(mark) ==
  LET parts == PartsTo(mark.parts, Len(mark.parts))
  IN IF mark.parts = Uncertain
     THEN [raw_mark |-> mark, is_uncertain |-> TRUE, doc_refs |-> <<>>, parse_error |-> FALSE]
     ELSE [raw_mark |-> mark, is_uncertain |-> FALSE,
           doc_refs |-> IF Malformed \in ToSet(parts) THEN <<>> ELSE parts,
           parse_error |-> Malformed \in ToSet(parts) \/ parts = <<>>]

\* split_sentences comes first: a mark with the end of a sentence in it stands in none.
Whole(mark) == Ended \notin ToSet(mark.parts)
Fails(mark) == parse_ref_mark(mark).parse_error

\* The references of the first n marks that could be parsed; errors are only counted.
ParsedTo(text, n) ==
  LET parsed[m \in 0 .. Len(text)] ==
        IF m = 0 THEN <<>>
        ELSE LET ref == parse_ref_mark(text[m].mark) IN
             IF ~Whole(text[m].mark) \/ ref.parse_error THEN parsed[m - 1]
             ELSE Append(parsed[m - 1], [ref |-> ref, sentence |-> text[m].sentence])
  IN parsed[n]

parse(text) == ParsedTo(text, Len(text))
parse_errors(text) == Cardinality({m \in DOMAIN text : Whole(text[m].mark) /\ Fails(text[m].mark)})

-----------------------------------------------------------------------------
(* Verifying. *)

PageRange(raw) == [start |-> Min({raw[1], raw[2]}), end |-> Max({raw[1], raw[2]})]
contains(outer, inner) == outer.start <= inner.start /\ outer.end >= inner.end
determine_confidence(exact, similar) ==
  CASE exact /\ similar -> "direct"
    [] ~exact /\ similar -> "fuzzy"
    [] ~similar -> "uncertain"

ConfidenceIn(chunk, ref, i) ==
  determine_confidence(
    ref.pages # Unreadable
      /\ contains([start |-> chunk.pages[1], end |-> chunk.pages[2]], PageRange(ref.pages)),
    i \in chunk.similarTo)

LatestOf(best, confidence) == IF confidence = "uncertain" THEN best ELSE confidence

\* direct > fuzzy > uncertain, in whatever order the chunks come.
Better(best, confidence) ==
  IF confidence = "direct" \/ (confidence = "fuzzy" /\ best # "direct") THEN confidence ELSE best

\* The best confidence when the first n chunks have been compared with one of the references.
BestOfChunks(best, doc_ref, i, chunks, n) ==
  LET after[m \in 0 .. Len(chunks)] ==
        IF m = 0 THEN best
        ELSE IF chunks[m].document # doc_ref.document THEN after[m - 1]
        ELSE Better(after[m - 1], ConfidenceIn(chunks[m], doc_ref, i))
  IN after[n]

\* The best confidence after the first n references.
BestOfRefs(doc_refs, i, chunks, n) ==
  LET after[m \in 0 .. Len(doc_refs)] ==
        IF m = 0 THEN "uncertain"
        ELSE BestOfChunks(after[m - 1], doc_refs[m], i, chunks, Len(chunks))
  IN after[n]

\* The chunks of the documents of the references that are worth something.
Matches(doc_refs, i, chunks) ==
  {c \in ToSet(chunks) : \E r \in ToSet(doc_refs) :
     r.document = c.document /\ ConfidenceIn(c, r, i) # "uncertain"}

\* The canonical form of a mark; "uncertain" for the marks that say so.
RefId(ref) == IF ref.is_uncertain THEN Uncertain ELSE ref.doc_refs

verify_single(ref, i, chunks) ==
  [ref_id |-> RefId(ref), sentence_index |-> i,
   confidence |-> IF ref.is_uncertain THEN "uncertain"
                  ELSE BestOfRefs(ref.doc_refs, i, chunks, Len(ref.doc_refs)),
   matched_chunks |-> IF ref.is_uncertain THEN {} ELSE Matches(ref.doc_refs, i, chunks)]

verify(text, chunks) ==
  [k \in DOMAIN parse(text) |-> verify_single(parse(text)[k].ref, parse(text)[k].sentence, chunks)]

Counted(citations, confidence) ==
  Cardinality({c \in DOMAIN citations : citations[c].confidence = confidence})

build_summary(citations) ==
  [total |-> Len(citations), direct |-> Counted(citations, "direct"),
   fuzzy |-> Counted(citations, "fuzzy"), uncertain |-> Counted(citations, "uncertain")]

-----------------------------------------------------------------------------
(* Footnotes. *)

\* The marks in the order of their numbers, of the first n of the text.
FootnotesTo(text, n) ==
  LET notes[m \in 0 .. Len(text)] ==
        IF m = 0 THEN <<>>
        ELSE IF text[m].mark \in ToSet(notes[m - 1]) THEN notes[m - 1]
        ELSE Append(notes[m - 1], text[m].mark)
  IN notes[n]

footnote_map(text) == FootnotesTo(text, Len(text))

\* A verified citation's ref_id is canonical: a mark whose string is not finds none.
Finds(mark, citation) ==
  mark.canonical /\ Blank \notin ToSet(mark.parts) /\ citation.ref_id = mark.parts

\* Of citations with the same reference the dict keeps the last.
Looked(mark, citations) ==
  LET same == {c \in DOMAIN citations : Finds(mark, citations[c])}
  IN IF same = {} THEN "none" ELSE citations[Max(same)].confidence

format_markdown(text, citations) ==
  LET notes == footnote_map(text)
  IN [numbers |-> [m \in DOMAIN text |-> SelectInSeq(notes, LAMBDA n : n = text[m].mark)],
      notes |-> [n \in DOMAIN notes |-> [mark |-> notes[n], confidence |-> Looked(notes[n], citations)]]]

-----------------------------------------------------------------------------
(* What the operators promise. *)

\* A citation is direct only when a chunk like its sentence covers the pages of one of its
\* references, and always when one has exactly these pages; it is uncertain only without a
\* chunk like its sentence.  Its other references do not weaken it, nor does the order in
\* which chunks and references are compared.  (Between the two the code says direct where
\* the docstring, verifier.py:254, says fuzzy: a chunk of more pages than cited.)
ConfidenceIsEarned(text, chunks) ==
  LET refs == parse(text)
      citations == verify(text, chunks)
      Near(ref, c) == {r \in ToSet(ref.doc_refs) : r.document = c.document}
      Covers(ref, c) ==
        \E r \in Near(ref, c) :
          r.pages # Unreadable
          /\ \A n \in PageRange(r.pages).start .. PageRange(r.pages).end :
               PageRange(c.pages).start <= n /\ n <= PageRange(c.pages).end
      Exact(ref, c) ==
        \E r \in Near(ref, c) : r.pages # Unreadable /\ PageRange(r.pages) = PageRange(c.pages)
  IN \A k \in DOMAIN citations :
       LET like == {c \in ToSet(chunks) :
                      citations[k].sentence_index \in c.similarTo /\ Near(refs[k].ref, c) # {}}
       IN /\ citations[k].confidence = "direct" => \E c \in like : Covers(refs[k].ref, c)
          /\ (\E c \in like : Exact(refs[k].ref, c)) => citations[k].confidence = "direct"
          /\ citations[k].confidence = "uncertain" <=> like = {}
          /\ citations[k].matched_chunks = like

\* Every mark of the text that no end of a sentence cuts is accounted for once: as a parse
\* error or as a citation, and each citation in one of the three counts.
MarksAccounted(text, chunks) ==
  LET summary == build_summary(verify(text, chunks))
  IN /\ summary.total + parse_errors(text) = Cardinality({m \in DOMAIN text : Whole(text[m].mark)})
     /\ summary.direct + summary.fuzzy + summary.uncertain = summary.total

\* The footnotes are numbered 1, 2, ... in the order of their first marks, equal marks share
\* one, and a note that gives a confidence gives that of a citation of its mark.
FootnotesMatch(text, chunks) ==
  LET citations == verify(text, chunks)
      page == format_markdown(text, citations)
  IN /\ \A m \in DOMAIN page.numbers :
          /\ page.notes[page.numbers[m]].mark = text[m].mark
          /\ \A n \in 1 .. page.numbers[m] : \E l \in 1 .. m : page.numbers[l] = n
     /\ ToSet(page.numbers) = DOMAIN page.notes
     /\ \A n \in DOMAIN page.notes : page.notes[n].confidence # "none" =>
          \E c \in DOMAIN citations : /\ citations[c].ref_id = page.notes[n].mark.parts
                                      /\ citations[c].confidence = page.notes[n].confidence

=============================================================================
