------------------------------- MODULE Chunking -------------------------------
(***************************************************************************)
(* How the document service cuts a text into chunks: paragraphs packed     *)
(* into paragraph chunks, sections into section chunks, and what is too    *)
(* large cut at sentences or paragraphs.                                   *)
(*                                                                         *)
(* A text is a sequence of groups, a group (a paragraph, a section) a      *)
(* sequence of pieces (sentences, paragraphs), a piece its token count; a  *)
(* group's tokens are taken as the sum of its pieces'. A chunk is the      *)
(* sequence of the places, <<group, piece>>, of what it holds. The text a  *)
(* chunk repeats from the end of the one before it is left out. A loop of  *)
(* the code is a recursive function: what it has after so many rounds.     *)
(*                                                                         *)
(* OversizedDroppingCurrent and TitleKept are mutated forms of the         *)
(* definitions after them, which no specification uses.                    *)
(***************************************************************************)
EXTENDS Integers, Sequences, SequencesExt, FiniteSetsExt, Sums

CONSTANTS
  Target, MinTokens, MaxTokens \* of a kind of chunks: 300, 100, 500 or 2000, 500, 3000

ASSUME ChunkingAssumption ==
  /\ Target \in Nat /\ MinTokens \in Nat \ {0} /\ MaxTokens \in Nat \ {0}
  /\ Target < MaxTokens + MinTokens

TokensOf(chunk, groups) == Sum([i \in DOMAIN chunk |-> groups[chunk[i][1]][chunk[i][2]]])
Places(groups, g) == [s \in DOMAIN groups[g] |-> <<g, s>>]

NoChunk == <<>>

-----------------------------------------------------------------------------
(* Groups larger than MaxTokens. *)

SplitStep(acc, tokens, place) ==
  IF acc.tokens + tokens > MaxTokens /\ acc.current # NoChunk
  THEN [done |-> Append(acc.done, acc.current), current |-> <<place>>, tokens |-> tokens]
  ELSE [done |-> acc.done, current |-> Append(acc.current, place), tokens |-> acc.tokens + tokens]

SplitTo(groups, g, n) ==
  LET acc[s \in 0 .. Len(groups[g])] ==
        IF s = 0 THEN [done |-> <<>>, current |-> NoChunk, tokens |-> 0]
        ELSE SplitStep(acc[s - 1], groups[g][s], <<g, s>>)
  IN acc[n]

SplitGroup(groups, g) ==
  LET acc == SplitTo(groups, g, Len(groups[g]))
  IN IF acc.current = NoChunk THEN acc.done ELSE Append(acc.done, acc.current)

-----------------------------------------------------------------------------
(* Packing.  Paragraph and section chunks differ in that sections give a   *)
(* chunk the title of a group; paragraph chunks all have title 0 here.     *)

Empty == [done |-> <<>>, current |-> NoChunk, tokens |-> 0, title |-> 0]

\* A chunk that is done, with the title of its section, 0 if it has none.
Done(chunk, title) == [places |-> chunk, title |-> title]
Flushed(acc) ==
  IF acc.current = NoChunk THEN acc.done ELSE Append(acc.done, Done(acc.current, acc.title))

Cut(groups, g, title) ==
  [i \in DOMAIN SplitGroup(groups, g) |-> Done(SplitGroup(groups, g)[i], title)]

OversizedDroppingCurrent(acc, groups, g, title) ==
  [acc EXCEPT !.done = @ \o Cut(groups, g, title), !.current = NoChunk, !.tokens = 0]

Oversized(acc, groups, g, title) ==
  [done |-> Flushed(acc) \o Cut(groups, g, title), current |-> NoChunk, tokens |-> 0,
   title |-> acc.title]

StartsNext(acc, tokens) == acc.tokens + tokens > Target /\ acc.tokens >= MinTokens

TitleKept(acc, title) == IF acc.title = 0 THEN title ELSE acc.title
TitleWhenJoining(acc, title) ==
  IF acc.current = NoChunk \/ acc.title = 0 THEN title ELSE acc.title

Pack(acc, groups, g, title) ==
  LET tokens == Sum(groups[g]) IN
  IF tokens = 0 THEN acc
  ELSE IF tokens > MaxTokens THEN Oversized(acc, groups, g, title)
  ELSE IF StartsNext(acc, tokens)
  THEN [done |-> Append(acc.done, Done(acc.current, acc.title)),
        current |-> Places(groups, g), tokens |-> tokens, title |-> title]
  ELSE [done |-> acc.done, current |-> acc.current \o Places(groups, g),
        tokens |-> acc.tokens + tokens, title |-> TitleWhenJoining(acc, title)]

PackTo(groups, titled, n) ==
  LET acc[g \in 0 .. Len(groups)] ==
        IF g = 0 THEN Empty ELSE Pack(acc[g - 1], groups, g, IF titled THEN g ELSE 0)
  IN acc[n]

chunk_paragraph_level(groups) == Flushed(PackTo(groups, FALSE, Len(groups)))
chunk_section_level(groups) == Flushed(PackTo(groups, TRUE, Len(groups)))

-----------------------------------------------------------------------------
(* The text between the headings.  Sections come in the order of their     *)
(* headings; parsers that do not know the positions (PDF, HTML, slides,    *)
(* sheets) give every one position 0.  Title 0 is the front matter.        *)

Segment(title, from, to) == [title |-> title, from |-> from, to |-> to]

SegmentEnd(length, starts, i) == IF i < Len(starts) THEN starts[i + 1] ELSE length

\* The segments of the first n sections; a section without text has none.
NamedTo(length, starts, n) ==
  LET named[i \in 0 .. Len(starts)] ==
        IF i = 0 THEN <<>>
        ELSE IF starts[i] < SegmentEnd(length, starts, i)
        THEN Append(named[i - 1], Segment(i, starts[i], SegmentEnd(length, starts, i)))
        ELSE named[i - 1]
  IN named[n]

split_by_sections(length, starts) ==
  LET named == NamedTo(length, starts, Len(starts))
  IN IF named = <<>> THEN <<Segment(0, 0, length)>>
     ELSE IF starts[1] > 0 THEN <<Segment(0, 0, starts[1])>> \o named ELSE named

-----------------------------------------------------------------------------
(* Where a chunk stands that starts at character from and ends before to:  *)
(* the full text is the pages' texts with two characters between them.     *)
(* NotFound is the start of a chunk that, with what it repeats of the one  *)
(* before, is no part of the full text.                                    *)

NotFound == -1

PageStart(lengths, n) == SumTo(lengths, n - 1) + 2 * (n - 1)
PageNext(lengths, n) == PageStart(lengths, n) + lengths[n] + 2

FirstPage(found, default) == IF found = {} THEN default ELSE Min(found)

find_page_range(lengths, from, to) ==
  LET startsOn(n) == PageStart(lengths, n) <= from /\ from < PageNext(lengths, n)
      endsOn(n) == PageStart(lengths, n) <= to /\ to <= PageNext(lengths, n)
      first == FirstPage({n \in DOMAIN lengths : startsOn(n)}, 1)
  IN IF from = NotFound THEN [page_start |-> 0, page_end |-> 0]
     ELSE [page_start |-> first, page_end |-> FirstPage({n \in DOMAIN lengths : endsOn(n)}, first)]

\* The nearest section at or before the chunk, of several the first; 0 if there is none.
find_section_title(starts, from) ==
  LET before == {i \in DOMAIN starts : \A j \in 1 .. i : starts[j] <= from}
      nearest == {i \in before : \A j \in before : starts[j] <= starts[i]}
  IN IF nearest = {} THEN 0 ELSE Min(nearest)

-----------------------------------------------------------------------------
(* What the operators promise. *)

\* All pieces of the groups that have tokens, in the order of the text, each in one chunk;
\* no chunk is empty.
KeepsText(chunks, groups) ==
  /\ FlattenSeq([i \in DOMAIN chunks |-> chunks[i].places])
     = FlattenSeq([g \in DOMAIN groups |-> IF Sum(groups[g]) = 0 THEN <<>> ELSE Places(groups, g)])
  /\ \A i \in DOMAIN chunks : chunks[i].places # <<>>

\* A chunk may pass MaxTokens only as a single piece, or by less than MinTokens, when a
\* small chunk took a large group in.
BoundedChunks(chunks, groups) ==
  \A i \in DOMAIN chunks :
    \/ TokensOf(chunks[i].places, groups) < MaxTokens + MinTokens
    \/ Len(chunks[i].places) = 1

\* A chunk below MinTokens is the last, stands before a group too large to join, or is a
\* piece of such a group.
SmallOnlyAtBreaks(chunks, groups) ==
  LET group(i) == Last(chunks[i].places)[1] IN
  \A i \in DOMAIN chunks :
    TokensOf(chunks[i].places, groups) < MinTokens =>
      \/ i = Len(chunks)
      \/ Sum(groups[group(i)]) > MaxTokens \/ Sum(groups[Head(chunks[i + 1].places)[1]]) > MaxTokens

\* The title of a section chunk is that of the section its text begins with.
TitledByFirst(chunks) == \A i \in DOMAIN chunks : chunks[i].title = Head(chunks[i].places)[1]

\* The segments follow each other and cover the text.
SegmentsCover(length, starts) ==
  LET segments == split_by_sections(length, starts)
  IN /\ segments[1].from = 0 /\ Last(segments).to = length
     /\ \A i \in 1 .. Len(segments) - 1 : segments[i].to = segments[i + 1].from

\* The section that titles a paragraph chunk holds its first character, unless parsers gave
\* sections the same position.
TitleHolds(length, starts, from) ==
  LET title == find_section_title(starts, from)
      distinct == \A i, j \in DOMAIN starts : starts[i] = starts[j] => i = j
  IN distinct => \E s \in ToSet(split_by_sections(length, starts)) :
                   s.title = title /\ s.from <= from /\ from < s.to

\* Every character of the chunk is on a page of its range, and the chunk has characters
\* (or the separator before them) on the first and on the last.
RangeHolds(lengths, from, to) ==
  LET range == find_page_range(lengths, from, to)
  IN from # NotFound =>
     /\ range.page_start <= range.page_end
     /\ PageStart(lengths, range.page_start) <= from
     /\ to <= PageNext(lengths, range.page_end)
     /\ from < PageNext(lengths, range.page_start) /\ PageStart(lengths, range.page_end) <= to

=============================================================================
