---------------------------- MODULE SearchRanking ----------------------------
(***************************************************************************)
(* What a search does with the hits of the two indexes: reciprocal rank    *)
(* fusion, the cut to a page, and the merging of highlight spans.          *)
(*                                                                         *)
(* A hit is its chunk.  1 / (k + rank) is kept exact by a common           *)
(* denominator.  The optional reranker, which reorders the fused list by a *)
(* model's scores, is off by default and left out.  RankScoreReversed      *)
(* and MergeSpanToLast are mutated forms of the definitions after them,    *)
(* which no specification uses.                                            *)
(***************************************************************************)
EXTENDS Integers, Sequences, SequencesExt, FiniteSets, FiniteSetsExt, Sums

CONSTANTS
  RrfK,      \* hybrid_rrf_k
  MergedTop, \* hybrid_merged_top_k
  MaxRank    \* bound: length of a list of hits

ASSUME RankingAssumption == RrfK \in Nat \ {0} /\ MergedTop \in Nat \ {0} /\ MaxRank \in Nat

-----------------------------------------------------------------------------
(* Fusion. *)

Scale ==
  LET product[r \in 0 .. MaxRank] == IF r = 0 THEN 1 ELSE product[r - 1] * (RrfK + r)
  IN product[MaxRank]

RankScoreReversed(rank) == Scale - Scale \div (RrfK + rank)
RankScore(rank) == Scale \div (RrfK + rank)
ListScore(c, hits) == Sum([i \in DOMAIN hits |-> IF hits[i] = c THEN RankScore(i) ELSE 0])
Score(c, vec, kw) == ListScore(c, vec) + ListScore(c, kw)

\* The order of the keys of the dict of scores.
FirstSeen(c, vec, kw) == SelectInSeq(vec \o kw, LAMBDA h : h = c)

\* sorted is stable: chunks with equal scores stay in the order of the dict.
Before(c, d, vec, kw) ==
  \/ Score(c, vec, kw) > Score(d, vec, kw)
  \/ /\ Score(c, vec, kw) = Score(d, vec, kw)
     /\ FirstSeen(c, vec, kw) < FirstSeen(d, vec, kw)

Fused(vec, kw) ==
  LET chunks == ToSet(vec \o kw)
      Place(c) == 1 + Cardinality({d \in chunks : Before(d, c, vec, kw)})
  IN [i \in 1 .. Cardinality(chunks) |-> CHOOSE c \in chunks : Place(c) = i]

FirstOf(hits, n) == SubSeq(hits, 1, Min({n, Len(hits)}))

-----------------------------------------------------------------------------
(* Pages.  The total counts all fused hits; pages come from the first topK. *)

Hits(mode, vec, kw) ==
  CASE mode = "vector" -> vec
    [] mode = "bm25" -> kw
    [] mode = "hybrid" -> FirstOf(Fused(vec, kw), MergedTop)

Page(hits, page, size) ==
  LET start == (page - 1) * size
  IN SubSeq(hits, start + 1, Min({start + size, Len(hits)}))

Answer(mode, vec, kw, topK, page, size) ==
  LET hits == Hits(mode, vec, kw)
  IN [results |-> Page(FirstOf(hits, topK), page, size), total |-> Len(hits)]

PageCount(total, size) == Max({1, (total + size - 1) \div size})

-----------------------------------------------------------------------------
(* Highlights.  A span is a pair of positions, its end excluded; the spans *)
(* of all occurrences of all terms come sorted.                            *)

MergeSpanToLast(merged, s) ==
  IF merged = <<>> \/ s[1] > Last(merged)[2] THEN Append(merged, s)
  ELSE [merged EXCEPT ![Len(merged)] = <<@[1], s[2]>>]

MergeSpan(merged, s) ==
  IF merged = <<>> \/ s[1] > Last(merged)[2] THEN Append(merged, s)
  ELSE [merged EXCEPT ![Len(merged)] = <<@[1], Max({@[2], s[2]})>>]

SpanBefore(s, t) == s[1] < t[1] \/ (s[1] = t[1] /\ s[2] < t[2])
SortedSpans(spans) ==
  LET Place(s) == 1 + Cardinality({t \in spans : SpanBefore(t, s)})
  IN [i \in 1 .. Cardinality(spans) |-> CHOOSE s \in spans : Place(s) = i]

\* The spans merged from the first n.
MergedTo(sorted, n) ==
  LET merged[i \in 0 .. Len(sorted)] == IF i = 0 THEN <<>> ELSE MergeSpan(merged[i - 1], sorted[i])
  IN merged[n]

HighlightSpans(spans) ==
  LET sorted == SortedSpans(spans) IN MergedTo(sorted, Len(sorted))

Covered(spans) == UNION {s[1] .. s[2] - 1 : s \in spans}

-----------------------------------------------------------------------------
(* What the operators promise. *)

NoRepeats(hits) == \A i, j \in DOMAIN hits : hits[i] = hits[j] => i = j
RankIn(c, hits) == IF c \in ToSet(hits) THEN FirstSeen(c, hits, <<>>) ELSE MaxRank + 1

\* Each chunk once, however many copies the vector store has of it; and, unless copies
\* count twice, a chunk that no list ranks lower than another, and one ranks higher,
\* comes first.
FusesByRank(vec, kw) ==
  LET fused == Fused(vec, kw)
  IN /\ NoRepeats(fused) /\ ToSet(fused) = ToSet(vec \o kw)
     /\ NoRepeats(vec) /\ NoRepeats(kw) =>
          \A i, j \in DOMAIN fused :
            /\ RankIn(fused[i], vec) <= RankIn(fused[j], vec)
            /\ RankIn(fused[i], kw) <= RankIn(fused[j], kw)
            => i <= j

\* The pages put together are the first topK hits, in order and each once; just the pages
\* past them are empty, although the answer counts more pages when there are more hits.
PagesPartition(mode, vec, kw, topK, size) ==
  LET page(n) == Answer(mode, vec, kw, topK, n, size).results
      total == Answer(mode, vec, kw, topK, 1, size).total
      shown == Min({topK, total})
  IN /\ FlattenSeq([n \in 1 .. PageCount(total, size) |-> page(n)])
        = FirstOf(Hits(mode, vec, kw), topK)
     /\ \A n \in 1 .. PageCount(total, size) : page(n) = <<>> <=> (n - 1) * size >= shown

\* The merged spans highlight the characters of the given ones, in order, never touching.
HighlightsOnce(spans) ==
  LET merged == HighlightSpans(spans)
  IN /\ Covered(ToSet(merged)) = Covered(spans)
     /\ \A i \in 1 .. Len(merged) - 1 : merged[i][2] < merged[i + 1][1]

=============================================================================
