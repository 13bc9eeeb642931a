-------------------------------- MODULE MCText --------------------------------
(***************************************************************************)
(* TLC instances of Texts: every input of small sets.                      *)
(***************************************************************************)
EXTENDS Texts

SeqsUpTo(S, n) == UNION {[1 .. k -> S] : k \in 0 .. n}

MCChunkIds == {"a", "b", "c"}
MCHitLists == SeqsUpTo(MCChunkIds, 3)
MCSpanSets == UNION {kSubset(n, {s \in (0 .. 5) \X (1 .. 6) : s[1] < s[2]}) : n \in 0 .. 3}

\* Groups of one or two pieces: small, fitting, and larger than a chunk.
MCGroupTexts == SeqsUpTo(SeqsUpTo({1, 2, 5, 11}, 2) \ {<<>>}, 3)

MCHeadings ==
  {[length |-> length, starts |-> starts] : length \in 1 .. 4,
     starts \in {s \in SeqsUpTo(0 .. 4, 4) : \A i \in 1 .. Len(s) - 1 : s[i] <= s[i + 1]}}
MCFittingHeadings == {h \in MCHeadings : \A i \in DOMAIN h.starts : h.starts[i] <= h.length}

MCPageLengths == SeqsUpTo(0 .. 2, 3) \ {<<>>}

MCParts == {Doc("d1", <<3, 2>>), Doc("d1", <<4, 4>>), Doc("d2", Unreadable)}
MCMarks ==
  {Mark(Uncertain, TRUE), Mark(<<Malformed>>, TRUE), Mark(<<Blank>>, TRUE),
   Mark(<<Ended, Doc("d1", <<4, 4>>)>>, TRUE)}
  \cup {Mark(<<p>>, TRUE) : p \in MCParts}
  \cup {Mark(<<Doc("d1", <<3, 2>>), Doc("d2", Unreadable)>>, canonical) : canonical \in BOOLEAN}
  \cup {Mark(<<Doc("d1", <<3, 2>>), Malformed>>, TRUE)}
\* Texts of two marks, in one sentence or two.
MCCitedTexts ==
  {<<[mark |-> first, sentence |-> 1], [mark |-> second, sentence |-> s]>> :
     first \in MCMarks, second \in MCMarks, s \in {1, 2}}
\* Chunks with the pages that are cited, with more, and with some of them.
MCContexts ==
  SeqsUpTo({[document |-> d, pages |-> pages, similarTo |-> likes] :
              d \in {"d1", "d2"}, pages \in {<<2, 3>>, <<3, 5>>}, likes \in {{}, {1}, {2}}}, 2)

\* Names and types with and without what the tables know.
MCFiles ==
  [dotted : BOOLEAN, ending : ALLOWED_EXTENSIONS \cup {"exe"},
   type : ALLOWED_MIME_TYPES \cup {Untyped, "application/octet-stream", "other"},
   size : FileSizes, magic : Magics]
MCPdfs ==
  SeqsUpTo([layer : BOOLEAN, images : {{}, {"legible"}, {"wordless"}, {"tiny"}}], 3)

=============================================================================
