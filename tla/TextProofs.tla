------------------------------ MODULE TextProofs ------------------------------
(***************************************************************************)
(* Proofs about Intake, SearchRanking and Citations, for any files, lists  *)
(* of hits and texts with marks of Texts: what is accepted is parsed,      *)
(* fusion keeps both rankings, highlights and pages show each thing once,  *)
(* citations have the confidence they earn and footnotes match.  Loops are *)
(* dealt with as in ChunkProofs, whose lemmas about sequences are used.    *)
(***************************************************************************)
EXTENDS ChunkProofs

-----------------------------------------------------------------------------
(* Intake. *)

\* What the checks know of a file.
FileType ==
  [dotted : BOOLEAN, ending : STRING, type : STRING, size : FileSizes, magic : Magics]

\* The table of the extensions, by the families of their formats.
LEMMA FormatOf ==
  ASSUME NEW e \in ALLOWED_EXTENSIONS
  PROVE  \/ e \in {"doc", "docx"} /\ EXTENSION_FORMAT_MAP[e] = "docx"
         \/ e \in {"xls", "xlsx"} /\ EXTENSION_FORMAT_MAP[e] = "xlsx"
         \/ e \in {"ppt", "pptx"} /\ EXTENSION_FORMAT_MAP[e] = "pptx"
         \/ e = "pdf" /\ EXTENSION_FORMAT_MAP[e] = "pdf"
         \/ e = "csv" /\ EXTENSION_FORMAT_MAP[e] = "csv"
         \/ e = "md" /\ EXTENSION_FORMAT_MAP[e] = "markdown"
         \/ e = "txt" /\ EXTENSION_FORMAT_MAP[e] = "txt"
         \/ e = "eml" /\ EXTENSION_FORMAT_MAP[e] = "eml"
         \/ e \in {"html", "mhtml", "mht"} /\ EXTENSION_FORMAT_MAP[e] = "html"
         \/ e \in {"png", "jpg", "jpeg", "tiff", "bmp"} /\ EXTENSION_FORMAT_MAP[e] = "image"
<1>1. e \in {"pdf", "docx", "doc", "xlsx", "xls", "csv", "pptx", "ppt", "md", "txt", "eml",
             "html", "mhtml", "mht", "png", "jpg", "jpeg", "tiff", "bmp"}
  BY DEF ALLOWED_EXTENSIONS, EXTENSION_FORMAT_MAP
<1>. QED
  BY <1>1 DEF EXTENSION_FORMAT_MAP

\* Each format that the tables name has a parser.
LEMMA Parsed ==
  {"pdf", "docx", "markdown", "txt", "xlsx", "csv", "pptx", "eml", "html", "image"}
  \subseteq DOMAIN PARSER_REGISTRY
BY DEF PARSER_REGISTRY

\* An accepted file's format is one of the kind of its bytes, and that of its name if this is true.
LEMMA AcceptedSound ==
  ASSUME NEW file \in FileType
  PROVE  AcceptedIsParsed(file)
<1> SUFFICES ASSUME validate_file(file) = "accepted"
             PROVE  /\ identify_format(file) \in DOMAIN PARSER_REGISTRY
                    /\ identify_format(file) = "pdf" <=> file.magic = "pdf"
                    /\ identify_format(file) \in {"docx", "xlsx", "pptx"}
                       <=> file.magic \in {"zip", "ole"}
                    /\ Genuine(file) => identify_format(file) = EXTENSION_FORMAT_MAP[file.ending]
  BY DEF AcceptedIsParsed
<1>1. file.magic \in {"pdf", "zip", "ole", "none"}
  BY DEF FileType, Magics
<1>2. file.ending \in ALLOWED_EXTENSIONS
  BY DEF validate_file
<1>3. PICK e \in ALLOWED_EXTENSIONS : e = file.ending
  BY <1>2
<1>4. PICK format : format = EXTENSION_FORMAT_MAP[e]
  OBVIOUS
<1>5. format \in {"pdf", "docx", "markdown", "txt", "xlsx", "csv", "pptx", "eml", "html", "image"}
  BY <1>4, FormatOf
<1>6. Family(e) \in {"docx", "xlsx", "pptx"}
  BY DEF Family
<1>7. CASE file.magic = "pdf"
  <2>1. identify_format(file) = "pdf"
    BY <1>7 DEF identify_format
  <2>2. Genuine(file) => e = "pdf"
    BY <1>3, <1>7 DEF Genuine
  <2>3. e = "pdf" => format = "pdf"
    BY <1>4, FormatOf
  <2>. QED
    BY <1>3, <1>4, <1>7, <2>1, <2>2, <2>3, Parsed
<1>8. CASE file.magic = "zip"
  <2>1. identify_format(file) = IF e = "csv" THEN "xlsx" ELSE Family(e)
    BY <1>3, <1>8 DEF identify_format
  <2>2. Genuine(file) => e \in {"docx", "xlsx", "pptx"}
    BY <1>3, <1>8 DEF Genuine
  <2>3. e \in {"docx", "xlsx", "pptx"} => Family(e) = e /\ format = e
    BY <1>4, FormatOf DEF Family
  <2>. QED
    BY <1>3, <1>4, <1>6, <1>8, <2>1, <2>2, <2>3, Parsed
<1>9. CASE file.magic = "ole"
  <2>1. identify_format(file) = Family(e)
    BY <1>3, <1>9 DEF identify_format
  <2>2. Genuine(file) => e \in {"doc", "xls", "ppt"}
    BY <1>3, <1>9 DEF Genuine
  <2>3. e \in {"doc", "xls", "ppt"} => Family(e) = format
    BY <1>4, FormatOf DEF Family
  <2>. QED
    BY <1>3, <1>4, <1>6, <1>9, <2>1, <2>2, <2>3, Parsed
<1>10. CASE file.magic = "none"
  <2>1. identify_format(file) = format
    BY <1>3, <1>4, <1>10 DEF identify_format
  <2>2. e \in ExtensionBypass
    BY <1>3, <1>10 DEF validate_file
  <2>3. format \notin {"pdf", "docx", "xlsx", "pptx"}
    BY <1>4, <2>2, FormatOf DEF ExtensionBypass
  <2>. QED
    BY <1>3, <1>4, <1>5, <1>10, <2>1, <2>3, Parsed
<1>. QED
  BY <1>1, <1>7, <1>8, <1>9, <1>10

\* The page refuses what the service would, but for a name without a dot.
LEMMA PageAgrees ==
  ASSUME NEW file \in FileType
  PROVE  PageAndServiceAgree(file)
<1> SUFFICES ASSUME LetThrough(file), file.dotted, file.ending \in PageExtensions,
                    file.type \in PageTypes \cup {Untyped}
             PROVE  validate_file(Sent(file)) \in {"accepted", "DOC_FILE_EMPTY", "DOC_MAGIC_MISMATCH"}
  BY DEF PageAndServiceAgree
<1>1. PICK sent : sent = Sent(file)
  OBVIOUS
<1>2. /\ sent.dotted /\ sent.ending = file.ending /\ sent.size = file.size
      /\ sent.type = IF file.type = Untyped THEN "application/octet-stream" ELSE file.type
  BY <1>1 DEF Sent, FileType
<1>3. file.size # "too_large"
  BY DEF LetThrough
<1>4. file.ending \in ALLOWED_EXTENSIONS
  BY DEF PageExtensions
<1>5. file.ending # ""
  BY <1>4, FormatOf
<1>6. PageTypes \subseteq ALLOWED_MIME_TYPES
  BY DEF PageTypes, ALLOWED_MIME_TYPES
<1>7. sent.type \in ALLOWED_MIME_TYPES \cup {Untyped, "application/octet-stream"}
  BY <1>2, <1>6
<1>8. extension(sent) # ""
  BY <1>2, <1>5 DEF extension
<1>. QED
  BY <1>1, <1>2, <1>3, <1>4, <1>7, <1>8 DEF validate_file

\* A page of a PDF is read by its text layer, its images or both.
LEMMA PdfSound ==
  ASSUME NEW pages \in Seq(PageOfPdf)
  PROVE  PagesAreRead(pages)
<1> SUFFICES ASSUME NEW p \in DOMAIN pages
             PROVE  /\ pages[p].layer => "layer" \in parse_document(pages)[p]
                    /\ "legible" \in pages[p].images =>
                         \/ parse_document(pages)[p] \cap {"legible", "render"} # {}
                         \/ pages[p].layer /\ \A q \in DOMAIN pages : q <= PagesTried => ~pages[q].layer
  BY DEF PagesAreRead
<1>1. parse_document(pages)[p]
      = IF detect_pdf_text_layer(pages) THEN ParsedPage(pages[p]) ELSE OcrPage(pages[p])
  BY DEF parse_document
<1>2. CASE detect_pdf_text_layer(pages)
  <2>1. parse_document(pages)[p]
        = (IF pages[p].layer THEN {"layer"} ELSE {}) \cup {image \in pages[p].images : image = "legible"}
    BY <1>1, <1>2 DEF ParsedPage, Readable
  <2>. QED
    BY <2>1
<1>3. CASE ~ detect_pdf_text_layer(pages)
  <2>1. parse_document(pages)[p] = IF pages[p].layer THEN {"layer"} ELSE {"render"}
    BY <1>1, <1>3 DEF OcrPage
  <2>2. \A q \in DOMAIN pages : q <= PagesTried => ~pages[q].layer
    BY <1>3 DEF detect_pdf_text_layer
  <2>. QED
    BY <2>1, <2>2
<1>. QED
  BY <1>2, <1>3

-----------------------------------------------------------------------------
(* Rankings: the place of an element is one more than how many come before. *)

\* What comes before an element, and the place that this leaves it.
Under(c, C, R) == {d \in C : <<d, c>> \in R}
Place(c, C, R) == 1 + Cardinality(Under(c, C, R))

\* A strict order of all the elements of a finite set.
Orders(R, C) ==
  /\ IsFiniteSet(C)
  /\ \A c \in C : <<c, c>> \notin R
  /\ \A c, d, e \in C : <<c, d>> \in R /\ <<d, e>> \in R => <<c, e>> \in R
  /\ \A c, d \in C : c # d => <<c, d>> \in R \/ <<d, c>> \in R

\* Places are 1 .. Cardinality(C), and an element before another has the lower place.
LEMMA PlacesInOrder ==
  ASSUME NEW C, NEW R, Orders(R, C)
  PROVE  /\ Cardinality(C) \in Nat
         /\ \A c \in C : Place(c, C, R) \in 1 .. Cardinality(C)
         /\ \A c, d \in C : <<c, d>> \in R => Place(c, C, R) < Place(d, C, R)
<1>1. IsFiniteSet(C) /\ Cardinality(C) \in Nat
  BY FS_CardinalityType DEF Orders
<1>2. ASSUME NEW c \in C
      PROVE  /\ IsFiniteSet(Under(c, C, R)) /\ Cardinality(Under(c, C, R)) \in Nat
             /\ Cardinality(Under(c, C, R)) < Cardinality(C)
  <2>1. Under(c, C, R) \in SUBSET C /\ c \notin Under(c, C, R)
    BY DEF Under, Orders
  <2>2. IsFiniteSet(Under(c, C, R)) /\ Cardinality(Under(c, C, R)) <= Cardinality(C)
        /\ Cardinality(Under(c, C, R)) # Cardinality(C)
    BY <1>1, <2>1, FS_Subset
  <2>. QED
    BY <1>1, <2>2, FS_CardinalityType
<1>3. ASSUME NEW c \in C, NEW d \in C, <<c, d>> \in R
      PROVE  Cardinality(Under(c, C, R)) < Cardinality(Under(d, C, R))
  <2>1. Under(c, C, R) \in SUBSET Under(d, C, R) /\ c \in Under(d, C, R) /\ c \notin Under(c, C, R)
    BY <1>3 DEF Under, Orders
  <2>2. Cardinality(Under(c, C, R)) <= Cardinality(Under(d, C, R))
        /\ Cardinality(Under(c, C, R)) # Cardinality(Under(d, C, R))
    BY <1>2, <2>1, FS_Subset
  <2>. QED
    BY <1>2, <2>2
<1>. QED
  BY <1>1, <1>2, <1>3 DEF Place

\* Each place is taken: else two elements would share one.
LEMMA PlacesTaken ==
  ASSUME NEW C, NEW R, Orders(R, C), NEW k \in 1 .. Cardinality(C)
  PROVE  \E c \in C : Place(c, C, R) = k
<1> DEFINE N == Cardinality(C)
           T == (1 .. N) \ {k}
           f == [c \in C |-> Place(c, C, R)]
<1>1. SUFFICES ASSUME \A c \in C : Place(c, C, R) # k PROVE FALSE
  OBVIOUS
<1>2. N \in Nat /\ IsFiniteSet(C)
  BY PlacesInOrder DEF Orders
<1>3. IsFiniteSet(1 .. N) /\ Cardinality(1 .. N) = N
  BY <1>2, FS_Interval
<1>4. IsFiniteSet(T) /\ Cardinality(T) = N - 1
  BY <1>3, FS_RemoveElement
<1>5. f \in [C -> T]
  BY <1>1, PlacesInOrder
<1>6. Cardinality(T) < N
  BY <1>2, <1>4
<1>7. \E c, d \in C : c # d /\ f[c] = f[d]
  <2>. HIDE DEF f, T
  <2>. QED
    BY <1>2, <1>4, <1>5, <1>6, FS_PigeonHole
<1>8. PICK c \in C, d \in C : c # d /\ Place(c, C, R) = Place(d, C, R)
  BY <1>7
<1>9. <<c, d>> \in R \/ <<d, c>> \in R
  BY <1>8 DEF Orders
<1>10. Place(c, C, R) < Place(d, C, R) \/ Place(d, C, R) < Place(c, C, R)
  BY <1>9, PlacesInOrder
<1>11. Place(c, C, R) \in Nat
  BY PlacesInOrder
<1>. QED
  BY <1>8, <1>10, <1>11

\* A sequence that has at each place the element with that place has each once, in order.
LEMMA RankedOf ==
  ASSUME NEW C, NEW R, Orders(R, C), NEW N \in Nat, N = Cardinality(C), NEW s \in [1 .. N -> C],
         \A i \in 1 .. N : Place(s[i], C, R) = i
  PROVE  /\ s \in Seq(C) /\ Len(s) = N /\ NoRepeats(s) /\ ToSet(s) = C
         /\ \A i, j \in 1 .. N : i < j => <<s[i], s[j]>> \in R
<1>1. s \in Seq(C) /\ Len(s) = N
  BY SeqForms
<1>2. DOMAIN s = 1 .. N /\ \A i \in 1 .. N : s[i] \in C
  OBVIOUS
<1>3. NoRepeats(s)
  BY <1>2 DEF NoRepeats
<1>4. ASSUME NEW c \in C PROVE \E i \in 1 .. N : s[i] = c
  <2>1. PICK i \in 1 .. N : i = Place(c, C, R)
    BY PlacesInOrder
  <2>2. s[i] \in C /\ Place(s[i], C, R) = Place(c, C, R)
    BY <1>2, <2>1
  <2>3. Place(c, C, R) \in Nat
    BY <2>1
  <2>4. ~ (Place(s[i], C, R) < Place(c, C, R)) /\ ~ (Place(c, C, R) < Place(s[i], C, R))
    BY <2>2, <2>3
  <2>5. <<s[i], c>> \notin R /\ <<c, s[i]>> \notin R
    BY <2>2, <2>4, PlacesInOrder
  <2>. QED
    BY <2>2, <2>5 DEF Orders
<1>5. ToSet(s) = C
  BY <1>2, <1>4 DEF ToSet
<1>6. ASSUME NEW i \in 1 .. N, NEW j \in 1 .. N, i < j PROVE <<s[i], s[j]>> \in R
  <2>1. s[i] \in C /\ s[j] \in C /\ Place(s[i], C, R) = i /\ Place(s[j], C, R) = j /\ s[i] # s[j]
    BY <1>2, <1>6
  <2>2. ~ (Place(s[j], C, R) < Place(s[i], C, R))
    BY <2>1, <1>6
  <2>3. <<s[j], s[i]>> \notin R
    BY <2>1, <2>2, PlacesInOrder
  <2>. QED
    BY <2>1, <2>3 DEF Orders
<1>. QED
  BY <1>1, <1>3, <1>5, <1>6

-----------------------------------------------------------------------------
(* Highlights. *)

\* The order in which spans are merged; spans with a gap between them; a character in a span.
SpanOrder == {p \in Span \X Span : SpanBefore(p[1], p[2])}
Gap == {p \in Span \X Span : p[1][2] < p[2][1]}
In(x, s) == s[1] <= x /\ x < s[2]

\* A span is a pair of numbers, its begin before its end.
LEMMA SpanType == \A s \in Span : s[1] \in Nat /\ s[2] \in Nat /\ s[1] < s[2] /\ s = <<s[1], s[2]>>
BY DEF Span

\* The greater
LEMMA MaxOfTwo ==
  ASSUME NEW a \in Nat, NEW b \in Nat
  PROVE  Max({a, b}) \in {a, b} /\ Max({a, b}) >= a /\ Max({a, b}) >= b
<1>1. \E x \in {a, b} : \A y \in {a, b} : x >= y
  <2>1. CASE a >= b
    BY <2>1
  <2>2. CASE b >= a
    BY <2>2
  <2>. QED
    BY <2>1, <2>2
<1>2. Max({a, b}) \in {a, b} /\ \A y \in {a, b} : Max({a, b}) >= y
  BY <1>1 DEF Max
<1>. QED
  BY <1>2

\* and the lesser of two numbers.
LEMMA MinOfTwo ==
  ASSUME NEW a \in Nat, NEW b \in Nat
  PROVE  Min({a, b}) = IF a <= b THEN a ELSE b
<1>1. {a, b} \subseteq Nat /\ {a, b} # {}
  OBVIOUS
<1>2. Min({a, b}) \in {a, b} /\ Min({a, b}) <= a /\ Min({a, b}) <= b
  BY <1>1, MinIsLeast
<1>. QED
  BY <1>2

\* Spans sorted are the spans, each once, by where they begin.
LEMMA SortedSpansSound ==
  ASSUME NEW spans, IsFiniteSet(spans), spans \subseteq Span
  PROVE  /\ SortedSpans(spans) \in Seq(Span)
         /\ ToSet(SortedSpans(spans)) = spans
         /\ \A i, j \in 1 .. Len(SortedSpans(spans)) :
              i < j => SortedSpans(spans)[i][1] <= SortedSpans(spans)[j][1]
<1>1. Orders(SpanOrder, spans)
  <2>1. \A c \in spans : <<c, c>> \notin SpanOrder
    BY SpanType DEF SpanOrder, SpanBefore
  <2>2. \A c, d, e \in spans : <<c, d>> \in SpanOrder /\ <<d, e>> \in SpanOrder => <<c, e>> \in SpanOrder
    BY SpanType DEF SpanOrder, SpanBefore
  <2>3. \A c, d \in spans : c # d => <<c, d>> \in SpanOrder \/ <<d, c>> \in SpanOrder
    BY SpanType DEF SpanOrder, SpanBefore
  <2>. QED
    BY <2>1, <2>2, <2>3 DEF Orders
<1>2. PICK N \in Nat : N = Cardinality(spans)
  BY <1>1, PlacesInOrder
<1>3. PICK s : s = SortedSpans(spans)
  OBVIOUS
<1>4. \A c \in spans : {t \in spans : SpanBefore(t, c)} = Under(c, spans, SpanOrder)
  BY DEF Under, SpanOrder
<1>5. ASSUME NEW i \in 1 .. N PROVE s[i] \in spans /\ Place(s[i], spans, SpanOrder) = i
  <2>1. PICK c \in spans : Place(c, spans, SpanOrder) = i
    BY <1>1, <1>2, PlacesTaken
  <2>2. 1 + Cardinality({t \in spans : SpanBefore(t, c)}) = i
    BY <2>1, <1>4 DEF Place
  <2>3. s[i] = CHOOSE d \in spans : 1 + Cardinality({t \in spans : SpanBefore(t, d)}) = i
    BY <1>2, <1>3 DEF SortedSpans
  <2>4. s[i] \in spans /\ 1 + Cardinality({t \in spans : SpanBefore(t, s[i])}) = i
    BY <2>2, <2>3
  <2>. QED
    BY <2>4, <1>4 DEF Place
<1>6. s \in [1 .. N -> spans]
  BY <1>2, <1>3, <1>5 DEF SortedSpans
<1>7. /\ s \in Seq(spans) /\ Len(s) = N /\ ToSet(s) = spans
      /\ \A i, j \in 1 .. N : i < j => <<s[i], s[j]>> \in SpanOrder
  BY <1>1, <1>2, <1>5, <1>6, RankedOf
<1>8. s \in Seq(Span)
  BY <1>7
<1>9. \A i, j \in 1 .. N : i < j => s[i][1] <= s[j][1]
  <2>1. \A p \in SpanOrder : p[1][1] <= p[2][1]
    BY SpanType DEF SpanOrder, SpanBefore
  <2>. QED
    BY <1>7, <2>1
<1>. QED
  BY <1>3, <1>7, <1>8, <1>9

\* A span that reaches the last merged one makes it longer and leaves the others.
LEMMA MergedLast ==
  ASSUME NEW m \in Seq(Span), NEW s \in Span, m # <<>>, s[1] <= m[Len(m)][2]
  PROVE  LET l == m[Len(m)]
             e == MergeSpan(m, s)
         IN /\ e \in Seq(Span) /\ Len(e) = Len(m) /\ l \in Span
            /\ e[Len(m)][1] = l[1] /\ e[Len(m)][2] \in {l[2], s[2]}
            /\ e[Len(m)][2] >= l[2] /\ e[Len(m)][2] >= s[2]
            /\ \A i \in 1 .. Len(m) - 1 : e[i] = m[i]
<1>1. Len(m) \in Nat /\ Len(m) \in 1 .. Len(m) /\ m[Len(m)] \in Span /\ DOMAIN m = 1 .. Len(m)
  OBVIOUS
<1>2. PICK l \in Span : l = m[Len(m)]
  BY <1>1
<1>3. PICK N \in Nat : N = Len(m) /\ N > 0
  <2>1. Len(m) \in Nat /\ Len(m) # 0
    OBVIOUS
  <2>. QED
    BY <2>1
<1>4. PICK e : e = MergeSpan(m, s)
  OBVIOUS
<1>5. Max({l[2], s[2]}) \in {l[2], s[2]} /\ Max({l[2], s[2]}) >= l[2] /\ Max({l[2], s[2]}) >= s[2]
  BY SpanType, MaxOfTwo
<1>6. PICK t \in Nat : t = Max({l[2], s[2]})
  BY <1>5, SpanType
<1>7. l[1] < t
  BY <1>5, <1>6, SpanType
<1>8. <<l[1], t>> \in Span
  BY <1>7, SpanType DEF Span
<1>9. ~ (s[1] > l[2])
  BY <1>2, SpanType
<1>10. e = [m EXCEPT ![Len(m)] = <<@[1], Max({@[2], s[2]})>>]
  BY <1>2, <1>4, <1>9 DEF MergeSpan, Last
<1>11. e = [i \in 1 .. N |-> IF i = N THEN <<l[1], t>> ELSE m[i]]
  BY <1>1, <1>2, <1>3, <1>6, <1>10
<1>12. e \in [1 .. N -> Span]
  BY <1>1, <1>3, <1>8, <1>11
<1>13. e \in Seq(Span) /\ Len(e) = N
  BY <1>12, SeqForms
<1>14. e[N] = <<l[1], t>> /\ \A i \in 1 .. N - 1 : e[i] = m[i]
  <2>1. N \in 1 .. N /\ \A i \in 1 .. N - 1 : i \in 1 .. N /\ i # N
    BY <1>3
  <2>. QED
    BY <1>11, <2>1
<1>15. e[N][1] = l[1] /\ e[N][2] = t
  BY <1>14
<1>. QED
  BY <1>2, <1>3, <1>4, <1>5, <1>6, <1>13, <1>14, <1>15

\* Merging a span gives spans.
LEMMA MergeSpanType ==
  ASSUME NEW m \in Seq(Span), NEW s \in Span
  PROVE  MergeSpan(m, s) \in Seq(Span)
<1>1. CASE m = <<>> \/ s[1] > Last(m)[2]
  BY <1>1, SeqForms DEF MergeSpan
<1>2. CASE ~ (m = <<>> \/ s[1] > Last(m)[2])
  <2>1. m[Len(m)] \in Span
    BY <1>2
  <2>2. s[1] <= m[Len(m)][2]
    BY <1>2, <2>1, SpanType DEF Last
  <2>. QED
    BY <1>2, <2>2, MergedLast
<1>. QED
  BY <1>1, <1>2

\* Merging goes through the sorted spans one after the other.
LEMMA MergedToDef ==
  ASSUME NEW sorted \in Seq(Span)
  PROVE  /\ MergedTo(sorted, 0) = <<>>
         /\ \A n \in 1 .. Len(sorted) :
              MergedTo(sorted, n) = MergeSpan(MergedTo(sorted, n - 1), sorted[n])
<1> DEFINE N == Len(sorted)
           step == [n \in 1 .. N |-> [m \in Seq(Span) |-> MergeSpan(m, sorted[n])]]
           Is(g) == g = [n \in 0 .. N |-> IF n = 0 THEN <<>> ELSE MergeSpan(g[n - 1], sorted[n])]
           f == CHOOSE g : Is(g)
<1>1. N \in Nat /\ \A n \in 1 .. N : sorted[n] \in Span
  OBVIOUS
<1>. HIDE DEF N
<1>2. step \in [1 .. N -> [Seq(Span) -> Seq(Span)]]
  BY <1>1, MergeSpanType
<1>3. PICK g : Follows(g, N, Seq(Span), <<>>, step)
  <2>1. <<>> \in Seq(Span)
    BY SeqForms
  <2>. HIDE DEF step
  <2>. QED
    BY <2>1, <1>1, <1>2, Recursion
<1>4. Is(g)
  <2>1. \A n \in 1 .. N : n - 1 \in 0 .. N /\ g[n - 1] \in Seq(Span)
    BY <1>1, <1>3 DEF Follows
  <2>2. \A n \in 1 .. N : g[n] = MergeSpan(g[n - 1], sorted[n])
    BY <2>1, <1>3 DEF Follows
  <2>3. g \in [0 .. N -> Seq(Span)] /\ g[0] = <<>>
    BY <1>3 DEF Follows
  <2>4. \A n \in 0 .. N : n # 0 => n \in 1 .. N
    BY <1>1
  <2>. QED
    BY <2>2, <2>3, <2>4
<1>5. Is(f)
  BY <1>4
<1>6. \A n \in 0 .. N : f[n] = IF n = 0 THEN <<>> ELSE MergeSpan(f[n - 1], sorted[n])
  <2>. HIDE DEF f
  <2>. QED
    BY <1>5
<1>7. \A n : MergedTo(sorted, n) = f[n]
  BY DEF MergedTo, N
<1>. HIDE DEF f
<1>8. 0 \in 0 .. N /\ \A n \in 1 .. N : n \in 0 .. N /\ n # 0
  BY <1>1
<1>9. MergedTo(sorted, 0) = <<>>
  BY <1>6, <1>7, <1>8
<1>10. \A n \in 1 .. N : MergedTo(sorted, n) = MergeSpan(MergedTo(sorted, n - 1), sorted[n])
  BY <1>6, <1>7, <1>8
<1>. QED
  BY <1>9, <1>10 DEF N

\* After the first n spans: the merged ones have gaps between them, highlight the same
\* characters, and the last of them begins no later than the last span.
MergeInv(m, sorted, n) ==
  /\ m \in Seq(Span)
  /\ Chained(m, Gap)
  /\ \A x \in Nat : (\E i \in 1 .. Len(m) : In(x, m[i])) <=> (\E i \in 1 .. n : In(x, sorted[i]))
  /\ n > 0 => m # <<>> /\ m[Len(m)][1] <= sorted[n][1]

\* A span more leaves it so: it reaches the last merged one, or comes after a gap.
LEMMA MergeStep ==
  ASSUME NEW sorted \in Seq(Span), NEW n \in 1 .. Len(sorted), NEW m, MergeInv(m, sorted, n - 1),
         n > 1 => sorted[n - 1][1] <= sorted[n][1]
  PROVE  MergeInv(MergeSpan(m, sorted[n]), sorted, n)
<1>1. PICK s \in Span : s = sorted[n]
  OBVIOUS
<1>2. m \in Seq(Span) /\ n \in Nat /\ n - 1 \in Nat
  BY DEF MergeInv
<1>3. \A x : (\E i \in 1 .. n : In(x, sorted[i])) <=> (\E i \in 1 .. n - 1 : In(x, sorted[i])) \/ In(x, s)
  <2>1. \A i \in 1 .. n : i = n \/ i \in 1 .. n - 1
    BY <1>2
  <2>2. n \in 1 .. n /\ \A i \in 1 .. n - 1 : i \in 1 .. n
    BY <1>2
  <2>. QED
    BY <1>1, <2>1, <2>2
<1>4. PICK e \in Seq(Span) : e = MergeSpan(m, s)
  BY <1>2, MergeSpanType
<1>5. CASE m = <<>> \/ s[1] > m[Len(m)][2]
  <2>1. e = Append(m, s)
    BY <1>4, <1>5 DEF MergeSpan, Last
  <2>2. /\ Len(e) = Len(m) + 1 /\ Len(m) \in Nat /\ e # <<>> /\ e[Len(m) + 1] = s
        /\ \A i \in 1 .. Len(m) : e[i] = m[i]
    BY <1>2, <2>1
  <2>3. Chained(e, Gap)
    <3>1. Chained(m, Gap)
      BY DEF MergeInv
    <3>2. m # <<>> => <<m[Len(m)], s>> \in Gap
      <4>1. SUFFICES ASSUME m # <<>> PROVE <<m[Len(m)], s>> \in Gap
        OBVIOUS
      <4>2. PICK l \in Span : l = m[Len(m)]
        BY <1>2, <4>1
      <4>3. l[2] < s[1]
        BY <1>5, <4>1, <4>2, SpanType
      <4>. QED
        BY <4>2, <4>3 DEF Gap
    <3>. QED
      BY <1>2, <2>1, <3>1, <3>2, ChainedAppend
  <2>4. \A x : (\E i \in 1 .. Len(e) : In(x, e[i])) <=> (\E i \in 1 .. Len(m) : In(x, m[i])) \/ In(x, s)
    <3>1. \A i \in 1 .. Len(e) : i \in 1 .. Len(m) \/ i = Len(m) + 1
      BY <2>2
    <3>2. Len(m) + 1 \in 1 .. Len(e) /\ \A i \in 1 .. Len(m) : i \in 1 .. Len(e)
      BY <2>2
    <3>. QED
      BY <2>2, <3>1, <3>2
  <2>5. \A x \in Nat : (\E i \in 1 .. Len(m) : In(x, m[i])) <=> (\E i \in 1 .. n - 1 : In(x, sorted[i]))
    BY DEF MergeInv
  <2>6. e[Len(e)][1] <= sorted[n][1]
    BY <1>1, <2>2, SpanType
  <2>. QED
    BY <1>1, <1>3, <1>4, <2>2, <2>3, <2>4, <2>5, <2>6 DEF MergeInv
<1>6. CASE ~ (m = <<>> \/ s[1] > m[Len(m)][2])
  <2>0. m # <<>> /\ m[Len(m)] \in Span
    BY <1>2, <1>6
  <2>1. s[1] <= m[Len(m)][2]
    BY <1>6, <2>0, SpanType
  <2>2. PICK l \in Span : l = m[Len(m)]
    BY <2>0
  <2>3. PICK k \in Nat : k = Len(m) /\ k > 0
    BY <2>0, <1>2
  <2>4. /\ Len(e) = k /\ e[k] \in Span
        /\ e[k][1] = l[1] /\ e[k][2] \in {l[2], s[2]} /\ e[k][2] >= l[2] /\ e[k][2] >= s[2]
        /\ \A i \in 1 .. k - 1 : e[i] = m[i]
    <3>1. /\ Len(e) = k /\ e[k][1] = l[1] /\ e[k][2] \in {l[2], s[2]} /\ e[k][2] >= l[2] /\ e[k][2] >= s[2]
          /\ \A i \in 1 .. k - 1 : e[i] = m[i]
      BY <1>2, <1>4, <2>0, <2>1, <2>2, <2>3, MergedLast
    <3>2. e[k] \in Span
      BY <3>1, <2>3, <1>4
    <3>. QED
      BY <3>1, <3>2
  <2>5. n - 1 > 0 /\ l[1] <= s[1]
    <3>1. n - 1 > 0
      <4>1. SUFFICES ASSUME n - 1 = 0 PROVE FALSE
        BY <1>2
      <4>2. l[1] \in Nat /\ In(l[1], l) /\ k \in 1 .. Len(m)
        BY <2>2, <2>3, SpanType DEF In
      <4>3. \E i \in 1 .. n - 1 : In(l[1], sorted[i])
        BY <4>2, <2>2, <2>3 DEF MergeInv
      <4>. QED
        BY <4>1, <4>3
    <3>2. l[1] <= sorted[n - 1][1] /\ sorted[n - 1][1] <= s[1]
      BY <3>1, <1>1, <1>2, <2>2 DEF MergeInv
    <3>3. sorted[n - 1] \in Span
      BY <3>1, <1>2
    <3>4. sorted[n - 1][1] \in Nat /\ l[1] \in Nat /\ s[1] \in Nat
      BY <3>3, SpanType
    <3>5. l[1] <= s[1]
      BY <3>2, <3>4
    <3>. QED
      BY <3>1, <3>5
  <2>6. Chained(e, Gap)
    <3>1. ASSUME NEW i \in 1 .. k - 1 PROVE <<e[i], e[i + 1]>> \in Gap
      <4>1. i \in 1 .. Len(m) - 1 /\ i \in 1 .. Len(m) /\ i + 1 \in 1 .. k /\ i \in 1 .. k
        BY <2>3
      <4>2. <<m[i], m[i + 1]>> \in Gap
        BY <4>1 DEF MergeInv, Chained
      <4>3. m[i] \in Span /\ m[i + 1] \in Span /\ m[i][2] < m[i + 1][1]
        BY <4>2 DEF Gap
      <4>4. e[i] = m[i] /\ e[i + 1] \in Span /\ e[i + 1][1] = m[i + 1][1]
        <5>1. CASE i + 1 = k
          BY <5>1, <2>2, <2>3, <2>4
        <5>2. CASE i + 1 # k
          <6>1. i + 1 \in 1 .. k - 1
            BY <4>1, <5>2
          <6>. QED
            BY <6>1, <2>4, <4>3
        <5>. QED
          BY <5>1, <5>2
      <4>. QED
        BY <4>3, <4>4 DEF Gap
    <3>. QED
      BY <3>1, <2>4 DEF Chained
  <2>7. \A x \in Nat : (\E i \in 1 .. k : In(x, e[i])) <=> (\E i \in 1 .. k : In(x, m[i])) \/ In(x, s)
    <3>1. ASSUME NEW x \in Nat PROVE In(x, e[k]) <=> In(x, l) \/ In(x, s)
      <4>1. PICK last \in Span : last = e[k]
        BY <2>4
      <4>2. last[1] = l[1] /\ last[2] \in {l[2], s[2]} /\ last[2] >= l[2] /\ last[2] >= s[2]
            /\ l[1] <= s[1] /\ s[1] <= l[2]
        BY <4>1, <2>1, <2>2, <2>4, <2>5
      <4>3. In(x, last) <=> In(x, l) \/ In(x, s)
        BY <4>2, SpanType DEF In
      <4>. QED
        BY <4>1, <4>3
    <3>2. \A i \in 1 .. k : i = k \/ i \in 1 .. k - 1
      BY <2>3
    <3>3. k \in 1 .. k /\ \A i \in 1 .. k - 1 : i \in 1 .. k
      BY <2>3
    <3>. QED
      BY <3>1, <3>2, <3>3, <2>2, <2>3, <2>4
  <2>8. \A x \in Nat : (\E i \in 1 .. k : In(x, m[i])) <=> (\E i \in 1 .. n - 1 : In(x, sorted[i]))
    BY <2>3 DEF MergeInv
  <2>9. e # <<>> /\ e[Len(e)][1] <= sorted[n][1]
    BY <1>1, <1>4, <2>3, <2>4, <2>5
  <2>. QED
    BY <1>1, <1>3, <1>4, <2>4, <2>6, <2>7, <2>8, <2>9 DEF MergeInv
<1>. QED
  BY <1>5, <1>6

\* After the last span the invariant holds for all.
LEMMA MergedSound ==
  ASSUME NEW sorted \in Seq(Span),
         \A i, j \in 1 .. Len(sorted) : i < j => sorted[i][1] <= sorted[j][1]
  PROVE  MergeInv(MergedTo(sorted, Len(sorted)), sorted, Len(sorted))
<1> DEFINE N == Len(sorted)
           P == {n \in 0 .. N : MergeInv(MergedTo(sorted, n), sorted, n)}
<1>1. N \in Nat
  OBVIOUS
<1>2. 0 \in P
  <2>1. MergedTo(sorted, 0) = <<>>
    BY MergedToDef
  <2>2. <<>> \in Seq(Span)
    BY SeqForms
  <2>3. MergeInv(<<>>, sorted, 0)
    BY <2>2 DEF MergeInv, Chained
  <2>. QED
    BY <1>1, <2>1, <2>3
<1>. HIDE DEF N
<1>3. ASSUME NEW n \in 1 .. N, n - 1 \in P PROVE n \in P
  <2>1. n \in 1 .. Len(sorted) /\ n \in 0 .. N
    BY <1>1 DEF N
  <2>2. MergeInv(MergedTo(sorted, n - 1), sorted, n - 1)
    BY <1>3
  <2>3. n > 1 => n - 1 \in 1 .. Len(sorted) /\ n - 1 < n
    BY <2>1, <1>1 DEF N
  <2>4. n > 1 => sorted[n - 1][1] <= sorted[n][1]
    BY <2>1, <2>3
  <2>5. MergeInv(MergeSpan(MergedTo(sorted, n - 1), sorted[n]), sorted, n)
    BY <2>1, <2>2, <2>4, MergeStep
  <2>6. MergedTo(sorted, n) = MergeSpan(MergedTo(sorted, n - 1), sorted[n])
    BY <2>1, MergedToDef
  <2>. QED
    BY <2>1, <2>5, <2>6
<1>4. \A n \in 0 .. N : n \in P
  <2>. HIDE DEF P
  <2>. QED
    BY <1>1, <1>2, <1>3, Induction
<1>5. N \in P
  BY <1>1, <1>4
<1>. QED
  BY <1>5 DEF N

\* What a list of spans covers.
LEMMA CoveredIs ==
  ASSUME NEW s \in Seq(Span)
  PROVE  Covered(ToSet(s)) = {x \in Nat : \E i \in 1 .. Len(s) : In(x, s[i])}
<1>1. DOMAIN s = 1 .. Len(s) /\ \A i \in 1 .. Len(s) : s[i] \in Span
  OBVIOUS
<1>2. \A p \in Span : p[1] .. p[2] - 1 = {x \in Nat : In(x, p)}
  BY SpanType DEF In
<1>3. ToSet(s) = {s[i] : i \in 1 .. Len(s)}
  BY <1>1 DEF ToSet
<1>4. \A x : x \in Covered(ToSet(s)) <=> \E i \in 1 .. Len(s) : x \in s[i][1] .. s[i][2] - 1
  BY <1>3 DEF Covered
<1>. QED
  BY <1>1, <1>2, <1>4

\* Hence the merged spans cover what the spans did, and no two of them touch.
LEMMA HighlightsSound ==
  ASSUME NEW spans, IsFiniteSet(spans), spans \subseteq Span
  PROVE  HighlightsOnce(spans)
<1>1. PICK sorted \in Seq(Span) : sorted = SortedSpans(spans)
  BY SortedSpansSound
<1>2. ToSet(sorted) = spans
      /\ \A i, j \in 1 .. Len(sorted) : i < j => sorted[i][1] <= sorted[j][1]
  BY <1>1, SortedSpansSound
<1>3. MergeInv(MergedTo(sorted, Len(sorted)), sorted, Len(sorted))
  BY <1>2, MergedSound
<1>4. PICK m \in Seq(Span) : m = MergedTo(sorted, Len(sorted))
  BY <1>3 DEF MergeInv
<1>5. m = HighlightSpans(spans)
  BY <1>1, <1>4 DEF HighlightSpans
<1>6. \A x \in Nat : (\E i \in 1 .. Len(m) : In(x, m[i])) <=> (\E i \in 1 .. Len(sorted) : In(x, sorted[i]))
  BY <1>3, <1>4 DEF MergeInv
<1>7. Covered(ToSet(m)) = {x \in Nat : \E i \in 1 .. Len(m) : In(x, m[i])}
  BY CoveredIs
<1>8. Covered(ToSet(sorted)) = {x \in Nat : \E i \in 1 .. Len(sorted) : In(x, sorted[i])}
  BY CoveredIs
<1>9. Covered(ToSet(m)) = Covered(spans)
  BY <1>2, <1>6, <1>7, <1>8
<1>10. Chained(m, Gap)
  BY <1>3, <1>4 DEF MergeInv
<1>11. \A i \in 1 .. Len(m) - 1 : m[i][2] < m[i + 1][1]
  BY <1>10 DEF Chained, Gap
<1>. QED
  BY <1>5, <1>9, <1>11 DEF HighlightsOnce

-----------------------------------------------------------------------------
(* Pages. *)

\* A quotient is the greatest number whose product is not too large
LEMMA DivBounds ==
  ASSUME NEW a \in Nat, NEW b \in Nat \ {0}
  PROVE  a \div b \in Nat /\ b * (a \div b) <= a /\ a < b * (a \div b) + b
<1>1. a \div b \in Nat
  OBVIOUS
<1>2. b * (a \div b) <= a
  OBVIOUS
<1>3. a < b * (a \div b) + b
  OBVIOUS
<1>. QED
  BY <1>1, <1>2, <1>3

\* and smaller when the divisor is larger.
LEMMA DivMonotone ==
  ASSUME NEW a \in Nat, NEW b \in Nat \ {0}, NEW c \in Nat \ {0}, b <= c
  PROVE  a \div c <= a \div b
<1>1. SUFFICES ASSUME a \div b < a \div c PROVE FALSE
  BY DivBounds
<1>2. PICK q \in Nat, p \in Nat : q = a \div b /\ p = a \div c
  BY DivBounds
<1>3. a < b * q + b /\ c * p <= a /\ q + 1 <= p
  BY <1>1, <1>2, DivBounds
<1>4. b * q + b = b * (q + 1) /\ b * (q + 1) <= c * p
  BY <1>3
<1>. QED
  BY <1>3, <1>4

\* Products of page numbers and page sizes: one page more is one size more
LEMMA TimesOneMore ==
  \A n, k \in Nat : n * k \in Nat /\ (n > 0 => (n - 1) * k \in Nat /\ (n - 1) * k + k = n * k)
OBVIOUS

\* and more pages are no smaller.
LEMMA TimesMonotone == \A n, m, k \in Nat : n <= m => n * k <= m * k
OBVIOUS

\* The first n of the hits.
LEMMA FirstOfIs ==
  ASSUME NEW C, NEW hits \in Seq(C), NEW n \in Nat
  PROVE  /\ FirstOf(hits, n) \in Seq(C)
         /\ Len(FirstOf(hits, n)) = Min({n, Len(hits)})
         /\ Min({n, Len(hits)}) \in 0 .. Len(hits)
<1>1. Len(hits) \in Nat
  OBVIOUS
<1>2. PICK k \in 0 .. Len(hits) : k = Min({n, Len(hits)})
  BY <1>1, MinOfTwo
<1>3. SubSeq(hits, 1, k) \in Seq(C) /\ Len(SubSeq(hits, 1, k)) = k
  BY <1>1
<1>. QED
  BY <1>2, <1>3 DEF FirstOf

\* There are as many pages as it takes for all hits, and no page is past them.
LEMMA PageCountBounds ==
  ASSUME NEW total \in Nat, NEW size \in Nat \ {0}
  PROVE  PageCount(total, size) \in Nat /\ total <= PageCount(total, size) * size
<1>1. total + size - 1 \in Nat
  OBVIOUS
<1>2. PICK q \in Nat : q = (total + size - 1) \div size
  BY <1>1, DivBounds
<1>3. total + size - 1 < size * q + size
  BY <1>1, <1>2, DivBounds
<1>4. PICK n \in Nat : n = Max({1, q}) /\ n >= q
  BY MaxOfTwo
<1>5. q * size <= n * size /\ q * size = size * q /\ q * size \in Nat /\ n * size \in Nat
  BY <1>4, TimesMonotone
<1>6. total <= n * size
  BY <1>3, <1>5
<1>. QED
  BY <1>2, <1>4, <1>6 DEF PageCount

\* The first hits that the first n pages show.
ShownBy(n, size, L) == Min({n * size, L})

\* A page is what the pages up to it show more than those before, and empty when there is no more.
LEMMA OnePage ==
  ASSUME NEW C, NEW first \in Seq(C), NEW size \in Nat \ {0}, NEW n \in Nat \ {0}
  PROVE  /\ Page(first, n, size) \in Seq(C)
         /\ SubSeq(first, 1, ShownBy(n - 1, size, Len(first))) \o Page(first, n, size)
            = SubSeq(first, 1, ShownBy(n, size, Len(first)))
         /\ Page(first, n, size) = <<>> <=> (n - 1) * size >= Len(first)
<1>1. PICK L \in Nat : L = Len(first)
  OBVIOUS
<1>2. PICK a \in Nat : a = (n - 1) * size
  BY TimesOneMore
<1>3. a + size = n * size
  BY <1>2, TimesOneMore
<1>4. PICK b \in Nat : b = a + size
  OBVIOUS
<1>5. PICK e \in Nat : e = Min({b, L}) /\ e <= L /\ e <= b /\ e \in {b, L}
  BY MinOfTwo
<1>6. PICK k \in Nat : k = Min({a, L}) /\ k <= L /\ k <= a /\ k \in {a, L} /\ k <= e
  BY <1>4, <1>5, MinOfTwo
<1>7. Page(first, n, size) = SubSeq(first, a + 1, e)
  BY <1>1, <1>2, <1>4, <1>5 DEF Page
<1>8. SubSeq(first, a + 1, e) \in Seq(C)
  <2>1. \A i \in a + 1 .. e : first[i] \in C
    BY <1>1, <1>5
  <2>. QED
    BY <2>1, SubSeqProperties
<1>9. ShownBy(n - 1, size, Len(first)) = k /\ ShownBy(n, size, Len(first)) = e
  BY <1>1, <1>2, <1>3, <1>4, <1>5, <1>6 DEF ShownBy
<1>10. CASE a < L
  <2>1. k = a /\ a < e
    BY <1>4, <1>5, <1>6, <1>10
  <2>2. 1 \in 1 .. Len(first) + 1 /\ a \in 1 - 1 .. Len(first) /\ e \in a .. Len(first)
    BY <1>1, <1>5, <1>10, <2>1
  <2>3. SubSeq(first, 1, a) \o SubSeq(first, a + 1, e) = SubSeq(first, 1, e)
    BY <2>2, ConcatAdjacentSubSeq
  <2>4. SubSeq(first, a + 1, e) # <<>>
    <3>1. \A i \in a + 1 .. e : first[i] \in C
      BY <1>1, <1>5
    <3>2. Len(SubSeq(first, a + 1, e)) = IF a + 1 <= e THEN e - (a + 1) + 1 ELSE 0
      BY <3>1, SubSeqProperties
    <3>3. Len(SubSeq(first, a + 1, e)) # 0
      BY <2>1, <3>2
    <3>4. PICK page : page = SubSeq(first, a + 1, e)
      OBVIOUS
    <3>5. Len(page) # 0
      BY <3>3, <3>4
    <3>6. page # <<>>
      BY <3>5
    <3>. QED
      BY <3>4, <3>6
  <2>5. SubSeq(first, 1, k) \o SubSeq(first, a + 1, e) = SubSeq(first, 1, e)
    BY <2>1, <2>3
  <2>6. ~ ((n - 1) * size >= Len(first))
    BY <1>1, <1>2, <1>10
  <2>. QED
    BY <1>7, <1>8, <1>9, <2>4, <2>5, <2>6
<1>11. CASE a >= L
  <2>1. k = L /\ e = L /\ e < a + 1
    BY <1>4, <1>5, <1>6, <1>11
  <2>2. SubSeq(first, a + 1, e) = <<>>
    BY <2>1, SubSeqEmpty
  <2>3. SubSeq(first, 1, L) \in Seq(C)
    BY <1>1
  <2>4. SubSeq(first, 1, L) \o <<>> = SubSeq(first, 1, L)
    BY <2>3
  <2>. QED
    BY <1>1, <1>2, <1>7, <1>8, <1>9, <1>11, <2>1, <2>2, <2>4
<1>12. a < L \/ a >= L
  OBVIOUS
<1>. QED
  BY <1>10, <1>11, <1>12

\* All pages together show the hits, each once and in order.
LEMMA PagesPutTogether ==
  ASSUME NEW C, NEW first \in Seq(C), NEW size \in Nat \ {0}, NEW N \in Nat,
         Len(first) <= N * size
  PROVE  FlattenSeq([n \in 1 .. N |-> Page(first, n, size)]) = first
<1> DEFINE ss == [n \in 1 .. N |-> Page(first, n, size)]
<1>1. ss \in Seq(Seq(C)) /\ Len(ss) = N
  <2>1. ss \in [1 .. N -> Seq(C)]
    BY OnePage
  <2>. HIDE DEF ss
  <2>. QED
    BY <2>1, SeqForms
<1>2. \A n \in 1 .. N : ss[n] = Page(first, n, size)
  OBVIOUS
<1>. HIDE DEF ss
<1>3. PICK L \in Nat : L = Len(first)
  OBVIOUS
<1>4. PICK f : Flattens(f, ss, C)
  BY <1>1, FlattenDef
<1> DEFINE P == {n \in 0 .. N : f[n] = SubSeq(first, 1, ShownBy(n, size, L))}
<1>5. 0 \in P
  <2>1. ShownBy(0, size, L) = 0
    <3>1. 0 * size = 0
      OBVIOUS
    <3>. QED
      BY <3>1, MinOfTwo DEF ShownBy
  <2>2. SubSeq(first, 1, 0) = <<>> /\ f[0] = <<>>
    BY <1>4 DEF Flattens
  <2>3. 0 \in 0 .. N
    OBVIOUS
  <2>. QED
    BY <2>1, <2>2, <2>3
<1>6. ASSUME NEW n \in 1 .. N, n - 1 \in P PROVE n \in P
  <2>1. n \in 0 .. N /\ n \in Nat \ {0} /\ n \in 1 .. Len(ss)
    BY <1>1
  <2>2. f[n] = f[n - 1] \o ss[n]
    BY <1>4, <2>1 DEF Flattens
  <2>3. SubSeq(first, 1, ShownBy(n - 1, size, L)) \o Page(first, n, size)
        = SubSeq(first, 1, ShownBy(n, size, L))
    BY <1>3, <2>1, OnePage
  <2>. QED
    BY <1>2, <1>6, <2>1, <2>2, <2>3
<1>7. \A n \in 0 .. N : n \in P
  <2>. HIDE DEF P
  <2>. QED
    BY <1>5, <1>6, Induction
<1>8. ShownBy(N, size, L) = L
  <2>1. N * size \in Nat
    BY TimesOneMore
  <2>. QED
    BY <2>1, <1>3, MinOfTwo DEF ShownBy
<1>9. SubSeq(first, 1, L) = first
  BY <1>3, SeqForms
<1>10. FlattenSeq(ss) = f[N]
  BY <1>1, <1>4 DEF Flattens
<1>11. N \in P
  BY <1>7
<1>12. FlattenSeq(ss) = first
  BY <1>8, <1>9, <1>10, <1>11
<1>. QED
  BY <1>12 DEF ss

\* So do the pages of a search's answer, whatever its mode.
LEMMA PagesSoundFor ==
  ASSUME NEW C, NEW mode, NEW vec, NEW kw, Hits(mode, vec, kw) \in Seq(C),
         NEW topK \in Nat \ {0}, NEW size \in Nat \ {0}
  PROVE  PagesPartition(mode, vec, kw, topK, size)
<1>1. PICK hits \in Seq(C) : hits = Hits(mode, vec, kw)
  OBVIOUS
<1>2. PICK total \in Nat : total = Len(hits)
  OBVIOUS
<1>3. PICK first \in Seq(C) : first = FirstOf(hits, topK)
  BY FirstOfIs
<1>4. Len(first) = Min({topK, total}) /\ Len(first) <= total
  <2>1. Len(FirstOf(hits, topK)) = Min({topK, Len(hits)})
        /\ Min({topK, Len(hits)}) \in 0 .. Len(hits)
    BY FirstOfIs
  <2>. QED
    BY <2>1, <1>2, <1>3
<1>5. PICK N \in Nat : N = PageCount(total, size) /\ total <= N * size
  BY PageCountBounds
<1>6. Len(first) <= N * size
  <2>1. N * size \in Nat /\ Len(first) \in Nat
    BY TimesOneMore
  <2>. QED
    BY <2>1, <1>4, <1>5
<1>7. FlattenSeq([n \in 1 .. N |-> Page(first, n, size)]) = first
  BY <1>6, PagesPutTogether
<1>8. \A n \in 1 .. N : Page(first, n, size) = <<>> <=> (n - 1) * size >= Len(first)
  BY OnePage
<1>9. \A n : Answer(mode, vec, kw, topK, n, size).results = Page(first, n, size)
  BY <1>1, <1>3 DEF Answer
<1>10. Answer(mode, vec, kw, topK, 1, size).total = total
  BY <1>1, <1>2 DEF Answer
<1>11. /\ FlattenSeq([n \in 1 .. N |-> Answer(mode, vec, kw, topK, n, size).results]) = first
       /\ \A n \in 1 .. N : Answer(mode, vec, kw, topK, n, size).results = <<>>
                            <=> (n - 1) * size >= Min({topK, total})
  BY <1>4, <1>7, <1>8, <1>9
<1>. QED
  BY <1>1, <1>3, <1>5, <1>10, <1>11 DEF PagesPartition

-----------------------------------------------------------------------------
(* Fusion. *)

\* Where a list first has a chunk.
FirstAt(s, c) == SelectInSeq(s, LAMBDA h : h = c)

\* It has it there and not before.
LEMMA FirstAtIs ==
  ASSUME NEW S, NEW s \in Seq(S), NEW c \in ToSet(s)
  PROVE  /\ FirstAt(s, c) \in 1 .. Len(s) /\ s[FirstAt(s, c)] = c
         /\ \A i \in 1 .. Len(s) : s[i] = c => FirstAt(s, c) <= i
<1> DEFINE I == {i \in 1 .. Len(s) : s[i] = c}
<1>1. I # {}
  BY DEF ToSet
<1>2. I \subseteq Nat
  OBVIOUS
<1>3. Min(I) \in I /\ \A i \in I : Min(I) <= i
  <2>. HIDE DEF I
  <2>. QED
    BY <1>1, <1>2, MinIsLeast
<1>4. FirstAt(s, c) = Min(I)
  BY <1>1 DEF FirstAt, SelectInSeq
<1>. QED
  BY <1>3, <1>4

\* The elements of a sequence
LEMMA ElementsOf ==
  ASSUME NEW S, NEW s \in Seq(S)
  PROVE  /\ IsFiniteSet(ToSet(s)) /\ ToSet(s) \subseteq S
         /\ ToSet(s) = {s[i] : i \in 1 .. Len(s)}
<1>1. Len(s) \in Nat /\ DOMAIN s = 1 .. Len(s) /\ \A i \in 1 .. Len(s) : s[i] \in S
  OBVIOUS
<1>2. ToSet(s) = {s[i] : i \in 1 .. Len(s)}
  BY <1>1 DEF ToSet
<1>3. s \in Surjection(1 .. Len(s), ToSet(s))
  BY <1>1, <1>2 DEF Surjection
<1>4. IsFiniteSet(1 .. Len(s))
  BY <1>1, FS_Interval
<1>5. IsFiniteSet(ToSet(s))
  BY <1>3, <1>4, FS_Surjection
<1>. QED
  BY <1>1, <1>2, <1>5

\* and of two.
LEMMA ElementsOfConcat ==
  ASSUME NEW S, NEW s \in Seq(S), NEW t \in Seq(S)
  PROVE  ToSet(s \o t) = ToSet(s) \cup ToSet(t)
<1>1. PICK u \in Seq(S) : u = s \o t
  BY SeqForms
<1>2. /\ Len(u) = Len(s) + Len(t) /\ Len(s) \in Nat /\ Len(t) \in Nat
      /\ \A i \in 1 .. Len(s) : u[i] = s[i]
      /\ \A i \in 1 .. Len(t) : u[Len(s) + i] = t[i]
  BY <1>1, ConcatElements
<1>3. \A i \in 1 .. Len(u) : i \in 1 .. Len(s) \/ \E j \in 1 .. Len(t) : i = Len(s) + j
  <2> TAKE i \in 1 .. Len(u)
  <2>1. i \in 1 .. Len(s) \/ i - Len(s) \in 1 .. Len(t)
    BY <1>2
  <2>2. i = Len(s) + (i - Len(s))
    BY <1>2
  <2>. QED
    BY <2>1, <2>2
<1>4. \A i \in 1 .. Len(s) : i \in 1 .. Len(u)
  BY <1>2
<1>5. \A i \in 1 .. Len(t) : Len(s) + i \in 1 .. Len(u)
  BY <1>2
<1>6. /\ ToSet(u) = {u[i] : i \in 1 .. Len(u)} /\ ToSet(s) = {s[i] : i \in 1 .. Len(s)}
      /\ ToSet(t) = {t[i] : i \in 1 .. Len(t)}
  BY ElementsOf
<1>7. ToSet(u) \subseteq ToSet(s) \cup ToSet(t)
  <2>1. ASSUME NEW i \in 1 .. Len(u) PROVE u[i] \in ToSet(s) \cup ToSet(t)
    <3>1. CASE i \in 1 .. Len(s)
      BY <3>1, <1>2, <1>6
    <3>2. CASE \E j \in 1 .. Len(t) : i = Len(s) + j
      BY <3>2, <1>2, <1>6
    <3>. QED
      BY <1>3, <3>1, <3>2
  <2>. QED
    BY <2>1, <1>6
<1>8. ToSet(s) \subseteq ToSet(u) /\ ToSet(t) \subseteq ToSet(u)
  BY <1>2, <1>4, <1>5, <1>6
<1>. QED
  BY <1>1, <1>7, <1>8

\* The common denominator of the scores is a number.
LEMMA ScaleType == Scale \in Nat
<1> DEFINE step == [r \in 1 .. MaxRank |-> [a \in Nat |-> a * (RrfK + r)]]
           Is(g) == g = [r \in 0 .. MaxRank |-> IF r = 0 THEN 1 ELSE g[r - 1] * (RrfK + r)]
           f == CHOOSE g : Is(g)
<1>1. RrfK \in Nat /\ MaxRank \in Nat
  BY RankingAssumption
<1>2. step \in [1 .. MaxRank -> [Nat -> Nat]]
  <2>1. \A r \in 1 .. MaxRank, a \in Nat : a * (RrfK + r) \in Nat
    BY <1>1
  <2>. QED
    BY <2>1
<1>3. PICK g : Follows(g, MaxRank, Nat, 1, step)
  <2>1. 1 \in Nat
    OBVIOUS
  <2>. HIDE DEF step
  <2>. QED
    BY <2>1, <1>1, <1>2, Recursion
<1>4. Is(g)
  <2>1. \A r \in 1 .. MaxRank : r - 1 \in 0 .. MaxRank /\ g[r - 1] \in Nat
    BY <1>1, <1>3 DEF Follows
  <2>2. \A r \in 1 .. MaxRank : g[r] = g[r - 1] * (RrfK + r)
    BY <2>1, <1>3 DEF Follows
  <2>3. g \in [0 .. MaxRank -> Nat] /\ g[0] = 1
    BY <1>3 DEF Follows
  <2>4. \A r \in 0 .. MaxRank : r # 0 => r \in 1 .. MaxRank
    BY <1>1
  <2>. QED
    BY <2>2, <2>3, <2>4
<1>5. Is(f)
  BY <1>4
<1>6. \A r \in 0 .. MaxRank : f[r] = IF r = 0 THEN 1 ELSE f[r - 1] * (RrfK + r)
  <2>. HIDE DEF f
  <2>. QED
    BY <1>5
<1>7. Scale = f[MaxRank]
  BY DEF Scale
<1> DEFINE P == {r \in 0 .. MaxRank : f[r] \in Nat}
<1>. HIDE DEF f
<1>8. 0 \in P
  BY <1>1, <1>6
<1>9. ASSUME NEW r \in 1 .. MaxRank, r - 1 \in P PROVE r \in P
  <2>1. r \in 0 .. MaxRank /\ r # 0 /\ f[r - 1] \in Nat
    BY <1>1, <1>9
  <2>2. f[r] = f[r - 1] * (RrfK + r)
    BY <2>1, <1>6
  <2>3. f[r - 1] * (RrfK + r) \in Nat
    BY <2>1, <1>1
  <2>. QED
    BY <2>1, <2>2, <2>3
<1>10. \A r \in 0 .. MaxRank : r \in P
  <2>. HIDE DEF P
  <2>. QED
    BY <1>1, <1>8, <1>9, Induction
<1>11. MaxRank \in P
  BY <1>1, <1>10
<1>. QED
  BY <1>7, <1>11

\* A better rank scores no less.
LEMMA RankScores ==
  /\ \A r \in Nat : RankScore(r) \in Nat
  /\ \A r, q \in Nat : r <= q => RankScore(q) <= RankScore(r)
<1>1. \A r \in Nat : RrfK + r \in Nat \ {0}
  BY RankingAssumption
<1>2. \A r, q \in Nat : r <= q => RrfK + r <= RrfK + q
  BY RankingAssumption
<1>3. ASSUME NEW r \in Nat PROVE RankScore(r) \in Nat
  BY <1>1, ScaleType, DivBounds DEF RankScore
<1>4. ASSUME NEW r \in Nat, NEW q \in Nat, r <= q PROVE RankScore(q) <= RankScore(r)
  <2>1. PICK b \in Nat \ {0}, c \in Nat \ {0} : b = RrfK + r /\ c = RrfK + q /\ b <= c
    BY <1>1, <1>2, <1>4
  <2>2. Scale \div c <= Scale \div b
    BY <2>1, ScaleType, DivMonotone
  <2>. QED
    BY <2>1, <2>2 DEF RankScore
<1>. QED
  BY <1>3, <1>4

\* A sum of zeros
LEMMA SumOfNone ==
  ASSUME NEW t \in Seq(Nat), \A i \in 1 .. Len(t) : t[i] = 0
  PROVE  Sum(t) = 0
<1> DEFINE P == {n \in 0 .. Len(t) : SumTo(t, n) = 0}
<1>1. Len(t) \in Nat
  OBVIOUS
<1>2. 0 \in P
  BY <1>1, SumToDef
<1>3. \A n \in 1 .. Len(t) : n - 1 \in P => n \in P
  BY <1>1, SumToDef
<1>. HIDE DEF P
<1>4. \A n \in 0 .. Len(t) : n \in P
  BY <1>1, <1>2, <1>3, Induction
<1>5. Len(t) \in P
  BY <1>1, <1>4
<1>. QED
  BY <1>5 DEF P, Sum

\* and one of zeros and another number.
LEMMA SumOfOne ==
  ASSUME NEW t \in Seq(Nat), NEW k \in 1 .. Len(t), \A i \in 1 .. Len(t) : i # k => t[i] = 0
  PROVE  Sum(t) = t[k]
<1> DEFINE P == {n \in 0 .. Len(t) : SumTo(t, n) = IF n < k THEN 0 ELSE t[k]}
<1>1. Len(t) \in Nat /\ t[k] \in Nat
  OBVIOUS
<1>2. 0 \in P
  BY <1>1, SumToDef
<1>3. ASSUME NEW n \in 1 .. Len(t), n - 1 \in P PROVE n \in P
  <2>1. SumTo(t, n) = SumTo(t, n - 1) + t[n]
    BY SumToDef
  <2>2. SumTo(t, n - 1) = IF n - 1 < k THEN 0 ELSE t[k]
    BY <1>3
  <2>3. n \in 0 .. Len(t)
    BY <1>1
  <2>4. CASE n < k
    BY <1>1, <2>1, <2>2, <2>3, <2>4
  <2>5. CASE n = k
    BY <1>1, <2>1, <2>2, <2>3, <2>5
  <2>6. CASE n > k
    BY <1>1, <2>1, <2>2, <2>3, <2>6
  <2>. QED
    BY <2>4, <2>5, <2>6
<1>4. \A n \in 0 .. Len(t) : n \in P
  <2>. HIDE DEF P
  <2>. QED
    BY <1>1, <1>2, <1>3, Induction
<1>5. Len(t) \in P
  BY <1>1, <1>4
<1>. QED
  BY <1>1, <1>5 DEF Sum

\* A list without repetitions scores a chunk by where it has it, and another not at all.
LEMMA ListScores ==
  ASSUME NEW S, NEW hits \in Seq(S), NEW c
  PROVE  /\ ListScore(c, hits) \in Nat
         /\ c \notin ToSet(hits) => ListScore(c, hits) = 0
         /\ c \in ToSet(hits) /\ NoRepeats(hits) =>
              ListScore(c, hits) = RankScore(FirstAt(hits, c))
<1> DEFINE t == [i \in DOMAIN hits |-> IF hits[i] = c THEN RankScore(i) ELSE 0]
<1>1. Len(hits) \in Nat /\ DOMAIN hits = 1 .. Len(hits)
  OBVIOUS
<1>2. t \in [1 .. Len(hits) -> Nat]
  BY <1>1, RankScores
<1>3. \A i \in 1 .. Len(hits) : t[i] = IF hits[i] = c THEN RankScore(i) ELSE 0
  BY <1>1
<1>4. ListScore(c, hits) = Sum(t)
  BY DEF ListScore
<1>. HIDE DEF t
<1>5. t \in Seq(Nat) /\ Len(t) = Len(hits)
  BY <1>1, <1>2, SeqForms
<1>6. ListScore(c, hits) \in Nat
  BY <1>4, <1>5, SumType
<1>7. ToSet(hits) = {hits[i] : i \in 1 .. Len(hits)}
  BY <1>1 DEF ToSet
<1>8. ASSUME c \notin ToSet(hits) PROVE ListScore(c, hits) = 0
  <2>1. \A i \in 1 .. Len(t) : t[i] = 0
    BY <1>3, <1>5, <1>7, <1>8
  <2>. QED
    BY <2>1, <1>4, <1>5, SumOfNone
<1>9. ASSUME c \in ToSet(hits), NoRepeats(hits)
      PROVE  ListScore(c, hits) = RankScore(FirstAt(hits, c))
  <2>1. PICK k \in 1 .. Len(hits) : k = FirstAt(hits, c) /\ hits[k] = c
    BY <1>9, FirstAtIs
  <2>2. \A i \in 1 .. Len(t) : i # k => t[i] = 0
    BY <1>1, <1>3, <1>5, <1>9, <2>1 DEF NoRepeats
  <2>3. t[k] = RankScore(k)
    BY <1>3, <2>1
  <2>4. k \in 1 .. Len(t)
    BY <1>5
  <2>5. Sum(t) = t[k]
    BY <1>5, <2>2, <2>4, SumOfOne
  <2>. QED
    BY <1>4, <2>1, <2>3, <2>5
<1>. QED
  BY <1>6, <1>8, <1>9

\* A chunk that a list ranks no lower than another scores no less in it.
LEMMA RanksScore ==
  ASSUME NEW S, NEW hits \in Seq(S), Len(hits) <= MaxRank, NoRepeats(hits), NEW c, NEW d,
         RankIn(c, hits) <= RankIn(d, hits)
  PROVE  /\ ListScore(d, hits) <= ListScore(c, hits)
         /\ d \in ToSet(hits) => c \in ToSet(hits) /\ FirstAt(hits, c) <= FirstAt(hits, d)
<1>1. MaxRank \in Nat /\ Len(hits) \in Nat
  BY RankingAssumption
<1>2. \A h : h \in ToSet(hits) => RankIn(h, hits) = FirstAt(hits, h) /\ RankIn(h, hits) \in 1 .. Len(hits)
  <2>1. hits \o <<>> = hits
    BY SeqForms
  <2>2. \A h : FirstSeen(h, hits, <<>>) = FirstAt(hits, h)
    BY <2>1 DEF FirstSeen, FirstAt
  <2>3. \A h \in ToSet(hits) : FirstAt(hits, h) \in 1 .. Len(hits)
    BY FirstAtIs
  <2>. QED
    BY <2>2, <2>3 DEF RankIn
<1>3. \A h : h \notin ToSet(hits) => RankIn(h, hits) = MaxRank + 1
  BY DEF RankIn
<1>4. ASSUME d \in ToSet(hits)
      PROVE  c \in ToSet(hits) /\ FirstAt(hits, c) <= FirstAt(hits, d)
             /\ FirstAt(hits, c) \in Nat /\ FirstAt(hits, d) \in Nat
  <2>1. RankIn(d, hits) = FirstAt(hits, d) /\ RankIn(d, hits) \in 1 .. Len(hits)
    BY <1>2, <1>4
  <2>2. c \in ToSet(hits)
    <3>1. SUFFICES ASSUME c \notin ToSet(hits) PROVE FALSE
      OBVIOUS
    <3>2. RankIn(c, hits) = MaxRank + 1
      BY <1>3, <3>1
    <3>. QED
      BY <1>1, <2>1, <3>2
  <2>3. RankIn(c, hits) = FirstAt(hits, c) /\ RankIn(c, hits) \in 1 .. Len(hits)
    BY <1>2, <2>2
  <2>. QED
    BY <2>1, <2>2, <2>3
<1>5. ListScore(d, hits) <= ListScore(c, hits)
  <2>1. CASE d \in ToSet(hits)
    <3>1. c \in ToSet(hits) /\ FirstAt(hits, c) <= FirstAt(hits, d)
          /\ FirstAt(hits, c) \in Nat /\ FirstAt(hits, d) \in Nat
      BY <1>4, <2>1
    <3>2. ListScore(c, hits) = RankScore(FirstAt(hits, c))
      BY <3>1, ListScores
    <3>3. ListScore(d, hits) = RankScore(FirstAt(hits, d))
      BY <2>1, ListScores
    <3>. QED
      BY <3>1, <3>2, <3>3, RankScores
  <2>2. CASE d \notin ToSet(hits)
    <3>1. ListScore(d, hits) = 0 /\ ListScore(c, hits) \in Nat
      BY <2>2, ListScores
    <3>. QED
      BY <3>1
  <2>. QED
    BY <2>1, <2>2
<1>. QED
  BY <1>4, <1>5

\* The order of fusion: by score, and of equal scores by where a chunk was seen first.
FusionOrder(vec, kw) ==
  {p \in ToSet(vec \o kw) \X ToSet(vec \o kw) : Before(p[1], p[2], vec, kw)}

\* Where the chunks of two lists put together are first seen.
Seen(u, vec, kw) ==
  \A c \in ToSet(u) :
    /\ Score(c, vec, kw) \in Nat
    /\ FirstSeen(c, vec, kw) \in Nat /\ u[FirstSeen(c, vec, kw)] = c
    /\ c \in ToSet(vec) => FirstSeen(c, vec, kw) = FirstAt(vec, c)
    /\ c \in ToSet(vec) => FirstSeen(c, vec, kw) <= Len(vec)
    /\ c \notin ToSet(vec) => FirstSeen(c, vec, kw) = Len(vec) + FirstAt(kw, c)

\* A chunk is first seen in the vectors' list, or else in the keywords'.
LEMMA SeenFirst ==
  ASSUME NEW S, NEW vec \in Seq(S), NEW kw \in Seq(S), NEW u \in Seq(S), u = vec \o kw
  PROVE  Seen(u, vec, kw)
<1>1. \A c : Score(c, vec, kw) \in Nat
  <2>1. \A c : ListScore(c, vec) \in Nat /\ ListScore(c, kw) \in Nat
    BY ListScores
  <2>. QED
    BY <2>1 DEF Score
<1>3. /\ Len(u) = Len(vec) + Len(kw) /\ Len(vec) \in Nat /\ Len(kw) \in Nat
      /\ \A i \in 1 .. Len(vec) : u[i] = vec[i]
      /\ \A i \in 1 .. Len(kw) : u[Len(vec) + i] = kw[i]
  BY ConcatElements
<1>4. \A c : FirstSeen(c, vec, kw) = FirstAt(u, c)
  BY DEF FirstSeen, FirstAt
<1>5. ToSet(u) = ToSet(vec) \cup ToSet(kw) /\ ToSet(u) = ToSet(vec \o kw)
  BY ElementsOfConcat
<1>6. ASSUME NEW c \in ToSet(u)
      PROVE  /\ FirstAt(u, c) \in Nat /\ u[FirstAt(u, c)] = c
             /\ c \in ToSet(vec) => FirstAt(u, c) = FirstAt(vec, c) /\ FirstAt(u, c) <= Len(vec)
             /\ c \notin ToSet(vec) => FirstAt(u, c) = Len(vec) + FirstAt(kw, c)
  <2>1. PICK p \in 1 .. Len(u) : p = FirstAt(u, c) /\ u[p] = c /\ \A i \in 1 .. Len(u) : u[i] = c => p <= i
    BY FirstAtIs
  <2>2. p \in Nat
    OBVIOUS
  <2>3. ASSUME c \in ToSet(vec) PROVE p = FirstAt(vec, c) /\ p <= Len(vec)
    <3>1. PICK q \in 1 .. Len(vec) : q = FirstAt(vec, c) /\ vec[q] = c
                                     /\ \A i \in 1 .. Len(vec) : vec[i] = c => q <= i
      BY <2>3, FirstAtIs
    <3>2. q \in 1 .. Len(u) /\ u[q] = c
      BY <1>3, <3>1
    <3>3. p <= q
      BY <2>1, <3>2
    <3>4. p \in 1 .. Len(vec)
      BY <3>3
    <3>5. vec[p] = c
      BY <1>3, <2>1, <3>4
    <3>6. q <= p
      BY <3>1, <3>4, <3>5
    <3>. QED
      BY <3>1, <3>3, <3>4, <3>6
  <2>4. ASSUME c \notin ToSet(vec) PROVE p = Len(vec) + FirstAt(kw, c)
    <3>1. c \in ToSet(kw)
      BY <1>5, <2>4
    <3>2. PICK q \in 1 .. Len(kw) : q = FirstAt(kw, c) /\ kw[q] = c
                                     /\ \A i \in 1 .. Len(kw) : kw[i] = c => q <= i
      BY <3>1, FirstAtIs
    <3>3. Len(vec) + q \in 1 .. Len(u) /\ u[Len(vec) + q] = c
      BY <1>3, <3>2
    <3>4. p <= Len(vec) + q
      BY <2>1, <3>3
    <3>5. p \notin 1 .. Len(vec)
      <4>1. SUFFICES ASSUME p \in 1 .. Len(vec) PROVE FALSE
        OBVIOUS
      <4>2. vec[p] = c
        BY <1>3, <2>1, <4>1
      <4>3. ToSet(vec) = {vec[i] : i \in 1 .. Len(vec)}
        BY ElementsOf
      <4>. QED
        BY <2>4, <4>1, <4>2, <4>3
    <3>6. p - Len(vec) \in 1 .. Len(kw) /\ p = Len(vec) + (p - Len(vec))
      BY <1>3, <3>5
    <3>7. kw[p - Len(vec)] = c
      BY <1>3, <2>1, <3>6
    <3>8. q <= p - Len(vec)
      BY <3>2, <3>6, <3>7
    <3>9. Len(vec) \in Nat /\ p \in Nat /\ q \in Nat
      BY <1>3
    <3>10. p = Len(vec) + q
      <4>1. PICK l \in Nat : l = Len(vec)
        BY <3>9
      <4>2. p <= l + q /\ q <= p - l
        BY <3>4, <3>8, <4>1
      <4>3. \A x, y, z \in Nat : x <= y + z /\ z <= x - y => x = y + z
        OBVIOUS
      <4>4. p = l + q
        BY <3>9, <4>2, <4>3
      <4>. QED
        BY <4>1, <4>4
    <3>. QED
      BY <3>2, <3>10
  <2>. QED
    BY <2>1, <2>2, <2>3, <2>4
<1>. QED
  BY <1>1, <1>4, <1>6 DEF Seen

\* It is a strict order of all chunks in the two lists, as no two are first seen at one place.
LEMMA FusionOrders ==
  ASSUME NEW S, NEW vec \in Seq(S), NEW kw \in Seq(S)
  PROVE  Orders(FusionOrder(vec, kw), ToSet(vec \o kw))
<1>1. PICK u \in Seq(S) : u = vec \o kw
  BY SeqForms
<1>2. PICK C : C = ToSet(vec \o kw)
  OBVIOUS
<1>3. IsFiniteSet(C)
  BY <1>1, <1>2, ElementsOf
<1>4. \A c \in C : Score(c, vec, kw) \in Nat /\ FirstSeen(c, vec, kw) \in Nat
                   /\ u[FirstSeen(c, vec, kw)] = c
  <2>1. \A c \in ToSet(u) : Score(c, vec, kw) \in Nat /\ FirstSeen(c, vec, kw) \in Nat
                            /\ u[FirstSeen(c, vec, kw)] = c
    <3>1. Seen(u, vec, kw)
      BY <1>1, SeenFirst
    <3>. QED
      BY <3>1 DEF Seen
  <2>. QED
    BY <1>1, <1>2, <2>1
<1>5. \A c, d \in C : <<c, d>> \in FusionOrder(vec, kw) <=> Before(c, d, vec, kw)
  BY <1>2 DEF FusionOrder
<1>6. \A c \in C : ~ Before(c, c, vec, kw)
  BY <1>4 DEF Before
<1>7. ASSUME NEW c \in C, NEW d \in C, NEW e \in C, Before(c, d, vec, kw), Before(d, e, vec, kw)
      PROVE  Before(c, e, vec, kw)
  BY <1>4, <1>7 DEF Before
<1>8. ASSUME NEW c \in C, NEW d \in C, c # d
      PROVE  Before(c, d, vec, kw) \/ Before(d, c, vec, kw)
  <2>1. FirstSeen(c, vec, kw) # FirstSeen(d, vec, kw)
    BY <1>4, <1>8
  <2>. QED
    BY <1>4, <2>1 DEF Before
<1>9. Orders(FusionOrder(vec, kw), C)
  BY <1>3, <1>5, <1>6, <1>7, <1>8 DEF Orders
<1>. QED
  BY <1>2, <1>9

\* So fusion lists each of these chunks once, in that order.
LEMMA FusedIs ==
  ASSUME NEW S, NEW vec \in Seq(S), NEW kw \in Seq(S)
  PROVE  /\ Fused(vec, kw) \in Seq(S) /\ NoRepeats(Fused(vec, kw))
         /\ ToSet(Fused(vec, kw)) = ToSet(vec \o kw)
         /\ \A i, j \in 1 .. Len(Fused(vec, kw)) :
              i < j => Before(Fused(vec, kw)[i], Fused(vec, kw)[j], vec, kw)
<1>1. PICK u \in Seq(S) : u = vec \o kw
  BY SeqForms
<1>2. PICK C : C = ToSet(vec \o kw)
  OBVIOUS
<1>3. C \subseteq S
  BY <1>1, <1>2, ElementsOf
<1>4. PICK R : R = FusionOrder(vec, kw)
  OBVIOUS
<1>5. Orders(R, C)
  BY <1>2, <1>4, FusionOrders
<1>6. PICK N \in Nat : N = Cardinality(C)
  BY <1>5, PlacesInOrder
<1>7. PICK s : s = Fused(vec, kw)
  OBVIOUS
<1>8. \A c \in C : {d \in C : Before(d, c, vec, kw)} = Under(c, C, R)
  BY <1>2, <1>4 DEF Under, FusionOrder
<1>9. ASSUME NEW i \in 1 .. N PROVE s[i] \in C /\ Place(s[i], C, R) = i
  <2>1. PICK c \in C : Place(c, C, R) = i
    BY <1>5, <1>6, PlacesTaken
  <2>2. 1 + Cardinality({d \in C : Before(d, c, vec, kw)}) = i
    BY <2>1, <1>8 DEF Place
  <2>3. s[i] = CHOOSE d \in C : 1 + Cardinality({e \in C : Before(e, d, vec, kw)}) = i
    BY <1>2, <1>6, <1>7 DEF Fused
  <2>4. s[i] \in C /\ 1 + Cardinality({d \in C : Before(d, s[i], vec, kw)}) = i
    BY <2>2, <2>3
  <2>. QED
    BY <2>4, <1>8 DEF Place
<1>10. s \in [1 .. N -> C]
  BY <1>2, <1>6, <1>7, <1>9 DEF Fused
<1>11. /\ s \in Seq(C) /\ Len(s) = N /\ NoRepeats(s) /\ ToSet(s) = C
       /\ \A i, j \in 1 .. N : i < j => <<s[i], s[j]>> \in R
  <2>1. \A i \in 1 .. N : Place(s[i], C, R) = i
    BY <1>9
  <2>. QED
    BY <1>5, <1>6, <1>10, <2>1, RankedOf, SMTT(60)
<1>12. s \in Seq(S)
  BY <1>3, <1>11
<1>13. \A p \in R : Before(p[1], p[2], vec, kw)
  BY <1>4 DEF FusionOrder
<1>14. \A i, j \in 1 .. N : i < j => Before(s[i], s[j], vec, kw)
  BY <1>11, <1>13
<1>. QED
  BY <1>2, <1>7, <1>11, <1>12, <1>14

\* Hence a chunk that both lists rank above another comes before it.
LEMMA FusionSound ==
  ASSUME NEW S, NEW vec \in Seq(S), NEW kw \in Seq(S), Len(vec) <= MaxRank, Len(kw) <= MaxRank
  PROVE  FusesByRank(vec, kw)
<1>1. PICK s \in Seq(S) : s = Fused(vec, kw)
  BY FusedIs
<1>2. /\ NoRepeats(s) /\ ToSet(s) = ToSet(vec \o kw)
      /\ \A i, j \in 1 .. Len(s) : i < j => Before(s[i], s[j], vec, kw)
  BY <1>1, FusedIs
<1>u. PICK u \in Seq(S) : u = vec \o kw
  BY SeqForms
<1>s. Seen(u, vec, kw)
  BY <1>u, SeenFirst
<1>3. DOMAIN s = 1 .. Len(s) /\ ToSet(s) = {s[i] : i \in 1 .. Len(s)}
  BY ElementsOf
<1>4. ASSUME NoRepeats(vec), NoRepeats(kw), NEW i \in 1 .. Len(s), NEW j \in 1 .. Len(s),
             RankIn(s[i], vec) <= RankIn(s[j], vec), RankIn(s[i], kw) <= RankIn(s[j], kw)
      PROVE  i <= j
  <2>1. PICK c, d : c = s[i] /\ d = s[j]
    OBVIOUS
  <2>2. c \in ToSet(u) /\ d \in ToSet(u)
    BY <1>2, <1>3, <1>u, <2>1
  <2>3. /\ ListScore(d, vec) <= ListScore(c, vec)
        /\ d \in ToSet(vec) => c \in ToSet(vec) /\ FirstAt(vec, c) <= FirstAt(vec, d)
    BY <1>4, <2>1, RanksScore
  <2>4. /\ ListScore(d, kw) <= ListScore(c, kw)
        /\ d \in ToSet(kw) => c \in ToSet(kw) /\ FirstAt(kw, c) <= FirstAt(kw, d)
    BY <1>4, <2>1, RanksScore
  <2>5. Score(d, vec, kw) <= Score(c, vec, kw)
    <3>1. /\ ListScore(c, vec) \in Nat /\ ListScore(d, vec) \in Nat
          /\ ListScore(c, kw) \in Nat /\ ListScore(d, kw) \in Nat
      BY ListScores
    <3>. QED
      BY <2>3, <2>4, <3>1 DEF Score
  <2>6. FirstSeen(c, vec, kw) <= FirstSeen(d, vec, kw)
    <3>1. CASE d \in ToSet(vec)
      <4>1. c \in ToSet(vec) /\ FirstAt(vec, c) <= FirstAt(vec, d)
        BY <2>3, <3>1
      <4>2. FirstSeen(c, vec, kw) = FirstAt(vec, c) /\ FirstSeen(d, vec, kw) = FirstAt(vec, d)
        BY <2>2, <3>1, <4>1, <1>s DEF Seen
      <4>. QED
        BY <4>1, <4>2
    <3>2. CASE d \notin ToSet(vec)
      <4>1. d \in ToSet(kw)
        BY <1>u, <2>2, <3>2, ElementsOfConcat
      <4>2. c \in ToSet(kw) /\ FirstAt(kw, c) <= FirstAt(kw, d)
        BY <2>4, <4>1
      <4>3. FirstAt(kw, c) \in 1 .. Len(kw) /\ FirstAt(kw, d) \in 1 .. Len(kw) /\ Len(vec) \in Nat
        BY <4>1, <4>2, FirstAtIs
      <4>4. FirstSeen(d, vec, kw) = Len(vec) + FirstAt(kw, d)
        BY <2>2, <3>2, <1>s DEF Seen
      <4>5. CASE c \in ToSet(vec)
        <5>1. FirstSeen(c, vec, kw) <= Len(vec) /\ FirstSeen(c, vec, kw) \in Nat
          BY <2>2, <4>5, <1>s DEF Seen
        <5>. QED
          BY <4>3, <4>4, <5>1
      <4>6. CASE c \notin ToSet(vec)
        <5>1. FirstSeen(c, vec, kw) = Len(vec) + FirstAt(kw, c)
          BY <2>2, <4>6, <1>s DEF Seen
        <5>. QED
          BY <4>2, <4>3, <4>4, <5>1
      <4>. QED
        BY <4>5, <4>6
    <3>. QED
      BY <3>1, <3>2
  <2>7. ~ Before(d, c, vec, kw)
    <3>1. Score(c, vec, kw) \in Nat /\ Score(d, vec, kw) \in Nat
          /\ FirstSeen(c, vec, kw) \in Nat /\ FirstSeen(d, vec, kw) \in Nat
      BY <2>2, <1>s DEF Seen
    <3>. QED
      BY <2>5, <2>6, <3>1 DEF Before
  <2>8. ~ (j < i)
    BY <1>2, <2>1, <2>7
  <2>. QED
    BY <2>8
<1>. QED
  BY <1>1, <1>2, <1>3, <1>4 DEF FusesByRank

\* Whatever the mode of the search, its hits are chunks of the lists.
LEMMA HitsType ==
  ASSUME NEW S, NEW vec \in Seq(S), NEW kw \in Seq(S), NEW mode \in {"vector", "bm25", "hybrid"}
  PROVE  Hits(mode, vec, kw) \in Seq(S)
<1>1. FirstOf(Fused(vec, kw), MergedTop) \in Seq(S)
  <2>1. MergedTop \in Nat
    BY RankingAssumption
  <2>2. PICK s \in Seq(S) : s = Fused(vec, kw)
    BY FusedIs
  <2>. QED
    BY <2>1, <2>2, FirstOfIs
<1>. QED
  BY <1>1 DEF Hits

-----------------------------------------------------------------------------
(* Citations. *)

\* A mark in a text.
MarkType == [parts : Seq(Part), canonical : BOOLEAN]

\* What parsing makes of the marks of a text.
Entry(text, m) == [ref |-> parse_ref_mark(text[m].mark), sentence |-> text[m].sentence]
Skipped(text, m) == ~ Whole(text[m].mark) \/ Fails(text[m].mark)
Entries(text) == {Entry(text, m) : m \in 1 .. Len(text)}
OneParsed(p, text, n) == IF Skipped(text, n) THEN p ELSE Append(p, Entry(text, n))

\* One mark more gives one entry more, or none.
LEMMA OneParsedType ==
  ASSUME NEW text, NEW n \in 1 .. Len(text), NEW p \in Seq(Entries(text))
  PROVE  OneParsed(p, text, n) \in Seq(Entries(text))
<1>1. PICK e \in Entries(text) : e = Entry(text, n)
  BY DEF Entries
<1>2. Append(p, e) \in Seq(Entries(text))
  BY SeqForms
<1>. QED
  BY <1>1, <1>2 DEF OneParsed

\* Parsing goes through the text one mark after the other.
LEMMA ParsedToDef ==
  ASSUME NEW text \in Seq(MarkAt)
  PROVE  /\ ParsedTo(text, 0) = <<>>
         /\ \A n \in 1 .. Len(text) : ParsedTo(text, n) = OneParsed(ParsedTo(text, n - 1), text, n)
<1> DEFINE N == Len(text)
           S == Seq(Entries(text))
           step == [n \in 1 .. N |-> [p \in S |-> OneParsed(p, text, n)]]
           Is(g) == g = [m \in 0 .. N |->
                           IF m = 0 THEN <<>>
                           ELSE LET ref == parse_ref_mark(text[m].mark) IN
                                IF ~Whole(text[m].mark) \/ ref.parse_error THEN g[m - 1]
                                ELSE Append(g[m - 1], [ref |-> ref, sentence |-> text[m].sentence])]
           f == CHOOSE g : Is(g)
<1>1. N \in Nat
  OBVIOUS
<1>2. \A n \in 1 .. N, p \in S : OneParsed(p, text, n) \in S
  BY OneParsedType
<1>3. <<>> \in S
  BY SeqForms
<1>. HIDE DEF N, S
<1>4. step \in [1 .. N -> [S -> S]]
  BY <1>2
<1>5. PICK g : Follows(g, N, S, <<>>, step)
  <2>. HIDE DEF step
  <2>. QED
    BY <1>1, <1>3, <1>4, Recursion
<1>6. Is(g)
  <2>1. g \in [0 .. N -> S] /\ g[0] = <<>>
    BY <1>5 DEF Follows
  <2>2. \A n \in 1 .. N : g[n - 1] \in S
    BY <1>1, <2>1
  <2>3. \A n \in 1 .. N : g[n] = OneParsed(g[n - 1], text, n)
    BY <2>2, <1>5 DEF Follows
  <2>4. \A n \in 0 .. N : n # 0 => n \in 1 .. N
    BY <1>1
  <2>. QED
    BY <2>1, <2>3, <2>4 DEF OneParsed, Skipped, Fails, Entry
<1>7. Is(f)
  BY <1>6
<1>8. \A n \in 0 .. N : f[n] = IF n = 0 THEN <<>> ELSE OneParsed(f[n - 1], text, n)
  <2>. HIDE DEF f
  <2>. QED
    BY <1>7 DEF OneParsed, Skipped, Fails, Entry
<1>9. \A n : ParsedTo(text, n) = f[n]
  BY DEF ParsedTo, N
<1>. HIDE DEF f
<1>10. 0 \in 0 .. N /\ \A n \in 1 .. N : n \in 0 .. N /\ n # 0
  BY <1>1
<1>11. ParsedTo(text, 0) = <<>>
  BY <1>8, <1>9, <1>10
<1>12. \A n \in 1 .. N : ParsedTo(text, n) = OneParsed(ParsedTo(text, n - 1), text, n)
  BY <1>8, <1>9, <1>10
<1>. QED
  BY <1>11, <1>12 DEF N

\* The marks of the first n that stand in a sentence, and those of them that could not be parsed.
WholeOf(text, n) == {m \in 1 .. n : Whole(text[m].mark)}
FailedOf(text, n) == {m \in 1 .. n : Whole(text[m].mark) /\ Fails(text[m].mark)}

\* Each mark that stands in a sentence becomes a reference or an error.
LEMMA ParsedSound ==
  ASSUME NEW text \in Seq(MarkAt)
  PROVE  /\ parse(text) \in Seq(Entries(text))
         /\ parse_errors(text) \in Nat
         /\ Len(parse(text)) + parse_errors(text) = Cardinality(WholeOf(text, Len(text)))
<1> DEFINE N == Len(text)
           AllIn(n) == /\ ParsedTo(text, n) \in Seq(Entries(text))
                       /\ IsFiniteSet(FailedOf(text, n)) /\ Cardinality(FailedOf(text, n)) \in Nat
                       /\ IsFiniteSet(WholeOf(text, n))
                       /\ Len(ParsedTo(text, n)) + Cardinality(FailedOf(text, n))
                          = Cardinality(WholeOf(text, n))
           P == {n \in 0 .. N : AllIn(n)}
<1>1. N \in Nat
  OBVIOUS
<1>2. AllIn(0)
  <2>1. FailedOf(text, 0) = {} /\ WholeOf(text, 0) = {}
    BY DEF FailedOf, WholeOf
  <2>2. ParsedTo(text, 0) = <<>>
    BY ParsedToDef
  <2>3. <<>> \in Seq(Entries(text)) /\ Len(<<>>) = 0
    BY SeqForms
  <2>4. IsFiniteSet({}) /\ Cardinality({}) = 0
    BY FS_EmptySet
  <2>5. /\ IsFiniteSet(FailedOf(text, 0)) /\ Cardinality(FailedOf(text, 0)) = 0
        /\ IsFiniteSet(WholeOf(text, 0)) /\ Cardinality(WholeOf(text, 0)) = 0
    BY <2>1, <2>4
  <2>6. PICK p \in Seq(Entries(text)) : p = ParsedTo(text, 0) /\ Len(p) = 0
    BY <2>2, <2>3
  <2>. QED
    BY <2>5, <2>6
<1>3. ASSUME NEW n \in 1 .. N, AllIn(n - 1) PROVE AllIn(n)
  <2>1. PICK p \in Seq(Entries(text)) : p = ParsedTo(text, n - 1)
    BY <1>3
  <2>2. ParsedTo(text, n) = OneParsed(p, text, n)
    BY <2>1, ParsedToDef
  <2>3. PICK F, W : F = FailedOf(text, n - 1) /\ W = WholeOf(text, n - 1)
    OBVIOUS
  <2>4. /\ n \in Nat /\ n \notin F /\ n \notin W
        /\ IsFiniteSet(F) /\ Cardinality(F) \in Nat /\ IsFiniteSet(W)
        /\ Len(p) + Cardinality(F) = Cardinality(W) /\ Len(p) \in Nat
    BY <1>3, <2>1, <2>3 DEF FailedOf, WholeOf
  <2>5. \A m : m \in 1 .. n <=> m \in 1 .. n - 1 \/ m = n
    BY <2>4
  <2>6. CASE ~ Whole(text[n].mark)
    <3>1. FailedOf(text, n) = F /\ WholeOf(text, n) = W
      BY <2>3, <2>5, <2>6 DEF FailedOf, WholeOf
    <3>2. ParsedTo(text, n) = p
      BY <2>2, <2>6 DEF OneParsed, Skipped
    <3>. QED
      BY <2>4, <3>1, <3>2
  <2>7. ASSUME Whole(text[n].mark)
        PROVE  /\ WholeOf(text, n) = W \cup {n} /\ IsFiniteSet(W \cup {n})
               /\ Cardinality(W \cup {n}) = Len(p) + Cardinality(F) + 1
    <3>1. WholeOf(text, n) = W \cup {n}
      BY <2>3, <2>5, <2>7 DEF WholeOf
    <3>2. IsFiniteSet(W \cup {n}) /\ Cardinality(W \cup {n}) = Cardinality(W) + 1
      BY <2>4, FS_AddElement
    <3>. QED
      BY <2>4, <3>1, <3>2
  <2>8. CASE Whole(text[n].mark) /\ Fails(text[n].mark)
    <3>1. FailedOf(text, n) = F \cup {n}
      BY <2>3, <2>5, <2>8 DEF FailedOf
    <3>2. IsFiniteSet(F \cup {n}) /\ Cardinality(F \cup {n}) = Cardinality(F) + 1
      BY <2>4, FS_AddElement
    <3>3. ParsedTo(text, n) = p
      BY <2>2, <2>8 DEF OneParsed, Skipped
    <3>4. Len(p) + (Cardinality(F) + 1) = Len(p) + Cardinality(F) + 1 /\ Cardinality(F) + 1 \in Nat
      BY <2>4
    <3>. QED
      BY <2>4, <2>7, <2>8, <3>1, <3>2, <3>3, <3>4
  <2>9. CASE Whole(text[n].mark) /\ ~ Fails(text[n].mark)
    <3>1. FailedOf(text, n) = F
      BY <2>3, <2>5, <2>9 DEF FailedOf
    <3>2. PICK e \in Entries(text) : e = Entry(text, n)
      BY DEF Entries
    <3>3. ParsedTo(text, n) = Append(p, e)
      BY <2>2, <2>9, <3>2 DEF OneParsed, Skipped
    <3>4. Append(p, e) \in Seq(Entries(text)) /\ Len(Append(p, e)) = Len(p) + 1
      OBVIOUS
    <3>5. PICK q \in Seq(Entries(text)) : q = Append(p, e) /\ Len(q) = Len(p) + 1
      BY <3>4
    <3>6. PICK k \in Nat, l \in Nat : k = Cardinality(F) /\ l = Len(p)
      BY <2>4
    <3>7. Len(q) + Cardinality(F) = Len(p) + Cardinality(F) + 1
      BY <3>5, <3>6
    <3>. QED
      BY <2>4, <2>7, <2>9, <3>1, <3>3, <3>5, <3>7
  <2>. QED
    BY <2>6, <2>8, <2>9
<1>4. \A n \in 0 .. N : n \in P
  <2>1. 0 \in P
    BY <1>1, <1>2
  <2>2. \A n \in 1 .. N : n - 1 \in P => n \in P
    <3>1. \A n \in 1 .. N : n \in 0 .. N
      BY <1>1
    <3>. QED
      BY <1>3, <3>1
  <2>. HIDE DEF P, N
  <2>. QED
    BY <1>1, <2>1, <2>2, Induction
<1>5. AllIn(N)
  <2>1. N \in P
    BY <1>1, <1>4
  <2>. QED
    BY <2>1
<1>6. parse_errors(text) = Cardinality(FailedOf(text, N))
  <2>1. DOMAIN text = 1 .. N
    OBVIOUS
  <2>2. {m \in DOMAIN text : Whole(text[m].mark) /\ Fails(text[m].mark)} = FailedOf(text, N)
    BY <2>1 DEF FailedOf
  <2>. QED
    BY <2>2 DEF parse_errors
<1>. QED
  BY <1>5, <1>6 DEF parse

\* What parsing keeps of the parts of a mark are parts of it.
LEMMA PartsToType ==
  ASSUME NEW parts \in Seq(Part)
  PROVE  PartsTo(parts, Len(parts)) \in Seq(Part)
<1> DEFINE N == Len(parts)
           S == Seq(Part)
           step == [n \in 1 .. N |-> [a \in S |-> IF parts[n] = Blank THEN a ELSE Append(a, parts[n])]]
           Is(g) == g = [i \in 0 .. N |->
                           IF i = 0 THEN <<>>
                           ELSE IF parts[i] = Blank THEN g[i - 1] ELSE Append(g[i - 1], parts[i])]
           f == CHOOSE g : Is(g)
<1>1. N \in Nat /\ \A n \in 1 .. N : parts[n] \in Part
  OBVIOUS
<1>2. <<>> \in S
  BY SeqForms
<1>3. \A n \in 1 .. N, a \in S : Append(a, parts[n]) \in S
  BY <1>1, SeqForms
<1>. HIDE DEF N, S
<1>4. step \in [1 .. N -> [S -> S]]
  BY <1>3
<1>5. PICK g : Follows(g, N, S, <<>>, step)
  <2>. HIDE DEF step
  <2>. QED
    BY <1>1, <1>2, <1>4, Recursion
<1>6. Is(g)
  <2>1. g \in [0 .. N -> S] /\ g[0] = <<>>
    BY <1>5 DEF Follows
  <2>2. \A n \in 1 .. N : g[n - 1] \in S
    BY <1>1, <2>1
  <2>3. \A n \in 1 .. N : g[n] = IF parts[n] = Blank THEN g[n - 1] ELSE Append(g[n - 1], parts[n])
    BY <2>2, <1>5 DEF Follows
  <2>4. \A n \in 0 .. N : n # 0 => n \in 1 .. N
    BY <1>1
  <2>. QED
    BY <2>1, <2>3, <2>4
<1>7. Is(f)
  BY <1>6
<1>8. \A n \in 0 .. N : f[n] = IF n = 0 THEN <<>>
                               ELSE IF parts[n] = Blank THEN f[n - 1] ELSE Append(f[n - 1], parts[n])
  <2>. HIDE DEF f
  <2>. QED
    BY <1>7
<1>9. PartsTo(parts, Len(parts)) = f[N]
  BY DEF PartsTo, N
<1> DEFINE P == {n \in 0 .. N : f[n] \in S}
<1>. HIDE DEF f
<1>10. 0 \in P
  BY <1>1, <1>2, <1>8
<1>11. ASSUME NEW n \in 1 .. N, n - 1 \in P PROVE n \in P
  <2>1. n \in 0 .. N /\ n # 0 /\ f[n - 1] \in S
    BY <1>1, <1>11
  <2>2. f[n] = IF parts[n] = Blank THEN f[n - 1] ELSE Append(f[n - 1], parts[n])
    BY <1>8, <2>1
  <2>. QED
    BY <1>3, <2>1, <2>2
<1>12. \A n \in 0 .. N : n \in P
  <2>. HIDE DEF P
  <2>. QED
    BY <1>1, <1>10, <1>11, Induction
<1>13. N \in P
  BY <1>1, <1>12
<1>. QED
  BY <1>9, <1>13 DEF S

\* What a mark refers to: parts of it, none when it is uncertain.
LEMMA MarkParsed ==
  ASSUME NEW mark \in MarkType
  PROVE  /\ parse_ref_mark(mark).doc_refs \in Seq(Part)
         /\ parse_ref_mark(mark).is_uncertain \in BOOLEAN
         /\ parse_ref_mark(mark).is_uncertain => parse_ref_mark(mark).doc_refs = <<>>
<1>1. mark.parts \in Seq(Part)
  BY DEF MarkType
<1>2. PICK parts \in Seq(Part) : parts = PartsTo(mark.parts, Len(mark.parts))
  BY <1>1, PartsToType
<1>3. <<>> \in Seq(Part)
  BY SeqForms
<1>4. CASE mark.parts = Uncertain
  <2>1. parse_ref_mark(mark)
        = [raw_mark |-> mark, is_uncertain |-> TRUE, doc_refs |-> <<>>, parse_error |-> FALSE]
    BY <1>4 DEF parse_ref_mark
  <2>. QED
    BY <2>1, <1>3
<1>5. CASE mark.parts # Uncertain
  <2>1. parse_ref_mark(mark)
        = [raw_mark |-> mark, is_uncertain |-> FALSE,
           doc_refs |-> IF Malformed \in ToSet(parts) THEN <<>> ELSE parts,
           parse_error |-> Malformed \in ToSet(parts) \/ parts = <<>>]
    BY <1>2, <1>5 DEF parse_ref_mark
  <2>2. parse_ref_mark(mark).is_uncertain = FALSE
        /\ parse_ref_mark(mark).doc_refs \in {<<>>, parts}
    BY <2>1
  <2>. QED
    BY <1>2, <1>3, <2>2
<1>. QED
  BY <1>4, <1>5

\* The documents of a reference that a chunk is of, and whether one's pages are in the chunk.
Near(ref, c) == {r \in ToSet(ref.doc_refs) : r.document = c.document}
Covers(ref, c) ==
  \E r \in Near(ref, c) :
    r.pages # Unreadable
    /\ \A n \in PageRange(r.pages).start .. PageRange(r.pages).end :
         PageRange(c.pages).start <= n /\ n <= PageRange(c.pages).end
Like(ref, i, chunks) == {c \in ToSet(chunks) : i \in c.similarTo /\ Near(ref, c) # {}}

\* That one range contains another is that it contains each of its pages.
LEMMA PagesContained ==
  ASSUME NEW outer \in Nat \X Nat, NEW inner \in Nat \X Nat, outer[1] <= outer[2]
  PROVE  contains([start |-> outer[1], end |-> outer[2]], PageRange(inner))
         <=> \A n \in PageRange(inner).start .. PageRange(inner).end :
               PageRange(outer).start <= n /\ n <= PageRange(outer).end
<1>1. PICK a \in Nat, b \in Nat : a = outer[1] /\ b = outer[2] /\ a <= b
  OBVIOUS
<1>2. PICK c \in Nat, d \in Nat : c = Min({inner[1], inner[2]}) /\ d = Max({inner[1], inner[2]}) /\ c <= d
  <2>1. inner[1] \in Nat /\ inner[2] \in Nat
    OBVIOUS
  <2>. QED
    BY <2>1, MinOfTwo, MaxOfTwo
<1>3. Min({a, b}) = a /\ Max({a, b}) = b
  BY <1>1, MinOfTwo, MaxOfTwo
<1>4. PageRange(inner) = [start |-> c, end |-> d] /\ PageRange(outer) = [start |-> a, end |-> b]
  BY <1>1, <1>2, <1>3 DEF PageRange
<1>5. contains([start |-> outer[1], end |-> outer[2]], PageRange(inner)) <=> a <= c /\ b >= d
  BY <1>1, <1>4 DEF contains
<1>6. (\A n \in c .. d : a <= n /\ n <= b) <=> a <= c /\ b >= d
  BY <1>2
<1>. QED
  BY <1>4, <1>5, <1>6

\* There are three confidences, whatever is compared.
Confidences == {"direct", "fuzzy", "uncertain"}

LEMMA ConfidenceType == \A chunk, r, i : ConfidenceIn(chunk, r, i) \in Confidences
<1> TAKE chunk, r, i
<1> DEFINE exact == /\ r.pages # Unreadable
                    /\ contains([start |-> chunk.pages[1], end |-> chunk.pages[2]], PageRange(r.pages))
           similar == i \in chunk.similarTo
<1>1. exact \in BOOLEAN /\ similar \in BOOLEAN
  OBVIOUS
<1>2. ConfidenceIn(chunk, r, i) = CASE exact /\ similar -> "direct"
                                    [] ~exact /\ similar -> "fuzzy"
                                    [] ~similar -> "uncertain"
  BY DEF ConfidenceIn, determine_confidence
<1>. HIDE DEF exact, similar
<1>. QED
  BY <1>1, <1>2 DEF Confidences

\* What a chunk and a part are worth: similar or not, and with all pages of the part or not.
LEMMA ConfidenceIs ==
  ASSUME NEW chunk \in ContextChunk, chunk.pages[1] <= chunk.pages[2], NEW r \in Part, NEW i
  PROVE  /\ ConfidenceIn(chunk, r, i) \in {"direct", "fuzzy", "uncertain"}
         /\ ConfidenceIn(chunk, r, i) = "uncertain" <=> i \notin chunk.similarTo
         /\ ConfidenceIn(chunk, r, i) = "direct" <=>
              /\ i \in chunk.similarTo /\ r.pages # Unreadable
              /\ \A n \in PageRange(r.pages).start .. PageRange(r.pages).end :
                   PageRange(chunk.pages).start <= n /\ n <= PageRange(chunk.pages).end
<1>1. chunk.pages \in Nat \X Nat /\ r.pages \in Nat \X Nat
  BY DEF ContextChunk, Part
<1> DEFINE exact == /\ r.pages # Unreadable
                    /\ contains([start |-> chunk.pages[1], end |-> chunk.pages[2]], PageRange(r.pages))
           similar == i \in chunk.similarTo
<1>2. exact <=> /\ r.pages # Unreadable
                /\ \A n \in PageRange(r.pages).start .. PageRange(r.pages).end :
                     PageRange(chunk.pages).start <= n /\ n <= PageRange(chunk.pages).end
  BY <1>1, PagesContained
<1>3. ConfidenceIn(chunk, r, i) = CASE exact /\ similar -> "direct"
                                    [] ~exact /\ similar -> "fuzzy"
                                    [] ~similar -> "uncertain"
  BY DEF ConfidenceIn, determine_confidence
<1>. HIDE DEF exact
<1>4. /\ exact /\ similar => ConfidenceIn(chunk, r, i) = "direct"
      /\ ~exact /\ similar => ConfidenceIn(chunk, r, i) = "fuzzy"
      /\ ~similar => ConfidenceIn(chunk, r, i) = "uncertain"
  BY <1>3
<1>. QED
  BY <1>2, <1>4

\* The pairs of a chunk and a reference of the same document that are worth something are those of
\* the chunks like the sentence, and one of them is direct where a chunk covers the reference.
LEMMA WorthIs ==
  ASSUME NEW ref, ref.doc_refs \in Seq(Part), NEW chunks \in Seq(ContextChunk),
         \A c \in DOMAIN chunks : chunks[c].pages[1] <= chunks[c].pages[2], NEW i
  PROVE  /\ Matches(ref.doc_refs, i, chunks) = Like(ref, i, chunks)
         /\ \A c \in ToSet(chunks) : \A r \in Near(ref, c) :
              ConfidenceIn(c, r, i) # "uncertain" => c \in Like(ref, i, chunks)
         /\ \A c \in Like(ref, i, chunks) : c \in ToSet(chunks) /\ Near(ref, c) # {}
              /\ \A r \in Near(ref, c) : ConfidenceIn(c, r, i) # "uncertain"
         /\ \A c \in ToSet(chunks) : \A r \in Near(ref, c) :
              ConfidenceIn(c, r, i) = "direct" => c \in Like(ref, i, chunks) /\ Covers(ref, c)
         /\ \A c \in Like(ref, i, chunks) : Covers(ref, c) =>
              \E r \in Near(ref, c) : ConfidenceIn(c, r, i) = "direct"
<1>1. \A c \in ToSet(chunks) : c \in ContextChunk /\ c.pages[1] <= c.pages[2]
  <2>1. DOMAIN chunks = 1 .. Len(chunks) /\ \A c \in 1 .. Len(chunks) : chunks[c] \in ContextChunk
    OBVIOUS
  <2>. QED
    BY <2>1 DEF ToSet
<1>2. ToSet(ref.doc_refs) \subseteq Part
  <2>1. PICK parts \in Seq(Part) : parts = ref.doc_refs
    OBVIOUS
  <2>2. ToSet(parts) \subseteq Part
    BY ElementsOf
  <2>. QED
    BY <2>1, <2>2
<1>3. ASSUME NEW c \in ToSet(chunks), NEW r \in ToSet(ref.doc_refs)
      PROVE  /\ ConfidenceIn(c, r, i) = "uncertain" <=> i \notin c.similarTo
             /\ ConfidenceIn(c, r, i) = "direct" <=>
                  /\ i \in c.similarTo /\ r.pages # Unreadable
                  /\ \A n \in PageRange(r.pages).start .. PageRange(r.pages).end :
                       PageRange(c.pages).start <= n /\ n <= PageRange(c.pages).end
  <2>1. c \in ContextChunk /\ c.pages[1] <= c.pages[2] /\ r \in Part
    BY <1>1, <1>2
  <2>. QED
    BY <2>1, ConfidenceIs
<1>4. Matches(ref.doc_refs, i, chunks) = Like(ref, i, chunks)
  BY <1>3 DEF Matches, Like, Near
<1>5. ASSUME NEW c \in ToSet(chunks), NEW r \in Near(ref, c), ConfidenceIn(c, r, i) # "uncertain"
      PROVE  c \in Like(ref, i, chunks)
  BY <1>3, <1>5 DEF Like, Near
<1>6. ASSUME NEW c \in Like(ref, i, chunks)
      PROVE  /\ c \in ToSet(chunks) /\ Near(ref, c) # {}
             /\ \A r \in Near(ref, c) : ConfidenceIn(c, r, i) # "uncertain"
  BY <1>3 DEF Like, Near
<1>7. ASSUME NEW c \in ToSet(chunks), NEW r \in Near(ref, c), ConfidenceIn(c, r, i) = "direct"
      PROVE  c \in Like(ref, i, chunks) /\ Covers(ref, c)
  <2>1. r \in ToSet(ref.doc_refs)
    BY DEF Near
  <2>. QED
    BY <1>3, <1>5, <1>7, <2>1 DEF Covers
<1>8. ASSUME NEW c \in Like(ref, i, chunks), Covers(ref, c)
      PROVE  \E r \in Near(ref, c) : ConfidenceIn(c, r, i) = "direct"
  <2>1. PICK r \in Near(ref, c) :
          r.pages # Unreadable
          /\ \A n \in PageRange(r.pages).start .. PageRange(r.pages).end :
               PageRange(c.pages).start <= n /\ n <= PageRange(c.pages).end
    BY <1>8 DEF Covers
  <2>2. c \in ToSet(chunks) /\ i \in c.similarTo /\ r \in ToSet(ref.doc_refs)
    BY DEF Like, Near
  <2>3. ConfidenceIn(c, r, i) = "direct"
    BY <1>3, <2>1, <2>2
  <2>. QED
    BY <2>3
<1>. QED
  BY <1>4, <1>5, <1>6, <1>7, <1>8

-----------------------------------------------------------------------------
(* The running best of the comparisons. *)

\* What the best says of the confidences met so far.
IsBest(best, met) ==
  /\ best \in Confidences
  /\ best = "direct" <=> "direct" \in met
  /\ best = "uncertain" <=> met \subseteq {"uncertain"}

\* One comparison more.
LEMMA BetterIsBest ==
  ASSUME NEW best, NEW met, IsBest(best, met), met \subseteq Confidences, NEW confidence \in Confidences
  PROVE  IsBest(Better(best, confidence), met \cup {confidence})
<1>1. CASE confidence = "direct"
  BY <1>1 DEF IsBest, Better, Confidences
<1>2. CASE confidence = "fuzzy"
  BY <1>2 DEF IsBest, Better, Confidences
<1>3. CASE confidence = "uncertain"
  BY <1>3 DEF IsBest, Better, Confidences
<1>. QED
  BY <1>1, <1>2, <1>3 DEF Confidences

\* The best stays one of the three, and so it does from chunk to chunk.
OneChunk(best, chunk, r, i) ==
  IF chunk.document # r.document THEN best ELSE Better(best, ConfidenceIn(chunk, r, i))

LEMMA OneChunkType ==
  ASSUME NEW best \in Confidences, NEW chunk, NEW r, NEW i
  PROVE  OneChunk(best, chunk, r, i) \in Confidences
BY ConfidenceType DEF OneChunk, Better

\* The chunks are compared with a reference one after the other.
LEMMA BestOfChunksDef ==
  ASSUME NEW best \in Confidences, NEW r, NEW i, NEW chunks \in Seq(ContextChunk)
  PROVE  /\ BestOfChunks(best, r, i, chunks, 0) = best
         /\ \A n \in 1 .. Len(chunks) :
              BestOfChunks(best, r, i, chunks, n)
              = OneChunk(BestOfChunks(best, r, i, chunks, n - 1), chunks[n], r, i)
<1> DEFINE N == Len(chunks)
           step == [n \in 1 .. N |-> [b \in Confidences |-> OneChunk(b, chunks[n], r, i)]]
           Is(g) == g = [m \in 0 .. N |->
                           IF m = 0 THEN best
                           ELSE IF chunks[m].document # r.document THEN g[m - 1]
                           ELSE Better(g[m - 1], ConfidenceIn(chunks[m], r, i))]
           f == CHOOSE g : Is(g)
<1>1. N \in Nat
  OBVIOUS
<1>. HIDE DEF N
<1>2. step \in [1 .. N -> [Confidences -> Confidences]]
  BY OneChunkType
<1>3. PICK g : Follows(g, N, Confidences, best, step)
  <2>. HIDE DEF step
  <2>. QED
    BY <1>1, <1>2, Recursion
<1>4. Is(g)
  <2>1. g \in [0 .. N -> Confidences] /\ g[0] = best
    BY <1>3 DEF Follows
  <2>2. \A n \in 1 .. N : g[n - 1] \in Confidences
    BY <1>1, <2>1
  <2>3. \A n \in 1 .. N : g[n] = OneChunk(g[n - 1], chunks[n], r, i)
    BY <2>2, <1>3 DEF Follows
  <2>4. \A n \in 0 .. N : n # 0 => n \in 1 .. N
    BY <1>1
  <2>. QED
    BY <2>1, <2>3, <2>4 DEF OneChunk
<1>5. Is(f)
  BY <1>4
<1>6. \A n \in 0 .. N : f[n] = IF n = 0 THEN best ELSE OneChunk(f[n - 1], chunks[n], r, i)
  <2>. HIDE DEF f
  <2>. QED
    BY <1>5 DEF OneChunk
<1>7. \A n : BestOfChunks(best, r, i, chunks, n) = f[n]
  BY DEF BestOfChunks, N
<1>. HIDE DEF f
<1>8. 0 \in 0 .. N /\ \A n \in 1 .. N : n \in 0 .. N /\ n # 0
  BY <1>1
<1>. QED
  BY <1>6, <1>7, <1>8 DEF N

\* The confidences met in comparing the first n chunks with a reference.
MetIn(r, i, chunks, n) ==
  {ConfidenceIn(chunks[m], r, i) : m \in {l \in 1 .. n : chunks[l].document = r.document}}

\* So the best is that of all the chunks of the reference's document, and of what came before.
LEMMA BestOfChunksSound ==
  ASSUME NEW best, NEW met, IsBest(best, met), met \subseteq Confidences,
         NEW r, NEW i, NEW chunks \in Seq(ContextChunk)
  PROVE  IsBest(BestOfChunks(best, r, i, chunks, Len(chunks)), met \cup MetIn(r, i, chunks, Len(chunks)))
<1> DEFINE N == Len(chunks)
           B(n) == BestOfChunks(best, r, i, chunks, n)
           P == {n \in 0 .. N : IsBest(B(n), met \cup MetIn(r, i, chunks, n))}
<1>0. N \in Nat /\ best \in Confidences
  BY DEF IsBest
<1>c. /\ BestOfChunks(best, r, i, chunks, 0) = best
      /\ \A n \in 1 .. Len(chunks) :
           BestOfChunks(best, r, i, chunks, n) = OneChunk(BestOfChunks(best, r, i, chunks, n - 1), chunks[n], r, i)
  <2>1. PICK b \in Confidences : b = best
    BY <1>0
  <2>2. /\ BestOfChunks(b, r, i, chunks, 0) = b
        /\ \A n \in 1 .. Len(chunks) :
             BestOfChunks(b, r, i, chunks, n) = OneChunk(BestOfChunks(b, r, i, chunks, n - 1), chunks[n], r, i)
    BY BestOfChunksDef DEF Confidences
  <2>. QED
    BY <2>1, <2>2
<1>1. 0 \in P
  <2>1. MetIn(r, i, chunks, 0) = {}
    BY DEF MetIn
  <2>2. B(0) = best
    BY <1>c
  <2>3. PICK M : M = met \cup MetIn(r, i, chunks, 0)
    OBVIOUS
  <2>4. M = met
    BY <2>1, <2>3
  <2>5. IsBest(B(0), M)
    BY <2>2, <2>4
  <2>6. 0 \in 0 .. N
    BY <1>0
  <2>. QED
    BY <2>3, <2>5, <2>6
<1>2. ASSUME NEW n \in 1 .. N, n - 1 \in P PROVE n \in P
  <2>1. PICK b : b = B(n - 1)
    OBVIOUS
  <2>2. PICK M : M = met \cup MetIn(r, i, chunks, n - 1)
    OBVIOUS
  <2>3. IsBest(b, M) /\ M \subseteq Confidences
    BY <1>2, <2>1, <2>2, ConfidenceType DEF MetIn
  <2>4. B(n) = OneChunk(b, chunks[n], r, i)
    BY <1>c, <2>1
  <2>5. n \in 0 .. N /\ \A m : m \in 1 .. n <=> m \in 1 .. n - 1 \/ m = n
    BY <1>0
  <2>6. CASE chunks[n].document = r.document
    <3>1. met \cup MetIn(r, i, chunks, n) = M \cup {ConfidenceIn(chunks[n], r, i)}
      BY <2>2, <2>5, <2>6 DEF MetIn
    <3>2. ConfidenceIn(chunks[n], r, i) \in Confidences
      BY ConfidenceType
    <3>3. IsBest(Better(b, ConfidenceIn(chunks[n], r, i)), M \cup {ConfidenceIn(chunks[n], r, i)})
      BY <2>3, <3>2, BetterIsBest
    <3>. QED
      BY <2>4, <2>5, <2>6, <3>1, <3>3 DEF OneChunk
  <2>7. CASE chunks[n].document # r.document
    <3>1. met \cup MetIn(r, i, chunks, n) = M
      BY <2>2, <2>5, <2>7 DEF MetIn
    <3>. QED
      BY <2>3, <2>4, <2>5, <2>7, <3>1 DEF OneChunk
  <2>. QED
    BY <2>6, <2>7
<1>3. \A n \in 0 .. N : n \in P
  <2>. HIDE DEF P, N
  <2>. QED
    BY <1>0, <1>1, <1>2, Induction
<1>4. N \in P
  BY <1>0, <1>3
<1>. QED
  BY <1>4

\* The same from reference to reference.
LEMMA BestOfRefsDef ==
  ASSUME NEW refs \in Seq(Part), NEW i, NEW chunks \in Seq(ContextChunk)
  PROVE  /\ BestOfRefs(refs, i, chunks, 0) = "uncertain"
         /\ \A n \in 1 .. Len(refs) :
              BestOfRefs(refs, i, chunks, n)
              = BestOfChunks(BestOfRefs(refs, i, chunks, n - 1), refs[n], i, chunks, Len(chunks))
<1> DEFINE N == Len(refs)
           One(b, n) == BestOfChunks(b, refs[n], i, chunks, Len(chunks))
           step == [n \in 1 .. N |-> [b \in Confidences |-> One(b, n)]]
           Is(g) == g = [m \in 0 .. N |->
                           IF m = 0 THEN "uncertain"
                           ELSE BestOfChunks(g[m - 1], refs[m], i, chunks, Len(chunks))]
           f == CHOOSE g : Is(g)
<1>1. N \in Nat /\ "uncertain" \in Confidences
  BY DEF Confidences
<1>. HIDE DEF N
<1>2. \A n \in 1 .. N, b \in Confidences : One(b, n) \in Confidences
  <2> TAKE n \in 1 .. N, b \in Confidences
  <2> DEFINE met == {b}
  <2>1. IsBest(b, met) /\ met \subseteq Confidences
    BY DEF IsBest, Confidences
  <2>2. IsBest(One(b, n), met \cup MetIn(refs[n], i, chunks, Len(chunks)))
    <3>. HIDE DEF met
    <3>. QED
      BY <2>1, BestOfChunksSound
  <2>. QED
    BY <2>2 DEF IsBest
<1>. HIDE DEF One
<1>3. step \in [1 .. N -> [Confidences -> Confidences]]
  BY <1>2
<1>4. PICK g : Follows(g, N, Confidences, "uncertain", step)
  <2>. HIDE DEF step
  <2>. QED
    BY <1>1, <1>3, Recursion
<1>5. Is(g)
  <2>1. g \in [0 .. N -> Confidences] /\ g[0] = "uncertain"
    BY <1>4 DEF Follows
  <2>2. \A n \in 1 .. N : g[n - 1] \in Confidences
    BY <1>1, <2>1
  <2>3. \A n \in 1 .. N : g[n] = One(g[n - 1], n)
    BY <2>2, <1>4 DEF Follows
  <2>4. \A n \in 0 .. N : n # 0 => n \in 1 .. N
    BY <1>1
  <2>. QED
    BY <2>1, <2>3, <2>4 DEF One
<1>6. Is(f)
  BY <1>5
<1>7. \A n \in 0 .. N : f[n] = IF n = 0 THEN "uncertain" ELSE One(f[n - 1], n)
  <2>. HIDE DEF f
  <2>. QED
    BY <1>6 DEF One
<1>8. \A n : BestOfRefs(refs, i, chunks, n) = f[n]
  BY DEF BestOfRefs, N
<1>. HIDE DEF f
<1>9. 0 \in 0 .. N /\ \A n \in 1 .. N : n \in 0 .. N /\ n # 0
  BY <1>1
<1>. QED
  BY <1>7, <1>8, <1>9 DEF N, One

\* The confidences met in comparing the first n references with all chunks.
MetWith(refs, i, chunks, n) == UNION {MetIn(refs[k], i, chunks, Len(chunks)) : k \in 1 .. n}

LEMMA BestOfRefsSound ==
  ASSUME NEW refs \in Seq(Part), NEW i, NEW chunks \in Seq(ContextChunk)
  PROVE  IsBest(BestOfRefs(refs, i, chunks, Len(refs)), MetWith(refs, i, chunks, Len(refs)))
<1> DEFINE N == Len(refs)
           B(n) == BestOfRefs(refs, i, chunks, n)
           P == {n \in 0 .. N : IsBest(B(n), MetWith(refs, i, chunks, n))}
<1>0. N \in Nat
  OBVIOUS
<1>1. 0 \in P
  <2>1. MetWith(refs, i, chunks, 0) = {}
    BY DEF MetWith
  <2>2. B(0) = "uncertain"
    BY BestOfRefsDef
  <2>. QED
    BY <1>0, <2>1, <2>2 DEF IsBest, Confidences
<1>2. ASSUME NEW n \in 1 .. N, n - 1 \in P PROVE n \in P
  <2>1. PICK b, M : b = B(n - 1) /\ M = MetWith(refs, i, chunks, n - 1)
    OBVIOUS
  <2>2. IsBest(b, M) /\ M \subseteq Confidences
    BY <1>2, <2>1, ConfidenceType DEF MetWith, MetIn
  <2>3. B(n) = BestOfChunks(b, refs[n], i, chunks, Len(chunks))
    BY <2>1, BestOfRefsDef
  <2>4. n \in 0 .. N /\ \A m : m \in 1 .. n <=> m \in 1 .. n - 1 \/ m = n
    BY <1>0
  <2>5. MetWith(refs, i, chunks, n) = M \cup MetIn(refs[n], i, chunks, Len(chunks))
    BY <2>1, <2>4 DEF MetWith
  <2>6. IsBest(B(n), M \cup MetIn(refs[n], i, chunks, Len(chunks)))
    BY <2>2, <2>3, BestOfChunksSound
  <2>. QED
    BY <2>4, <2>5, <2>6
<1>3. \A n \in 0 .. N : n \in P
  <2>. HIDE DEF P, N
  <2>. QED
    BY <1>0, <1>1, <1>2, Induction
<1>4. N \in P
  BY <1>0, <1>3
<1>. QED
  BY <1>4

\* What is met are the confidences of the chunks with the references to their documents.
LEMMA MetAre ==
  ASSUME NEW ref, ref.doc_refs \in Seq(Part), NEW chunks \in Seq(ContextChunk), NEW i
  PROVE  MetWith(ref.doc_refs, i, chunks, Len(ref.doc_refs))
         = UNION {{ConfidenceIn(c, r, i) : r \in Near(ref, c)} : c \in ToSet(chunks)}
<1>1. PICK refs \in Seq(Part) : refs = ref.doc_refs
  OBVIOUS
<1>2. /\ ToSet(refs) = {refs[k] : k \in 1 .. Len(refs)}
      /\ ToSet(chunks) = {chunks[m] : m \in 1 .. Len(chunks)}
  BY DEF ToSet
<1>3. ASSUME NEW x \in MetWith(refs, i, chunks, Len(refs))
      PROVE  \E c \in ToSet(chunks) : \E r \in Near(ref, c) : x = ConfidenceIn(c, r, i)
  <2>1. PICK k \in 1 .. Len(refs), m \in 1 .. Len(chunks) :
          chunks[m].document = refs[k].document /\ x = ConfidenceIn(chunks[m], refs[k], i)
    BY DEF MetWith, MetIn
  <2>2. chunks[m] \in ToSet(chunks) /\ refs[k] \in Near(ref, chunks[m])
    BY <1>1, <1>2, <2>1 DEF Near
  <2>. QED
    BY <2>1, <2>2
<1>4. ASSUME NEW c \in ToSet(chunks), NEW r \in Near(ref, c)
      PROVE  ConfidenceIn(c, r, i) \in MetWith(refs, i, chunks, Len(refs))
  <2>1. PICK m \in 1 .. Len(chunks) : c = chunks[m]
    BY <1>2
  <2>2. PICK k \in 1 .. Len(refs) : r = refs[k] /\ refs[k].document = chunks[m].document
    BY <1>1, <1>2, <2>1 DEF Near
  <2>3. ConfidenceIn(c, r, i) \in MetIn(refs[k], i, chunks, Len(chunks))
    BY <2>1, <2>2 DEF MetIn
  <2>. QED
    BY <2>3 DEF MetWith
<1>. QED
  BY <1>1, <1>3, <1>4

\* One citation: its confidence and chunks are what its reference and sentence warrant.
LEMMA CitationEarned ==
  ASSUME NEW ref, ref.doc_refs \in Seq(Part), ref.is_uncertain \in BOOLEAN,
         ref.is_uncertain => ref.doc_refs = <<>>,
         NEW chunks \in Seq(ContextChunk),
         \A c \in DOMAIN chunks : chunks[c].pages[1] <= chunks[c].pages[2], NEW i
  PROVE  /\ verify_single(ref, i, chunks).sentence_index = i
         /\ verify_single(ref, i, chunks).ref_id = RefId(ref)
         /\ verify_single(ref, i, chunks).confidence \in {"direct", "fuzzy", "uncertain"}
         /\ verify_single(ref, i, chunks).confidence = "direct"
            <=> \E c \in Like(ref, i, chunks) : Covers(ref, c)
         /\ verify_single(ref, i, chunks).confidence = "uncertain" <=> Like(ref, i, chunks) = {}
         /\ verify_single(ref, i, chunks).matched_chunks = Like(ref, i, chunks)
<1>1. PICK best, matches :
        /\ best = IF ref.is_uncertain THEN "uncertain"
                  ELSE BestOfRefs(ref.doc_refs, i, chunks, Len(ref.doc_refs))
        /\ matches = IF ref.is_uncertain THEN {} ELSE Matches(ref.doc_refs, i, chunks)
  OBVIOUS
<1>2. verify_single(ref, i, chunks)
      = [ref_id |-> RefId(ref), sentence_index |-> i, confidence |-> best, matched_chunks |-> matches]
  BY <1>1 DEF verify_single
<1>3. CASE ref.is_uncertain
  <2>1. \A c : Near(ref, c) = {}
    BY <1>3 DEF Near, ToSet
  <2>2. Like(ref, i, chunks) = {}
    BY <2>1 DEF Like
  <2>. QED
    BY <1>1, <1>2, <1>3, <2>2
<1>4. CASE ~ ref.is_uncertain
  <2>1. PICK met : met = MetWith(ref.doc_refs, i, chunks, Len(ref.doc_refs))
    OBVIOUS
  <2>2. IsBest(best, met)
    <3>1. PICK refs \in Seq(Part) : refs = ref.doc_refs
      OBVIOUS
    <3>. QED
      BY <1>1, <1>4, <2>1, <3>1, BestOfRefsSound
  <2>3. met = UNION {{ConfidenceIn(c, r, i) : r \in Near(ref, c)} : c \in ToSet(chunks)}
    BY <2>1, MetAre
  <2>4. PICK L : L = Like(ref, i, chunks)
    OBVIOUS
  <2>5. "direct" \in met <=> \E c \in L : Covers(ref, c)
    <3>1. ASSUME "direct" \in met PROVE \E c \in L : Covers(ref, c)
      <4>1. PICK c \in ToSet(chunks) : \E r \in Near(ref, c) : ConfidenceIn(c, r, i) = "direct"
        BY <2>3, <3>1
      <4>. QED
        BY <2>4, <4>1, WorthIs
    <3>2. ASSUME NEW c \in L, Covers(ref, c) PROVE "direct" \in met
      <4>1. PICK r \in Near(ref, c) : ConfidenceIn(c, r, i) = "direct"
        BY <2>4, <3>2, WorthIs
      <4>2. c \in ToSet(chunks)
        BY <2>4 DEF Like
      <4>. QED
        BY <2>3, <4>1, <4>2
    <3>. QED
      BY <3>1, <3>2
  <2>6. met \subseteq {"uncertain"} <=> L = {}
    <3>1. ASSUME NEW x \in met, x # "uncertain" PROVE L # {}
      <4>1. PICK c \in ToSet(chunks) : \E r \in Near(ref, c) : ConfidenceIn(c, r, i) = x
        BY <2>3, <3>1
      <4>. QED
        BY <2>4, <3>1, <4>1, WorthIs
    <3>2. ASSUME NEW c \in L PROVE \E x \in met : x # "uncertain"
      <4>1. c \in ToSet(chunks) /\ Near(ref, c) # {}
            /\ \A r \in Near(ref, c) : ConfidenceIn(c, r, i) # "uncertain"
        BY <2>4, WorthIs
      <4>2. PICK r \in Near(ref, c) : ConfidenceIn(c, r, i) # "uncertain"
        BY <4>1
      <4>3. PICK x : x = ConfidenceIn(c, r, i)
        OBVIOUS
      <4>4. x \in {ConfidenceIn(c, q, i) : q \in Near(ref, c)}
        BY <4>3
      <4>5. x \in met
        BY <2>3, <4>1, <4>4
      <4>. QED
        BY <4>2, <4>3, <4>5
    <3>. QED
      BY <3>1, <3>2
  <2>7. matches = L
    BY <1>1, <1>4, <2>4, WorthIs
  <2>. QED
    BY <1>2, <2>2, <2>4, <2>5, <2>6, <2>7 DEF IsBest, Confidences
<1>. QED
  BY <1>3, <1>4

\* A text with its marks parsed: references of parts, with the numbers of their sentences.
LEMMA ParsedRefs ==
  ASSUME NEW text \in Seq(MarkAt), NEW k \in DOMAIN parse(text)
  PROVE  /\ parse(text)[k].ref.doc_refs \in Seq(Part)
         /\ parse(text)[k].ref.is_uncertain \in BOOLEAN
         /\ parse(text)[k].ref.is_uncertain => parse(text)[k].ref.doc_refs = <<>>
<1>1. PICK p \in Seq(Entries(text)) : p = parse(text)
  BY ParsedSound
<1>2. p[k] \in Entries(text)
  BY <1>1
<1>3. PICK m \in 1 .. Len(text) : p[k] = Entry(text, m)
  BY <1>2 DEF Entries
<1>4. text[m].mark \in MarkType
  <2>1. text[m] \in MarkAt
    OBVIOUS
  <2>. QED
    BY <2>1 DEF MarkAt, MarkType
<1>5. p[k].ref = parse_ref_mark(text[m].mark)
  BY <1>3 DEF Entry
<1>. QED
  BY <1>1, <1>4, <1>5, MarkParsed

\* Hence the verdict on each citation of a text is what its chunks warrant.
LEMMA EarnedSound ==
  ASSUME NEW text \in Seq(MarkAt), NEW chunks \in Seq(ContextChunk),
         \A c \in DOMAIN chunks : chunks[c].pages[1] <= chunks[c].pages[2]
  PROVE  ConfidenceIsEarned(text, chunks)
<1>1. PICK refs : refs = parse(text)
  OBVIOUS
<1>2. PICK citations : citations = verify(text, chunks)
  OBVIOUS
<1>3. DOMAIN citations = DOMAIN refs
      /\ \A k \in DOMAIN refs : citations[k] = verify_single(refs[k].ref, refs[k].sentence, chunks)
  BY <1>1, <1>2 DEF verify
<1>4. ASSUME NEW k \in DOMAIN refs
      PROVE  LET like == {c \in ToSet(chunks) :
                      citations[k].sentence_index \in c.similarTo
                      /\ {r \in ToSet(refs[k].ref.doc_refs) : r.document = c.document} # {}}
             IN /\ citations[k].confidence = "direct" =>
                     \E c \in like : \E r \in {r \in ToSet(refs[k].ref.doc_refs) : r.document = c.document} :
                       r.pages # Unreadable
                       /\ \A n \in PageRange(r.pages).start .. PageRange(r.pages).end :
                            PageRange(c.pages).start <= n /\ n <= PageRange(c.pages).end
                /\ (\E c \in like : \E r \in {r \in ToSet(refs[k].ref.doc_refs) : r.document = c.document} :
                      r.pages # Unreadable /\ PageRange(r.pages) = PageRange(c.pages))
                   => citations[k].confidence = "direct"
                /\ citations[k].confidence = "uncertain" <=> like = {}
                /\ citations[k].matched_chunks = like
  <2>1. PICK ref, i : ref = refs[k].ref /\ i = refs[k].sentence
    OBVIOUS
  <2>2. /\ ref.doc_refs \in Seq(Part) /\ ref.is_uncertain \in BOOLEAN
        /\ ref.is_uncertain => ref.doc_refs = <<>>
    BY <1>1, <2>1, ParsedRefs
  <2>3. PICK c : c = citations[k]
    OBVIOUS
  <2>4. c = verify_single(ref, i, chunks)
    BY <1>3, <2>1, <2>3
  <2>5. /\ c.sentence_index = i
        /\ c.confidence = "direct" <=> \E d \in Like(ref, i, chunks) : Covers(ref, d)
        /\ c.confidence = "uncertain" <=> Like(ref, i, chunks) = {}
        /\ c.matched_chunks = Like(ref, i, chunks)
    BY <2>2, <2>4, CitationEarned
  <2>6. ASSUME NEW d \in Like(ref, i, chunks), NEW r \in Near(ref, d),
               r.pages # Unreadable, PageRange(r.pages) = PageRange(d.pages)
        PROVE  c.confidence = "direct"
    <3>1. \A n \in PageRange(r.pages).start .. PageRange(r.pages).end :
            PageRange(d.pages).start <= n /\ n <= PageRange(d.pages).end
      <4>1. PICK range : range = PageRange(d.pages)
        OBVIOUS
      <4>2. range.start \in Nat /\ range.end \in Nat
        <5>1. d \in ContextChunk
          <6>1. \A l \in 1 .. Len(chunks) : chunks[l] \in ContextChunk
            OBVIOUS
          <6>. QED
            BY <6>1 DEF Like, ToSet
        <5>2. d.pages[1] \in Nat /\ d.pages[2] \in Nat
          BY <5>1 DEF ContextChunk
        <5>3. Min({d.pages[1], d.pages[2]}) \in Nat /\ Max({d.pages[1], d.pages[2]}) \in Nat
          BY <5>2, MinOfTwo, MaxOfTwo
        <5>. QED
          BY <4>1, <5>3 DEF PageRange
      <4>. QED
        BY <2>6, <4>1, <4>2
    <3>2. Covers(ref, d)
      BY <2>6, <3>1 DEF Covers
    <3>. QED
      BY <2>5, <3>2
  <2>. QED
    BY <2>1, <2>3, <2>5, <2>6 DEF Like, Near, Covers
<1>. QED
  BY <1>1, <1>2, <1>3, <1>4 DEF ConfidenceIsEarned

\* Citations of three confidences, counted by each.
LEMMA CountedSound ==
  ASSUME NEW N \in Nat, NEW citations, DOMAIN citations = 1 .. N,
         \A c \in 1 .. N : citations[c].confidence \in {"direct", "fuzzy", "uncertain"}
  PROVE  Counted(citations, "direct") + Counted(citations, "fuzzy") + Counted(citations, "uncertain") = N
<1> DEFINE Of(confidence) == {c \in 1 .. N : citations[c].confidence = confidence}
<1>1. IsFiniteSet(1 .. N) /\ Cardinality(1 .. N) = N
  BY FS_Interval
<1>2. PICK D, F, U : D = Of("direct") /\ F = Of("fuzzy") /\ U = Of("uncertain")
  OBVIOUS
<1>3. D \in SUBSET (1 .. N) /\ F \in SUBSET (1 .. N) /\ U \in SUBSET (1 .. N)
  BY <1>2
<1>4. D \cap F = {} /\ (D \cup F) \cap U = {} /\ (D \cup F) \cup U = 1 .. N
  BY <1>2
<1>5. IsFiniteSet(D) /\ IsFiniteSet(F) /\ IsFiniteSet(U)
  BY <1>1, <1>3, FS_Subset
<1>6. Cardinality({}) = 0
  BY FS_EmptySet
<1>7. PICK E : E = D \cup F
  OBVIOUS
<1>8. IsFiniteSet(E) /\ Cardinality(E) = Cardinality(D) + Cardinality(F) - 0
  BY <1>4, <1>5, <1>6, <1>7, FS_Union
<1>9. Cardinality(E \cup U) = Cardinality(E) + Cardinality(U) - 0
  <2>1. E \cap U = {}
    BY <1>4, <1>7
  <2>2. Cardinality(E \cup U) = Cardinality(E) + Cardinality(U) - Cardinality(E \cap U)
    BY <1>5, <1>8, FS_Union
  <2>. QED
    BY <1>6, <2>1, <2>2
<1>10. Cardinality(D) + Cardinality(F) + Cardinality(U) = N
  <2>1. PICK d \in Nat, f \in Nat, u \in Nat : d = Cardinality(D) /\ f = Cardinality(F) /\ u = Cardinality(U)
    BY <1>5, FS_CardinalityType
  <2>2. Cardinality(E \cup U) = N
    BY <1>1, <1>4, <1>7
  <2>3. Cardinality(E) = d + f - 0 /\ N = Cardinality(E) + u - 0
    BY <1>8, <1>9, <2>1, <2>2
  <2>4. d + f + u = N
    BY <2>3
  <2>. QED
    BY <2>1, <2>4
<1>11. /\ Counted(citations, "direct") = Cardinality(D) /\ Counted(citations, "fuzzy") = Cardinality(F)
       /\ Counted(citations, "uncertain") = Cardinality(U)
  BY <1>2 DEF Counted
<1>. QED
  BY <1>10, <1>11

\* So every such mark of a text is in one of the counts that the service answers with.
LEMMA MarksSound ==
  ASSUME NEW text \in Seq(MarkAt), NEW chunks \in Seq(ContextChunk),
         \A c \in DOMAIN chunks : chunks[c].pages[1] <= chunks[c].pages[2]
  PROVE  MarksAccounted(text, chunks)
<1>1. PICK refs \in Seq(Entries(text)) : refs = parse(text)
  BY ParsedSound
<1>2. PICK N \in Nat : N = Len(refs)
  OBVIOUS
<1>3. PICK citations : citations = verify(text, chunks)
  OBVIOUS
<1>4. DOMAIN refs = 1 .. N
  BY <1>2
<1>5. citations = [k \in 1 .. N |-> verify_single(refs[k].ref, refs[k].sentence, chunks)]
  BY <1>1, <1>3, <1>4 DEF verify
<1>6. DOMAIN citations = 1 .. N /\ Len(citations) = N
  <2>1. citations \in [1 .. N -> {citations[k] : k \in 1 .. N}]
    BY <1>5
  <2>2. Len(citations) = N
    BY <2>1, SeqForms
  <2>. QED
    BY <1>5, <2>2
<1>7. \A k \in 1 .. N : citations[k].confidence \in {"direct", "fuzzy", "uncertain"}
  <2> TAKE k \in 1 .. N
  <2>1. PICK ref, i : ref = refs[k].ref /\ i = refs[k].sentence
    OBVIOUS
  <2>2. /\ ref.doc_refs \in Seq(Part) /\ ref.is_uncertain \in BOOLEAN
        /\ ref.is_uncertain => ref.doc_refs = <<>>
    BY <1>1, <1>4, <2>1, ParsedRefs
  <2>3. PICK c : c = citations[k]
    OBVIOUS
  <2>4. c = verify_single(ref, i, chunks)
    BY <1>5, <2>1, <2>3
  <2>5. c.confidence \in {"direct", "fuzzy", "uncertain"}
    BY <2>2, <2>4, CitationEarned
  <2>. QED
    BY <2>3, <2>5
<1>8. Counted(citations, "direct") + Counted(citations, "fuzzy") + Counted(citations, "uncertain") = N
  BY <1>6, <1>7, CountedSound
<1>9. build_summary(citations)
      = [total |-> N, direct |-> Counted(citations, "direct"),
         fuzzy |-> Counted(citations, "fuzzy"), uncertain |-> Counted(citations, "uncertain")]
  BY <1>6 DEF build_summary
<1>10. N + parse_errors(text) = Cardinality({m \in DOMAIN text : Whole(text[m].mark)})
  <2>1. DOMAIN text = 1 .. Len(text)
    OBVIOUS
  <2>2. {m \in DOMAIN text : Whole(text[m].mark)} = WholeOf(text, Len(text))
    BY <2>1 DEF WholeOf
  <2>. QED
    BY <1>1, <1>2, <2>2, ParsedSound
<1>11. PICK summary : summary = build_summary(citations)
  OBVIOUS
<1>12. summary.total = N /\ summary.direct + summary.fuzzy + summary.uncertain = N
  BY <1>8, <1>9, <1>11
<1>. QED
  BY <1>3, <1>10, <1>11, <1>12 DEF MarksAccounted

-----------------------------------------------------------------------------
(* Footnotes. *)

\* The marks of a text, and the notes with that of one more.
MarksOf(text) == {text[m].mark : m \in 1 .. Len(text)}
OneNoted(notes, mark) == IF mark \in ToSet(notes) THEN notes ELSE Append(notes, mark)

\* Footnotes are numbered one mark after the other.
LEMMA FootnotesToDef ==
  ASSUME NEW text \in Seq(MarkAt)
  PROVE  /\ FootnotesTo(text, 0) = <<>>
         /\ \A n \in 1 .. Len(text) :
              FootnotesTo(text, n) = OneNoted(FootnotesTo(text, n - 1), text[n].mark)
<1> DEFINE N == Len(text)
           S == Seq(MarksOf(text))
           step == [n \in 1 .. N |-> [a \in S |-> OneNoted(a, text[n].mark)]]
           Is(g) == g = [m \in 0 .. N |->
                           IF m = 0 THEN <<>>
                           ELSE IF text[m].mark \in ToSet(g[m - 1]) THEN g[m - 1]
                           ELSE Append(g[m - 1], text[m].mark)]
           f == CHOOSE g : Is(g)
<1>1. N \in Nat
  OBVIOUS
<1>2. <<>> \in S
  BY SeqForms
<1>3. ASSUME NEW n \in 1 .. N, NEW a \in S PROVE OneNoted(a, text[n].mark) \in S
  <2>1. PICK e \in MarksOf(text) : e = text[n].mark
    BY DEF MarksOf
  <2>2. Append(a, e) \in S
    BY SeqForms
  <2>. QED
    BY <2>1, <2>2 DEF OneNoted
<1>. HIDE DEF N, S
<1>4. step \in [1 .. N -> [S -> S]]
  BY <1>3
<1>5. PICK g : Follows(g, N, S, <<>>, step)
  <2>. HIDE DEF step
  <2>. QED
    BY <1>1, <1>2, <1>4, Recursion
<1>6. Is(g)
  <2>1. g \in [0 .. N -> S] /\ g[0] = <<>>
    BY <1>5 DEF Follows
  <2>2. \A n \in 1 .. N : g[n - 1] \in S
    BY <1>1, <2>1
  <2>3. \A n \in 1 .. N : g[n] = OneNoted(g[n - 1], text[n].mark)
    BY <2>2, <1>5 DEF Follows
  <2>4. \A n \in 0 .. N : n # 0 => n \in 1 .. N
    BY <1>1
  <2>. QED
    BY <2>1, <2>3, <2>4 DEF OneNoted
<1>7. Is(f)
  BY <1>6
<1>8. \A n \in 0 .. N : f[n] = IF n = 0 THEN <<>> ELSE OneNoted(f[n - 1], text[n].mark)
  <2>. HIDE DEF f
  <2>. QED
    BY <1>7 DEF OneNoted
<1>9. \A n : FootnotesTo(text, n) = f[n]
  BY DEF FootnotesTo, N
<1>. HIDE DEF f
<1>10. 0 \in 0 .. N /\ \A n \in 1 .. N : n \in 0 .. N /\ n # 0
  BY <1>1
<1>11. FootnotesTo(text, 0) = <<>>
  BY <1>8, <1>9, <1>10
<1>12. \A n \in 1 .. N : FootnotesTo(text, n) = OneNoted(FootnotesTo(text, n - 1), text[n].mark)
  BY <1>8, <1>9, <1>10
<1>. QED
  BY <1>11, <1>12 DEF N

\* After the first n marks: each has one note, and the notes before it are of marks no
\* later than its first.
NotesInv(notes, text, n) ==
  /\ notes \in Seq(MarksOf(text))
  /\ NoRepeats(notes)
  /\ \A m \in 1 .. n : \E j \in 1 .. Len(notes) : notes[j] = text[m].mark
  /\ \A j \in 1 .. Len(notes) : \E m \in 1 .. n : notes[j] = text[m].mark
  /\ \A m \in 1 .. n : \A j \in 1 .. Len(notes) : notes[j] = text[m].mark =>
       \A k \in 1 .. j : \E l \in 1 .. m : notes[k] = text[l].mark

\* A mark more leaves it so: it has a note already or gets the next number.
LEMMA NotesStep ==
  ASSUME NEW text \in Seq(MarkAt), NEW n \in 1 .. Len(text), NEW notes,
         NotesInv(notes, text, n - 1)
  PROVE  NotesInv(OneNoted(notes, text[n].mark), text, n)
<1>1. PICK mark \in MarksOf(text) : mark = text[n].mark
  BY DEF MarksOf
<1>2. notes \in Seq(MarksOf(text)) /\ n \in Nat /\ NoRepeats(notes)
  BY DEF NotesInv
<1>3. PICK L \in Nat : L = Len(notes)
  BY <1>2
<1>4. /\ \A m \in 1 .. n : m \in 1 .. n - 1 \/ m = n
      /\ \A m \in 1 .. n - 1 : m \in 1 .. n /\ 1 .. m \subseteq 1 .. n
      /\ n \in 1 .. n /\ 1 .. n - 1 \subseteq 1 .. n
  BY <1>2
<1>5. /\ \A m \in 1 .. n - 1 : \E j \in 1 .. L : notes[j] = text[m].mark
      /\ \A j \in 1 .. L : \E m \in 1 .. n - 1 : notes[j] = text[m].mark
      /\ \A m \in 1 .. n - 1 : \A j \in 1 .. L : notes[j] = text[m].mark =>
           \A k \in 1 .. j : \E l \in 1 .. m : notes[k] = text[l].mark
  BY <1>3 DEF NotesInv
<1>6. ToSet(notes) = {notes[j] : j \in 1 .. L}
  BY <1>2, <1>3, ElementsOf
<1>7. \A j \in 1 .. L : 1 .. j \subseteq 1 .. L
  OBVIOUS
<1>8. CASE mark \in ToSet(notes)
  <2>1. OneNoted(notes, text[n].mark) = notes
    BY <1>1, <1>8 DEF OneNoted
  <2>2. \A m \in 1 .. n : \E j \in 1 .. L : notes[j] = text[m].mark
    <3> TAKE m \in 1 .. n
    <3>1. CASE m = n
      <4>1. \E j \in 1 .. L : notes[j] = mark
        BY <1>6, <1>8
      <4>. QED
        BY <1>1, <3>1, <4>1
    <3>2. CASE m \in 1 .. n - 1
      BY <1>5, <3>2
    <3>. QED
      BY <1>4, <3>1, <3>2
  <2>3. \A j \in 1 .. L : \E m \in 1 .. n : notes[j] = text[m].mark
    BY <1>4, <1>5
  <2>4. ASSUME NEW m \in 1 .. n, NEW j \in 1 .. L, notes[j] = text[m].mark, NEW k \in 1 .. j
        PROVE  \E l \in 1 .. m : notes[k] = text[l].mark
    <3>1. CASE m = n
      <4>1. k \in 1 .. L
        BY <1>7
      <4>. QED
        BY <1>4, <1>5, <3>1, <4>1
    <3>2. CASE m \in 1 .. n - 1
      BY <1>5, <2>4, <3>2
    <3>. QED
      BY <1>4, <3>1, <3>2
  <2>. QED
    BY <1>2, <1>3, <2>1, <2>2, <2>3, <2>4 DEF NotesInv
<1>9. CASE mark \notin ToSet(notes)
  <2>1. PICK new \in Seq(MarksOf(text)) : new = Append(notes, mark)
    BY <1>2, SeqForms
  <2>2. OneNoted(notes, text[n].mark) = new
    BY <1>1, <1>9, <2>1 DEF OneNoted
  <2>3. Len(new) = L + 1 /\ new[L + 1] = mark /\ \A j \in 1 .. L : new[j] = notes[j]
    BY <1>2, <1>3, <2>1
  <2>4. /\ \A j \in 1 .. L + 1 : j \in 1 .. L \/ j = L + 1
        /\ L + 1 \in 1 .. L + 1 /\ 1 .. L \subseteq 1 .. L + 1 /\ L + 1 \notin 1 .. L
    OBVIOUS
  <2>5. \A j \in 1 .. L : new[j] # mark
    BY <1>6, <1>9, <2>3
  <2>6. NoRepeats(new)
    <3>1. DOMAIN new = 1 .. L + 1 /\ DOMAIN notes = 1 .. L
      BY <1>2, <1>3, <2>3
    <3>2. \A i, j \in 1 .. L : new[i] = new[j] => i = j
      BY <1>2, <2>3, <3>1 DEF NoRepeats
    <3>. QED
      BY <2>3, <2>4, <2>5, <3>1, <3>2 DEF NoRepeats
  <2>7. \A m \in 1 .. n : \E j \in 1 .. L + 1 : new[j] = text[m].mark
    BY <1>1, <1>4, <1>5, <2>3, <2>4
  <2>8. \A j \in 1 .. L + 1 : \E m \in 1 .. n : new[j] = text[m].mark
    <3> TAKE j \in 1 .. L + 1
    <3>1. CASE j \in 1 .. L
      <4>1. PICK m \in 1 .. n - 1 : notes[j] = text[m].mark
        BY <1>5, <3>1
      <4>. QED
        BY <1>4, <2>3, <3>1, <4>1
    <3>2. CASE j = L + 1
      BY <1>1, <1>4, <2>3, <3>2
    <3>. QED
      BY <2>4, <3>1, <3>2
  <2>9. ASSUME NEW m \in 1 .. n, NEW j \in 1 .. L + 1, new[j] = text[m].mark, NEW k \in 1 .. j
        PROVE  \E l \in 1 .. m : new[k] = text[l].mark
    <3>1. CASE m = n
      <4>1. k \in 1 .. L + 1
        OBVIOUS
      <4>. QED
        BY <2>8, <3>1, <4>1
    <3>2. CASE m \in 1 .. n - 1
      <4>1. j \in 1 .. L
        <5>1. text[m].mark # mark
          <6>1. PICK i \in 1 .. L : notes[i] = text[m].mark
            BY <1>5, <3>2
          <6>. QED
            BY <2>3, <2>5, <6>1
        <5>. QED
          BY <2>3, <2>4, <2>9, <5>1
      <4>2. k \in 1 .. L
        BY <1>7, <4>1
      <4>3. notes[j] = text[m].mark
        BY <2>3, <2>9, <4>1
      <4>4. \E l \in 1 .. m : notes[k] = text[l].mark
        BY <1>5, <3>2, <4>1, <4>3
      <4>. QED
        BY <2>3, <4>2, <4>4
    <3>. QED
      BY <1>4, <3>1, <3>2
  <2>10. NotesInv(new, text, n)
    BY <2>3, <2>6, <2>7, <2>8, <2>9 DEF NotesInv
  <2>. QED
    BY <2>2, <2>10
<1>. QED
  BY <1>8, <1>9

\* After the last mark the invariant holds for all.
LEMMA NotesSound ==
  ASSUME NEW text \in Seq(MarkAt)
  PROVE  NotesInv(footnote_map(text), text, Len(text))
<1> DEFINE N == Len(text)
           P == {n \in 0 .. N : NotesInv(FootnotesTo(text, n), text, n)}
<1>1. N \in Nat
  OBVIOUS
<1>2. 0 \in P
  <2>1. FootnotesTo(text, 0) = <<>>
    BY FootnotesToDef
  <2>2. <<>> \in Seq(MarksOf(text)) /\ Len(<<>>) = 0 /\ DOMAIN <<>> = {}
    BY SeqForms
  <2>3. NotesInv(<<>>, text, 0)
    BY <2>2 DEF NotesInv, NoRepeats
  <2>. QED
    BY <1>1, <2>1, <2>3
<1>. HIDE DEF N
<1>3. ASSUME NEW n \in 1 .. N, n - 1 \in P PROVE n \in P
  <2>1. n \in 1 .. Len(text) /\ n \in 0 .. N
    BY <1>1 DEF N
  <2>2. NotesInv(FootnotesTo(text, n - 1), text, n - 1)
    BY <1>3
  <2>3. NotesInv(OneNoted(FootnotesTo(text, n - 1), text[n].mark), text, n)
    BY <2>1, <2>2, NotesStep
  <2>4. FootnotesTo(text, n) = OneNoted(FootnotesTo(text, n - 1), text[n].mark)
    BY <2>1, FootnotesToDef
  <2>. QED
    BY <2>1, <2>3, <2>4
<1>4. \A n \in 0 .. N : n \in P
  <2>. HIDE DEF P
  <2>. QED
    BY <1>1, <1>2, <1>3, Induction
<1>5. N \in P
  BY <1>1, <1>4
<1>. QED
  BY <1>5 DEF N, footnote_map

\* The confidence that is shown with a note is that of a citation with the same reference.
LEMMA LookedIs ==
  ASSUME NEW N \in Nat, NEW citations, DOMAIN citations = 1 .. N, NEW mark,
         Looked(mark, citations) # "none"
  PROVE  \E c \in 1 .. N : citations[c].ref_id = mark.parts
                           /\ citations[c].confidence = Looked(mark, citations)
<1>1. PICK same : same = {c \in 1 .. N : Finds(mark, citations[c])}
  OBVIOUS
<1>2. Looked(mark, citations) = IF same = {} THEN "none" ELSE citations[Max(same)].confidence
  BY <1>1 DEF Looked
<1>3. same # {} /\ same \subseteq 0 .. N
  BY <1>1, <1>2
<1>4. Max(same) \in same
  BY <1>3, MaxIsGreatest
<1>5. PICK c \in 1 .. N : c = Max(same) /\ Finds(mark, citations[c])
  BY <1>1, <1>4
<1>6. Looked(mark, citations) = citations[c].confidence
  BY <1>2, <1>3, <1>5
<1>. QED
  BY <1>5, <1>6 DEF Finds

\* Hence footnotes are numbered without gaps in the order of the marks, and say what was verified.
LEMMA FootnotesSound ==
  ASSUME NEW text \in Seq(MarkAt), NEW chunks \in Seq(ContextChunk)
  PROVE  FootnotesMatch(text, chunks)
<1>1. PICK refs \in Seq(Entries(text)) : refs = parse(text)
  BY ParsedSound
<1>2. PICK N \in Nat : N = Len(refs)
  OBVIOUS
<1>3. PICK citations : citations = verify(text, chunks)
  OBVIOUS
<1>4. DOMAIN citations = 1 .. N
  <2>1. DOMAIN refs = 1 .. N
    BY <1>2
  <2>. QED
    BY <1>1, <1>3, <2>1 DEF verify
<1>5. PICK notes \in Seq(MarksOf(text)) : notes = footnote_map(text)
  BY NotesSound DEF NotesInv
<1>6. NotesInv(notes, text, Len(text))
  BY <1>5, NotesSound
<1>7. PICK M \in Nat, L \in Nat : M = Len(text) /\ L = Len(notes)
  OBVIOUS
<1>8. DOMAIN text = 1 .. M /\ DOMAIN notes = 1 .. L /\ ToSet(notes) = {notes[j] : j \in 1 .. L}
  BY <1>7, ElementsOf
<1>9. PICK page : page = format_markdown(text, citations)
  OBVIOUS
<1>10. page = [numbers |-> [m \in 1 .. M |-> FirstAt(notes, text[m].mark)],
               notes |-> [n \in 1 .. L |-> [mark |-> notes[n], confidence |-> Looked(notes[n], citations)]]]
  BY <1>5, <1>8, <1>9 DEF format_markdown, FirstAt
<1>11. PICK numbers, lines :
         /\ numbers = page.numbers /\ lines = page.notes
         /\ DOMAIN numbers = 1 .. M /\ DOMAIN lines = 1 .. L
         /\ \A m \in 1 .. M : numbers[m] = FirstAt(notes, text[m].mark)
         /\ \A n \in 1 .. L : lines[n].mark = notes[n] /\ lines[n].confidence = Looked(notes[n], citations)
  <2>. WITNESS page.numbers, page.notes
  <2>1. page.numbers = [m \in 1 .. M |-> FirstAt(notes, text[m].mark)]
    BY <1>10
  <2>2. page.notes = [n \in 1 .. L |-> [mark |-> notes[n], confidence |-> Looked(notes[n], citations)]]
    BY <1>10
  <2>3. DOMAIN page.numbers = 1 .. M
        /\ \A m \in 1 .. M : page.numbers[m] = FirstAt(notes, text[m].mark)
    BY <2>1
  <2>4. DOMAIN page.notes = 1 .. L
        /\ \A n \in 1 .. L : /\ page.notes[n].mark = notes[n]
                            /\ page.notes[n].confidence = Looked(notes[n], citations)
    BY <2>2
  <2>. QED
    BY <2>3, <2>4
<1>12. \A m \in 1 .. M : text[m].mark \in ToSet(notes)
  BY <1>6, <1>7, <1>8 DEF NotesInv
<1>13. \A m \in 1 .. M : numbers[m] \in 1 .. L /\ notes[numbers[m]] = text[m].mark
  BY <1>7, <1>11, <1>12, FirstAtIs
<1>14. \A m \in 1 .. M : \A n \in 1 .. L : notes[n] = text[m].mark => numbers[m] = n
  BY <1>6, <1>8, <1>13 DEF NotesInv, NoRepeats
<1>15. \A m \in 1 .. M : lines[numbers[m]].mark = text[m].mark
  BY <1>11, <1>13
<1>16. ASSUME NEW m \in 1 .. M, NEW n \in 1 .. numbers[m] PROVE \E l \in 1 .. m : numbers[l] = n
  <2>1. numbers[m] \in 1 .. L /\ notes[numbers[m]] = text[m].mark
    BY <1>13
  <2>2. PICK l \in 1 .. m : notes[n] = text[l].mark
    BY <1>6, <1>7, <2>1 DEF NotesInv
  <2>3. n \in 1 .. L /\ l \in 1 .. M
    BY <2>1
  <2>. QED
    BY <1>14, <2>2, <2>3
<1>17. ToSet(numbers) = 1 .. L
  <2>1. ToSet(numbers) = {numbers[m] : m \in 1 .. M}
    BY <1>11 DEF ToSet
  <2>2. \A m \in 1 .. M : numbers[m] \in 1 .. L
    BY <1>13
  <2>3. \A n \in 1 .. L : \E m \in 1 .. M : notes[n] = text[m].mark
    BY <1>6, <1>7 DEF NotesInv
  <2>4. \A n \in 1 .. L : \E m \in 1 .. M : numbers[m] = n
    BY <1>14, <2>3
  <2>. QED
    BY <2>1, <2>2, <2>4
<1>18. ASSUME NEW n \in 1 .. L, lines[n].confidence # "none"
       PROVE  \E c \in 1 .. N : /\ citations[c].ref_id = lines[n].mark.parts
                                /\ citations[c].confidence = lines[n].confidence
  <2>1. lines[n].mark = notes[n] /\ lines[n].confidence = Looked(notes[n], citations)
    BY <1>11
  <2>2. \E c \in 1 .. N : citations[c].ref_id = notes[n].parts
                          /\ citations[c].confidence = Looked(notes[n], citations)
    BY <1>4, <1>18, <2>1, LookedIs
  <2>. QED
    BY <2>1, <2>2
<1>. QED
  BY <1>3, <1>4, <1>9, <1>11, <1>15, <1>16, <1>17, <1>18 DEF FootnotesMatch

-----------------------------------------------------------------------------
(* The theorems. *)

\* Fusion keeps both rankings and pages show the first hits once, for any lists of hits; highlights are
\* merged without loss, for any spans: hybrid_search and the highlighting of the knowledge base.
THEOREM Searches == Spec => []SearchesAreSound
<1>1. CaseInv => SearchesAreSound
  <2> SUFFICES ASSUME CaseInv PROVE SearchesAreSound
    OBVIOUS
  <2>1. ASSUME case.of = "hits"
        PROVE  FusesByRank(case.vec, case.kw)
               /\ PagesPartition(case.mode, case.vec, case.kw, case.topK, case.size)
    <3>1. CaseOfHits
      BY <2>1 DEF CaseInv, CaseOfSpans, CaseOfText, CaseOfHeadings, CaseOfPages, CaseOfCitations,
                  CaseOfFile, CaseOfPdf
    <3>2. PICK vec \in HitLists, kw \in HitLists, mode \in {"vector", "bm25", "hybrid"},
               topK \in TopKs, size \in PageSizes :
            case = [of |-> "hits", vec |-> vec, kw |-> kw, mode |-> mode, topK |-> topK, size |-> size]
      BY <3>1 DEF CaseOfHits
    <3>3. /\ vec \in Seq(ChunkIds) /\ Len(vec) <= MaxRank
          /\ kw \in Seq(ChunkIds) /\ Len(kw) <= MaxRank
          /\ topK \in Nat \ {0} /\ size \in Nat \ {0}
      BY TextsAssumption
    <3>4. FusesByRank(vec, kw)
      BY <3>3, FusionSound
    <3>5. Hits(mode, vec, kw) \in Seq(ChunkIds)
      BY <3>3, HitsType
    <3>6. PagesPartition(mode, vec, kw, topK, size)
      BY <3>3, <3>5, PagesSoundFor
    <3>7. case.vec = vec /\ case.kw = kw /\ case.mode = mode /\ case.topK = topK /\ case.size = size
      BY <3>2
    <3>. QED
      BY <3>4, <3>6, <3>7
  <2>2. ASSUME case.of = "spans" PROVE HighlightsOnce(case.spans)
    <3>1. CaseOfSpans
      BY <2>2 DEF CaseInv, CaseOfHits, CaseOfText, CaseOfHeadings, CaseOfPages, CaseOfCitations,
                  CaseOfFile, CaseOfPdf
    <3>2. PICK spans \in SpanSets : case = [of |-> "spans", spans |-> spans]
      BY <3>1 DEF CaseOfSpans
    <3>3. IsFiniteSet(spans) /\ spans \subseteq Span
      BY TextsAssumption
    <3>4. HighlightsOnce(spans)
      BY <3>3, HighlightsSound
    <3>5. case.spans = spans
      BY <3>2
    <3>. QED
      BY <3>4, <3>5
  <2>. QED
    BY <2>1, <2>2 DEF SearchesAreSound
<1>. QED
  BY <1>1, PickedCase, PTL

\* For any text and any chunks, citations have the confidence they earn in whatever order chunks and
\* references are compared, each mark that no end of a sentence cuts is counted, and footnotes match:
\* parser, verifier and formatter of the citation service.
THEOREM CitedTextsSound == Spec => []CitationsAreSound
<1>1. CaseInv => CitationsAreSound
  <2> SUFFICES ASSUME CaseInv, case.of = "citations"
               PROVE  /\ ConfidenceIsEarned(case.text, case.chunks)
                      /\ MarksAccounted(case.text, case.chunks)
                      /\ FootnotesMatch(case.text, case.chunks)
    BY DEF CitationsAreSound
  <2>1. CaseOfCitations
    BY DEF CaseInv, CaseOfHits, CaseOfSpans, CaseOfText, CaseOfHeadings, CaseOfPages,
           CaseOfFile, CaseOfPdf
  <2>2. PICK text \in CitedTexts, chunks \in Contexts :
          case = [of |-> "citations", text |-> text, chunks |-> chunks]
    BY <2>1 DEF CaseOfCitations
  <2>3. text \in Seq(MarkAt) /\ chunks \in Seq(ContextChunk)
        /\ \A c \in DOMAIN chunks : chunks[c].pages[1] <= chunks[c].pages[2]
    BY TextsAssumption
  <2>4. ConfidenceIsEarned(text, chunks) /\ MarksAccounted(text, chunks) /\ FootnotesMatch(text, chunks)
    BY <2>3, EarnedSound, MarksSound, FootnotesSound
  <2>5. case.text = text /\ case.chunks = chunks
    BY <2>2
  <2>. QED
    BY <2>4, <2>5
<1>. QED
  BY <1>1, PickedCase, PTL

\* Whatever its name, a file that is accepted goes to a parser for the kind of its bytes, and to that of
\* its name if the name tells the truth; page and service agree on any file; of any PDF all text layers
\* are read, and the words of all images but those beside a layer that was not found: validation,
\* identify_format, get_parser and parse_document of the document service, and the upload page's check.
THEOREM Intakes == Spec => []IntakeIsSound
<1>1. CaseInv => IntakeIsSound
  <2> SUFFICES ASSUME CaseInv PROVE IntakeIsSound
    OBVIOUS
  <2>1. ASSUME case.of = "file" PROVE AcceptedIsParsed(case.file) /\ PageAndServiceAgree(case.file)
    <3>1. CaseOfFile
      BY <2>1 DEF CaseInv, CaseOfHits, CaseOfSpans, CaseOfText, CaseOfHeadings, CaseOfPages,
                  CaseOfCitations, CaseOfPdf
    <3>2. PICK file \in Files : case = [of |-> "file", file |-> file]
      BY <3>1 DEF CaseOfFile
    <3>3. file \in FileType
      BY TextsAssumption DEF FileType
    <3>4. case.file = file
      BY <3>2
    <3>. QED
      BY <3>3, <3>4, AcceptedSound, PageAgrees
  <2>2. ASSUME case.of = "pdf" PROVE PagesAreRead(case.pdf)
    <3>1. CaseOfPdf
      BY <2>2 DEF CaseInv, CaseOfHits, CaseOfSpans, CaseOfText, CaseOfHeadings, CaseOfPages,
                  CaseOfCitations, CaseOfFile
    <3>2. PICK pdf \in Pdfs : case = [of |-> "pdf", pdf |-> pdf]
      BY <3>1 DEF CaseOfPdf
    <3>3. pdf \in Seq(PageOfPdf) /\ case.pdf = pdf
      BY <3>2, TextsAssumption
    <3>. QED
      BY <3>3, PdfSound
  <2>. QED
    BY <2>1, <2>2 DEF IntakeIsSound
<1>. QED
  BY <1>1, PickedCase, PTL

================================================================================
