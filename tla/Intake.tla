-------------------------------- MODULE Intake --------------------------------
(***************************************************************************)
(* How a file is taken in: the upload page's check, the document           *)
(* service's validation, the format it takes the file for, the parser that *)
(* reads it, and for a PDF where the text of each page comes from.         *)
(*                                                                         *)
(* A file is a record: whether its name has a dot and what stands at the   *)
(* name's end, its MIME type (Untyped: none), its size, and which known    *)
(* signature its bytes begin with.  A page of a PDF has a text layer or    *)
(* not, and images, the whole page being one when it is scanned.           *)
(* WithoutOle is a mutated form of the definition after it, which no       *)
(* specification uses.                                                     *)
(***************************************************************************)
EXTENDS Naturals, Sequences

CONSTANT PagesTried  \* how many pages are searched for a text layer: 5

Untyped == "untyped"

-----------------------------------------------------------------------------
(* The tables. *)

EXTENSION_FORMAT_MAP ==
  [pdf |-> "pdf", docx |-> "docx", doc |-> "docx", xlsx |-> "xlsx", xls |-> "xlsx",
   csv |-> "csv", pptx |-> "pptx", ppt |-> "pptx", md |-> "markdown", txt |-> "txt",
   eml |-> "eml", html |-> "html", mhtml |-> "html", mht |-> "html",
   png |-> "image", jpg |-> "image", jpeg |-> "image", tiff |-> "image", bmp |-> "image"]

ALLOWED_EXTENSIONS == DOMAIN EXTENSION_FORMAT_MAP

OfficeTypes == {"msword", "docx-type", "ms-excel", "xlsx-type", "ms-powerpoint", "pptx-type"}

ALLOWED_MIME_TYPES ==
  OfficeTypes \cup {"application/pdf", "text/csv", "text/markdown", "text/plain", "text/html",
                    "message/rfc822", "multipart/related",
                    "image/png", "image/jpeg", "image/tiff", "image/bmp"}

\* The upload page's own lists: no images, no web archives.
PageExtensions == ALLOWED_EXTENSIONS \ {"mhtml", "mht", "png", "jpg", "jpeg", "tiff", "bmp"}
PageTypes ==
  OfficeTypes \cup {"application/pdf", "text/csv", "text/markdown", "text/plain", "text/html",
                    "message/rfc822"}

PARSER_REGISTRY ==
  [pdf |-> "PDFParser", docx |-> "WordParser", markdown |-> "MarkdownParser",
   txt |-> "MarkdownParser", xlsx |-> "ExcelParser", csv |-> "ExcelParser",
   pptx |-> "PPTParser", eml |-> "EmailParser", html |-> "HTMLParser", mhtml |-> "HTMLParser",
   image |-> "OCRProcessor"]

-----------------------------------------------------------------------------
(* The upload page. *)

LetThrough(file) ==
  /\ file.size # "too_large"
  /\ file.type \in PageTypes \/ file.ending \in PageExtensions

\* The browser states a type for every part of the form.
Sent(file) == [file EXCEPT !.type = IF @ = Untyped THEN "application/octet-stream" ELSE @]

-----------------------------------------------------------------------------
(* validate_file: the first check that fails names the refusal. *)

extension(file) == IF file.dotted THEN file.ending ELSE ""

\* Texts and images have no signature, or many.
ExtensionBypass ==
  {"txt", "md", "csv", "html", "eml", "mhtml", "mht", "png", "jpg", "jpeg", "tiff", "bmp"}

validate_file(file) ==
  IF extension(file) = "" THEN "DOC_NO_EXTENSION"
  ELSE IF file.ending \notin ALLOWED_EXTENSIONS THEN "DOC_FORMAT_UNSUPPORTED"
  ELSE IF file.type \notin ALLOWED_MIME_TYPES \cup {Untyped, "application/octet-stream"}
       THEN "DOC_MIME_UNSUPPORTED"
  ELSE IF file.size = "too_large" THEN "DOC_FILE_TOO_LARGE"
  ELSE IF file.size = "empty" THEN "DOC_FILE_EMPTY"
  ELSE IF file.magic = "none" /\ file.ending \notin ExtensionBypass THEN "DOC_MAGIC_MISMATCH"
  ELSE "accepted"

-----------------------------------------------------------------------------
(* The format and its parser. *)

Family(ending) ==
  CASE ending \in {"doc", "docx"} -> "docx"
    [] ending \in {"xls", "xlsx"} -> "xlsx"
    [] ending \in {"ppt", "pptx"} -> "pptx"
    [] OTHER -> "docx"

WithoutOle(file) ==
  CASE file.magic = "zip" -> IF file.ending = "csv" THEN "xlsx" ELSE Family(file.ending)
    [] file.magic = "ole" -> "docx"
    [] file.magic = "pdf" -> "pdf"
    [] file.magic = "none" -> EXTENSION_FORMAT_MAP[file.ending]

\* A zip archive named csv is taken for a spreadsheet, an OLE file so named is not.
identify_format(file) ==
  CASE file.magic = "zip" -> IF file.ending = "csv" THEN "xlsx" ELSE Family(file.ending)
    [] file.magic = "ole" -> Family(file.ending)
    [] file.magic = "pdf" -> "pdf"
    [] file.magic = "none" -> EXTENSION_FORMAT_MAP[file.ending]

get_parser(file) == PARSER_REGISTRY[identify_format(file)]

-----------------------------------------------------------------------------
(* A PDF.  What is read off a page is a set: "layer" (its text layer),     *)
(* "render" (the words of the rendered page) and images (the words of an   *)
(* image).                                                                 *)

detect_pdf_text_layer(pages) == \E p \in DOMAIN pages : p <= PagesTried /\ pages[p].layer

Readable(image) == image = "legible"

\* PDFParser: the layer, and each image that is not tiny and has words.
ParsedPage(page) ==
  (IF page.layer THEN {"layer"} ELSE {}) \cup {image \in page.images : Readable(image)}

\* OCRProcessor: the layer or else the rendered page.
OcrPage(page) == IF page.layer THEN {"layer"} ELSE {"render"}

parse_document(pages) ==
  [p \in DOMAIN pages |->
     IF detect_pdf_text_layer(pages) THEN ParsedPage(pages[p]) ELSE OcrPage(pages[p])]

-----------------------------------------------------------------------------
(* What must hold. *)

\* The bytes are of the kind that the name says.
Genuine(file) ==
  file.magic = CASE file.ending = "pdf" -> "pdf"
                 [] file.ending \in {"docx", "xlsx", "pptx"} -> "zip"
                 [] file.ending \in {"doc", "xls", "ppt"} -> "ole"
                 [] OTHER -> "none"

\* Every file that is accepted goes to a parser for the kind of its bytes: PDFs and they alone to
\* that of PDFs, Office containers and they alone to one of Office files.  The parser is the one
\* of the extension if the bytes are of the kind that the name says.  (If not it may be another
\* of its kind, as WordParser for an old spreadsheet that is named csv.)
AcceptedIsParsed(file) ==
  validate_file(file) = "accepted" =>
    /\ identify_format(file) \in DOMAIN PARSER_REGISTRY
    /\ identify_format(file) = "pdf" <=> file.magic = "pdf"
    /\ identify_format(file) \in {"docx", "xlsx", "pptx"} <=> file.magic \in {"zip", "ole"}
    /\ Genuine(file) => identify_format(file) = EXTENSION_FORMAT_MAP[file.ending]

\* The page and the service, which each have their lists, agree: what the page lets
\* through by its extension and a type it knows, or none, is refused for its contents only.
PageAndServiceAgree(file) ==
  /\ LetThrough(file) /\ file.dotted
  /\ file.ending \in PageExtensions /\ file.type \in PageTypes \cup {Untyped}
  => validate_file(Sent(file)) \in {"accepted", "DOC_FILE_EMPTY", "DOC_MAGIC_MISMATCH"}

\* Whichever way a PDF is read, text layers are kept on their pages and the words of images
\* are read, also behind the pages that were searched for a text layer.  The code does lose
\* the words of images that stand beside a layer when the searched pages have none.
PagesAreRead(pages) ==
  \A p \in DOMAIN pages :
    /\ pages[p].layer => "layer" \in parse_document(pages)[p]
    /\ "legible" \in pages[p].images =>
         \/ parse_document(pages)[p] \cap {"legible", "render"} # {}
         \/ pages[p].layer /\ \A q \in DOMAIN pages : q <= PagesTried => ~pages[q].layer

=============================================================================
