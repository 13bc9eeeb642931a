-------------------------- MODULE DocumentPipeline --------------------------
(***************************************************************************)
(* The life of a document: upload, the processing pipeline that runs in    *)
(* the background, reindexing and deletion, over the three stores they     *)
(* share - the MinIO object, the rows of documents and document_chunks,    *)
(* and the vectors the knowledge-base service keeps.                       *)
(*                                                                         *)
(* Every database helper commits on its own, so the code between two of    *)
(* them is one step and other requests run in between.  A crash of the     *)
(* document service loses its requests and its background tasks; a failed  *)
(* database call raises where it is made.                                  *)
(*                                                                         *)
(* Chunks and vectors are told apart by the pipeline run that made them.   *)
(* The primary key and the unique (document, type, index) of               *)
(* document_chunks, and its foreign key, decide whether a run can insert.  *)
(* A document without text yields no chunks in any run.  The documents are *)
(* of one project; the filters, the order and the pages of a list are left *)
(* out.                                                                    *)
(***************************************************************************)
EXTENDS Naturals

CONSTANTS
  Docs,      \* document ids, fresh UUIDs in the code
  Clients,   \* requests to the document service that run at the same time
  MaxRuns,   \* bound: pipeline runs of one document
  MaxFaults  \* bound: crashes and failed database calls

ASSUME PipelineAssumption == MaxRuns \in Nat \ {0} /\ MaxFaults \in Nat

VARIABLES
  row,         \* documents.parse_status; "absent" before and "deleted" after the row
  parseError,  \* documents.parse_error is set
  file,        \* the object is in MinIO
  blank,       \* the document has no text
  chunks,      \* the run whose rows are in document_chunks (0: none)
  vectors,     \* the runs whose vectors are in the vector store
  posts,       \* runs whose index request the knowledge base is working on
  runs,        \* how many pipeline runs were created
  pc,          \* where each run is
  client,      \* the request each client is in
  overlapped,  \* history: a run was started while another was to settle the document
  faults       \* crashes and failed database calls so far

vars == <<row, parseError, file, blank, chunks, vectors, posts, runs, pc, client, overlapped, faults>>

RunIds == 1 .. MaxRuns

\* The stages of a run that may still write the document's row or chunks.
Writing == {"downloading", "starting", "parsing", "clearing", "inserting", "readying",
            "failing", "failing_again"}

Busy == {"uploading", "resetting", "deleting_file", "deleting_row"}

TypeOK ==
  /\ row \in [Docs -> {"absent", "pending", "parsing", "ready", "error", "deleted"}]
  /\ parseError \in [Docs -> BOOLEAN] /\ file \in [Docs -> BOOLEAN] /\ blank \in [Docs -> BOOLEAN]
  /\ chunks \in [Docs -> 0 .. MaxRuns]
  /\ vectors \in [Docs -> SUBSET RunIds] /\ posts \in [Docs -> SUBSET RunIds]
  /\ runs \in [Docs -> 0 .. MaxRuns]
  /\ pc \in [Docs -> [RunIds -> Writing \cup {"unborn", "indexing", "ended"}]]
  /\ client \in [Clients -> [at : {"idle"}] \cup [at : Busy, doc : Docs]]
  /\ overlapped \in [Docs -> BOOLEAN]
  /\ faults \in 0 .. MaxFaults

Idle == [at |-> "idle"]

Init ==
  /\ row = [d \in Docs |-> "absent"]
  /\ parseError = [d \in Docs |-> FALSE]
  /\ file = [d \in Docs |-> FALSE]
  /\ blank \in [Docs -> BOOLEAN]
  /\ chunks = [d \in Docs |-> 0]
  /\ vectors = [d \in Docs |-> {}]
  /\ posts = [d \in Docs |-> {}]
  /\ runs = [d \in Docs |-> 0]
  /\ pc = [d \in Docs |-> [n \in RunIds |-> "unborn"]]
  /\ client = [c \in Clients |-> Idle]
  /\ overlapped = [d \in Docs |-> FALSE]
  /\ faults = 0

-----------------------------------------------------------------------------
(* The database layer. *)

Exists(d) == row[d] \notin {"absent", "deleted"}

insert_document(d) == row' = [row EXCEPT ![d] = "pending"]

\* An UPDATE of a row that is gone changes nothing.
UpdateStatus(d, s) == row' = IF Exists(d) THEN [row EXCEPT ![d] = s] ELSE row

UpdateError(d) ==
  /\ UpdateStatus(d, "error")
  /\ parseError' = IF Exists(d) THEN [parseError EXCEPT ![d] = TRUE] ELSE parseError

Goto(d, n, stage) == pc' = [pc EXCEPT ![d][n] = stage]

NoDocument == [found |-> FALSE]

\* The rows of chunks, by the run that inserted them.
get_chunks(d) == {n \in RunIds : chunks[d] = n}

get_document(d) ==
  IF Exists(d)
  THEN [found |-> TRUE, parse_status |-> row[d], parse_error |-> parseError[d], chunks |-> get_chunks(d)]
  ELSE NoDocument

list_project_documents(status) == {d \in Docs : Exists(d) /\ status \in {"any", row[d]}}

-----------------------------------------------------------------------------
(* The requests that only read.  Each makes several reads; what they show  *)
(* here is what they show when nothing is written in between.              *)

list_documents(status) == [d \in list_project_documents(status) |-> get_document(d)]

get_document_endpoint(d) == IF ~get_document(d).found THEN "not_found" ELSE get_document(d)

get_document_content(d) ==
  CASE ~get_document(d).found -> "not_found"
    [] Exists(d) /\ row[d] # "ready" -> "not_ready"
    [] Exists(d) /\ row[d] = "ready" /\ get_chunks(d) = {} -> "empty"
    [] Exists(d) /\ row[d] = "ready" /\ get_chunks(d) # {} -> "text"

download_document(d) ==
  CASE ~get_document(d).found -> "not_found"
    [] Exists(d) /\ file[d] -> "file"
    [] Exists(d) /\ ~file[d] -> "failed"

-----------------------------------------------------------------------------
(* The requests that write.  A request is suspended at each of its database calls. *)

EnterRequest(c, stage, d) ==
  /\ client[c] = Idle
  /\ client' = [client EXCEPT ![c] = [at |-> stage, doc |-> d]]

LeaveRequest(c) == client' = [client EXCEPT ![c] = Idle]

InRequest(c, stage, d) == client[c] = [at |-> stage, doc |-> d]

Spawn(d, stage) ==
  /\ runs' = [runs EXCEPT ![d] = @ + 1]
  /\ pc' = [pc EXCEPT ![d][runs[d] + 1] = stage]

\* upload_document: the object is stored first, then the row, then the run starts.
UploadStores(c, d) ==
  /\ row[d] = "absent" /\ ~file[d]
  /\ EnterRequest(c, "uploading", d)
  /\ file' = [file EXCEPT ![d] = TRUE]
  /\ UNCHANGED <<row, parseError, blank, chunks, vectors, posts, runs, pc, overlapped, faults>>

UploadInserts(c, d) ==
  /\ InRequest(c, "uploading", d)
  /\ insert_document(d)
  /\ Spawn(d, "starting")
  /\ LeaveRequest(c)
  /\ UNCHANGED <<parseError, file, blank, chunks, vectors, posts, overlapped, faults>>

\* reindex_document reads the status ...
ReindexReads(c, d) ==
  /\ row[d] \in {"ready", "error"}
  /\ EnterRequest(c, "resetting", d)
  /\ UNCHANGED <<row, parseError, file, blank, chunks, vectors, posts, runs, pc, overlapped, faults>>

\* Mutated forms, here and below: plausible bugs that the properties catch.
\* No specification uses them.
ReindexResetsUnmarked(c, d) ==
  /\ InRequest(c, "resetting", d)
  /\ runs[d] < MaxRuns
  /\ Spawn(d, "downloading")
  /\ LeaveRequest(c)
  /\ overlapped' = [overlapped EXCEPT ![d] = @ \/ row[d] \notin {"ready", "error"}]
  /\ UNCHANGED <<row, parseError, file, blank, chunks, vectors, posts, faults>>

\* ... and writes it without looking again.
ReindexResets(c, d) ==
  /\ InRequest(c, "resetting", d)
  /\ runs[d] < MaxRuns
  /\ UpdateStatus(d, "parsing")
  /\ Spawn(d, "downloading")
  /\ LeaveRequest(c)
  /\ overlapped' = [overlapped EXCEPT ![d] = @ \/ row[d] \notin {"ready", "error"}]
  /\ UNCHANGED <<parseError, file, blank, chunks, vectors, posts, faults>>

DeleteReads(c, d) ==
  /\ Exists(d)
  /\ EnterRequest(c, "deleting_file", d)
  /\ UNCHANGED <<row, parseError, file, blank, chunks, vectors, posts, runs, pc, overlapped, faults>>

\* An error of MinIO is only logged.
DeleteFile(c, d) ==
  /\ InRequest(c, "deleting_file", d)
  /\ client' = [client EXCEPT ![c] = [at |-> "deleting_row", doc |-> d]]
  /\ \E gone \in BOOLEAN : file' = [file EXCEPT ![d] = @ /\ ~gone]
  /\ UNCHANGED <<row, parseError, blank, chunks, vectors, posts, runs, pc, overlapped, faults>>

\* Chunks and row go in one transaction.
DeleteRow(c, d) ==
  /\ InRequest(c, "deleting_row", d)
  /\ row' = [row EXCEPT ![d] = "deleted"]
  /\ parseError' = [parseError EXCEPT ![d] = FALSE]
  /\ chunks' = [chunks EXCEPT ![d] = 0]
  /\ LeaveRequest(c)
  /\ UNCHANGED <<file, blank, vectors, posts, runs, pc, overlapped, faults>>

Request(c, d) ==
  \/ UploadStores(c, d) \/ UploadInserts(c, d)
  \/ ReindexReads(c, d) \/ ReindexResets(c, d)
  \/ DeleteReads(c, d) \/ DeleteFile(c, d) \/ DeleteRow(c, d)

-----------------------------------------------------------------------------
(* A run: _reindex_worker for the later runs, then the pipeline. *)

RunDownloads(d, n) ==
  /\ pc[d][n] = "downloading"
  /\ file[d]
  /\ Goto(d, n, "starting")
  /\ UNCHANGED <<row, parseError, file, blank, chunks, vectors, posts, runs, client, overlapped, faults>>

\* The object is gone or MinIO does not answer.
DownloadFails(d, n) ==
  /\ pc[d][n] = "downloading"
  /\ UpdateError(d)
  /\ Goto(d, n, "ended")
  /\ UNCHANGED <<file, blank, chunks, vectors, posts, runs, client, overlapped, faults>>

RunMarksParsing(d, n) ==
  /\ pc[d][n] = "starting"
  /\ UpdateStatus(d, "parsing")
  /\ Goto(d, n, "parsing")
  /\ UNCHANGED <<parseError, file, blank, chunks, vectors, posts, runs, client, overlapped, faults>>

RunParses(d, n) ==
  /\ pc[d][n] = "parsing"
  /\ Goto(d, n, "clearing")
  /\ UNCHANGED <<row, parseError, file, blank, chunks, vectors, posts, runs, client, overlapped, faults>>

ParseFails(d, n) ==
  /\ pc[d][n] = "parsing"
  /\ Goto(d, n, "failing")
  /\ UNCHANGED <<row, parseError, file, blank, chunks, vectors, posts, runs, client, overlapped, faults>>

RunClears(d, n) ==
  /\ pc[d][n] = "clearing"
  /\ chunks' = [chunks EXCEPT ![d] = 0]
  /\ Goto(d, n, "inserting")
  /\ UNCHANGED <<row, parseError, file, blank, vectors, posts, runs, client, overlapped, faults>>

\* The foreign key needs the row; the unique key, that no other run's rows are there.
CanInsertOrphan(d) == chunks[d] = 0
CanInsert(d) == Exists(d) /\ chunks[d] = 0

RunInserts(d, n) ==
  /\ pc[d][n] = "inserting"
  /\ ~blank[d] /\ CanInsert(d)
  /\ chunks' = [chunks EXCEPT ![d] = n]
  /\ Goto(d, n, "readying")
  /\ UNCHANGED <<row, parseError, file, blank, vectors, posts, runs, client, overlapped, faults>>

InsertNothing(d, n) ==
  /\ pc[d][n] = "inserting"
  /\ blank[d]
  /\ Goto(d, n, "readying")
  /\ UNCHANGED <<row, parseError, file, blank, chunks, vectors, posts, runs, client, overlapped, faults>>

InsertRejected(d, n) ==
  /\ pc[d][n] = "inserting"
  /\ ~blank[d] /\ ~CanInsert(d)
  /\ Goto(d, n, "failing")
  /\ UNCHANGED <<row, parseError, file, blank, chunks, vectors, posts, runs, client, overlapped, faults>>

\* The document is ready, and only then its chunks are sent to the knowledge
\* base.  parse_error is left as it is.
RunReady(d, n) ==
  /\ pc[d][n] = "readying"
  /\ UpdateStatus(d, "ready")
  /\ IF blank[d]
     THEN Goto(d, n, "ended") /\ UNCHANGED posts
     ELSE Goto(d, n, "indexing") /\ posts' = [posts EXCEPT ![d] = @ \cup {n}]
  /\ UNCHANGED <<parseError, file, blank, chunks, vectors, runs, client, overlapped, faults>>

\* The index request was answered, failed or timed out: all the same to the run.
RunEnds(d, n) ==
  /\ pc[d][n] = "indexing"
  /\ Goto(d, n, "ended")
  /\ UNCHANGED <<row, parseError, file, blank, chunks, vectors, posts, runs, client, overlapped, faults>>

FailureForgotten(d, n) ==
  /\ pc[d][n] \in {"failing", "failing_again"}
  /\ Goto(d, n, "ended")
  /\ UNCHANGED <<row, parseError, file, blank, chunks, vectors, posts, runs, client, overlapped, faults>>

ReportFailureClearing(d, n) ==
  /\ pc[d][n] \in {"failing", "failing_again"}
  /\ UpdateError(d)
  /\ chunks' = [chunks EXCEPT ![d] = 0]
  /\ Goto(d, n, "ended")
  /\ UNCHANGED <<file, blank, vectors, posts, runs, client, overlapped, faults>>

ReportFailure(d, n) ==
  /\ pc[d][n] \in {"failing", "failing_again"}
  /\ UpdateError(d)
  /\ Goto(d, n, "ended")
  /\ UNCHANGED <<file, blank, chunks, vectors, posts, runs, client, overlapped, faults>>

Run(d, n) ==
  \/ RunDownloads(d, n) \/ DownloadFails(d, n) \/ RunMarksParsing(d, n)
  \/ RunParses(d, n) \/ ParseFails(d, n) \/ RunClears(d, n)
  \/ RunInserts(d, n) \/ InsertNothing(d, n) \/ InsertRejected(d, n)
  \/ RunReady(d, n) \/ RunEnds(d, n) \/ ReportFailure(d, n)

-----------------------------------------------------------------------------
(* The knowledge base: POST /internal/index inserts, and deletes nothing. *)

KbIndexes(d, n) ==
  /\ n \in posts[d]
  /\ posts' = [posts EXCEPT ![d] = @ \ {n}]
  /\ vectors' = [vectors EXCEPT ![d] = @ \cup {n}]
  /\ UNCHANGED <<row, parseError, file, blank, chunks, runs, pc, client, overlapped, faults>>

\* The request never arrived, or embedding or the vector store failed.
KbDrops(d, n) ==
  /\ n \in posts[d]
  /\ posts' = [posts EXCEPT ![d] = @ \ {n}]
  /\ UNCHANGED <<row, parseError, file, blank, chunks, vectors, runs, pc, client, overlapped, faults>>

-----------------------------------------------------------------------------
(* Faults. *)

Fault == faults < MaxFaults /\ faults' = faults + 1

\* The first write of the status is outside the pipeline's try: the error of an
\* upload's run is lost, that of a reindex is reported by the worker, which also
\* has a second try at reporting.
AfterDbError(d, n) ==
  CASE pc[d][n] = "starting" /\ n > 1 -> "failing_again"
    [] pc[d][n] = "failing" /\ n > 1  -> "failing_again"
    [] pc[d][n] = "downloading" -> "failing_again"
    [] pc[d][n] \in {"clearing", "inserting", "readying"} -> "failing"
    [] OTHER -> "ended"

DbFails(d, n) ==
  /\ pc[d][n] \in Writing \ {"parsing"}
  /\ Fault
  /\ Goto(d, n, AfterDbError(d, n))
  /\ UNCHANGED <<row, parseError, file, blank, chunks, vectors, posts, runs, client, overlapped>>

\* A request whose database call fails is answered with an error.
RequestFails(c) ==
  /\ client[c] # Idle
  /\ client[c].at # "deleting_file"
  /\ Fault
  /\ LeaveRequest(c)
  /\ UNCHANGED <<row, parseError, file, blank, chunks, vectors, posts, runs, pc, overlapped>>

\* The document service restarts: nothing takes up what it was doing.
Crash ==
  /\ Fault
  /\ client' = [c \in Clients |-> Idle]
  /\ pc' = [d \in Docs |-> [n \in RunIds |-> IF pc[d][n] = "unborn" THEN "unborn" ELSE "ended"]]
  /\ UNCHANGED <<row, parseError, file, blank, chunks, vectors, posts, runs, overlapped>>

-----------------------------------------------------------------------------

Next ==
  \/ \E c \in Clients, d \in Docs : Request(c, d)
  \/ \E d \in Docs, n \in RunIds :
       Run(d, n) \/ KbIndexes(d, n) \/ KbDrops(d, n) \/ DbFails(d, n)
  \/ \E c \in Clients : RequestFails(c)
  \/ Crash

Spec == Init /\ [][Next]_vars

\* Background tasks are resumed by the event loop, parsing runs in a thread
\* pool, and the database and the index request answer or raise.
FairSpec ==
  Spec /\ \A d \in Docs, n \in RunIds : WF_vars(Run(d, n))

-----------------------------------------------------------------------------
(* Properties. *)

Writers(d) == {n \in RunIds : pc[d][n] \in Writing}

\* Chunks never outlive their document and never appear after its deletion,
\* although the pipeline never looks whether it still exists.
NoOrphanChunks == \A d \in Docs : ~Exists(d) => chunks[d] = 0

\* A ready document has the chunks of its newest run, unless it has no text or
\* reindexes overlapped; whatever failed on the way, and although each run
\* clears and inserts in two commits.
ReadyHasNewestChunks ==
  \A d \in Docs : row[d] = "ready" /\ ~blank[d] /\ ~overlapped[d] => chunks[d] = runs[d]

\* Unless something failed, whoever lists the ready documents can read and download each:
\* its text, once no run is under way, so that clearing by one of several overlapping
\* reindexes never leaves it empty for good; its file, unless a deletion is half done.
ReadyIsReadable ==
  faults = 0 => \A d \in DOMAIN list_documents("ready") :
    /\ Writers(d) = {} /\ ~blank[d] =>
         get_document_content(d) = "text" /\ get_document_endpoint(d).chunks # {}
    /\ (\A c \in Clients : ~InRequest(c, "deleting_row", d)) => download_document(d) = "file"

\* A document that is pending or parsing is settled in the end, unless there
\* was a fault.
DocumentSettles ==
  \A d \in Docs :
    row[d] \in {"pending", "parsing"} ~> row[d] \in {"ready", "error", "deleted"} \/ faults > 0

=============================================================================
