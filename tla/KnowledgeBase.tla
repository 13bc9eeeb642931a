---------------------------- MODULE KnowledgeBase ----------------------------
(***************************************************************************)
(* The knowledge base service: index, reindex and delete calls over the    *)
(* vector store and the keyword index, the archive flags of the lifecycle  *)
(* manager, and searches, which read the two indexes one after the other   *)
(* while the calls change them.                                            *)
(*                                                                         *)
(* The service is one event loop.  What it awaits is the embedding API and *)
(* PostgreSQL; the Milvus client blocks, so a use of the vector store is   *)
(* one step with the code around it, and cannot time out.                  *)
(*                                                                         *)
(* A document's n-th processing gives it chunks with new identifiers, its  *)
(* n-th version, here one chunk.  The document service writes versions to  *)
(* document_chunks and posts them once to /internal/index; nothing in the  *)
(* repository calls the other endpoints: their callers are administrators. *)
(*                                                                         *)
(* External: Milvus adds a second entity when a key is inserted again, and *)
(* refuses a filter on a field that its schema has not (document_ids).     *)
(* Its search is taken as exact.  The cuts of the hits to the first 50, 30 *)
(* or top_k, and to a page, are in SearchRanking.                          *)
(***************************************************************************)
EXTENDS Naturals, FiniteSets

CONSTANTS
  Docs, Projects,
  ProjectOf,   \* the project of each document
  Everywhere,  \* the scope of a search that names no project
  Calls,       \* index and reindex requests that can be under way together
  Searches,    \* search requests; each is made once
  MaxVersion,  \* bound: times a document is processed
  MaxRestarts  \* bound: restarts of the service

ASSUME KnowledgeBaseAssumption ==
  /\ ProjectOf \in [Docs -> Projects] /\ Everywhere \notin Projects
  /\ MaxVersion \in Nat \ {0} /\ MaxRestarts \in Nat

Chunks == Docs \X (1 .. MaxVersion)

VARIABLES
  rows,       \* the version of each document in document_chunks, 0 if none
  issued,     \* how often each document was processed
  vectors,    \* how many entities of each chunk the vector store holds
  inMemory,   \* keywords are searched in memory, not in PostgreSQL
  keywords,   \* InMemoryBM25Searcher._chunks
  call,       \* where each index or reindex request is
  archived,   \* _archived_projects
  search,     \* where each search is
  restarts,
  \* history
  promise     \* what the last call to touch a document leaves, when it ran alone

index == <<rows, issued, vectors, inMemory, keywords, call, promise>>
vars == <<index, archived, search, restarts>>

Nothing == 0       \* a promise that the document has no vectors
NoPromise == MaxVersion + 1

Search == [at : {"idle", "embedding", "vectors", "keywords", "answered", "failed"},
           scope : Projects \cup {Everywhere}, mode : {"hybrid", "vector", "bm25"},
           filtered : BOOLEAN, hits : SUBSET Chunks,
           seen : SUBSET Chunks, steady : SUBSET Chunks,       \* history
           missed : SUBSET Chunks, strange : SUBSET Chunks]    \* errors of an answer

TypeOK ==
  /\ rows \in [Docs -> 0 .. MaxVersion] /\ issued \in [Docs -> 0 .. MaxVersion]
  /\ vectors \in [Chunks -> Nat]
  /\ inMemory \in BOOLEAN /\ keywords \subseteq Chunks
  /\ call \in [Calls -> [chunk : Chunks \cup {<<>>}, replaces : BOOLEAN]]
  /\ archived \subseteq Projects
  /\ search \in [Searches -> Search]
  /\ restarts \in 0 .. MaxRestarts
  /\ promise \in [Docs -> 0 .. MaxVersion + 1]

NoCall == [chunk |-> <<>>, replaces |-> FALSE]
NewSearch == [at |-> "idle", scope |-> Everywhere, mode |-> "hybrid", filtered |-> FALSE,
              hits |-> {}, seen |-> {}, steady |-> {}, missed |-> {}, strange |-> {}]

Init ==
  /\ rows = [d \in Docs |-> 0] /\ issued = rows
  /\ vectors = [c \in Chunks |-> 0]
  /\ inMemory \in BOOLEAN /\ keywords = {}
  /\ call = [k \in Calls |-> NoCall]
  /\ archived = {}
  /\ search = [s \in Searches |-> NewSearch]
  /\ restarts = 0
  /\ promise = [d \in Docs |-> NoPromise]

-----------------------------------------------------------------------------
(* What searches see. *)

Stored(vs) == {c \in Chunks : vs[c] > 0}
KeywordChunks(rs, kws) == IF inMemory THEN kws ELSE {c \in Chunks : rs[c[1]] = c[2]}
InScope(c, s) == search[s].scope \in {ProjectOf[c[1]], Everywhere}

Scoped(s, chunks) == {c \in chunks : InScope(c, s)}

\* For the history of the searches under way: the chunks of its scope that an index held at
\* some moment of the search (seen), and those the vector store held all the time (steady).
Watch ==
  search' = [s \in Searches |->
    IF search[s].at \in {"embedding", "vectors", "keywords"}
    THEN [search[s] EXCEPT !.seen = @ \cup Scoped(s, Stored(vectors') \cup KeywordChunks(rows', keywords')),
                           !.steady = @ \cap Stored(vectors')]
    ELSE search[s]]

\* An ended search; of an answer, its errors are kept.
Failed == [NewSearch EXCEPT !.at = "failed"]
Answered(s, hits) ==
  [NewSearch EXCEPT !.at = "answered", !.strange = hits \ search[s].seen,
                    !.missed = IF search[s].mode = "bm25" THEN {} ELSE search[s].steady \ hits]

-----------------------------------------------------------------------------
(* Index, reindex and delete. *)

Idle(k) == call[k] = NoCall
Touching(d) == {k \in Calls : ~Idle(k) /\ call[k].chunk[1] = d}

WithoutDocs(ds) == [c \in Chunks |-> IF c[1] \in ds THEN 0 ELSE vectors[c]]
Inserted(chunk) == [vectors EXCEPT ![chunk] = @ + 1]

\* InMemoryBM25Searcher: add_chunks replaces the whole list.
KeywordsWithoutDocs(ds) == {c \in keywords : c[1] \notin ds}
KeywordsOfBatch(chunk) == IF inMemory THEN {chunk} ELSE keywords

\* The document service's pipeline: new rows, then a request to /internal/index that may
\* never arrive; that failure is only logged.
ProcessDocument(d) ==
  /\ issued[d] < MaxVersion
  /\ issued' = [issued EXCEPT ![d] = @ + 1]
  /\ rows' = [rows EXCEPT ![d] = issued[d] + 1]
  /\ promise' = [promise EXCEPT ![d] = NoPromise]
  /\ \/ call' = call
     \/ \E k \in Calls :
          /\ Idle(k)
          /\ call' = [call EXCEPT ![k].chunk = <<d, issued[d] + 1>>]
  /\ UNCHANGED <<vectors, inMemory, keywords, archived, restarts>>
  /\ Watch

\* The document service deletes a document: nothing tells the knowledge base.
DeleteRows(d) ==
  /\ rows[d] # 0
  /\ rows' = [rows EXCEPT ![d] = 0]
  /\ UNCHANGED <<issued, vectors, inMemory, keywords, call, archived, restarts, promise>>
  /\ Watch

\* Mutated forms, here and below: plausible bugs that the properties catch.
\* No specification uses them.
StartReindexKeepingOld(k, d) ==
  /\ Idle(k) /\ rows[d] # 0
  /\ call' = [call EXCEPT ![k] = [chunk |-> <<d, rows[d]>>, replaces |-> TRUE]]
  /\ promise' = [promise EXCEPT ![d] = IF Touching(d) = {} THEN Nothing ELSE NoPromise]
  /\ UNCHANGED <<rows, issued, vectors, keywords, inMemory, archived, restarts>>
  /\ Watch

\* /internal/index/reindex: the old entries go before the embedding API is asked.
StartReindex(k, d) ==
  /\ Idle(k) /\ rows[d] # 0
  /\ call' = [call EXCEPT ![k] = [chunk |-> <<d, rows[d]>>, replaces |-> TRUE]]
  /\ vectors' = WithoutDocs({d})
  /\ keywords' = KeywordsWithoutDocs({d})
  /\ promise' = [promise EXCEPT ![d] = IF Touching(d) = {} THEN Nothing ELSE NoPromise]
  /\ UNCHANGED <<rows, issued, inMemory, archived, restarts>>
  /\ Watch

FinishIndexing(k) ==
  /\ ~Idle(k)
  /\ LET chunk == call[k].chunk
         d == chunk[1]
     IN /\ vectors' = Inserted(chunk)
        /\ keywords' = KeywordsOfBatch(chunk)
        /\ promise' = [promise EXCEPT ![d] =
             IF call[k].replaces /\ @ = Nothing /\ Touching(d) = {k} THEN chunk[2] ELSE NoPromise]
  /\ call' = [call EXCEPT ![k] = NoCall]
  /\ UNCHANGED <<rows, issued, inMemory, archived, restarts>>
  /\ Watch

\* The embedding API or the vector store raises.
IndexingFails(k) ==
  /\ ~Idle(k)
  /\ call' = [call EXCEPT ![k] = NoCall]
  /\ UNCHANGED <<rows, issued, vectors, inMemory, keywords, archived, search, restarts, promise>>

DeleteDocs(ds) ==
  /\ vectors' = WithoutDocs(ds)
  /\ keywords' = KeywordsWithoutDocs(ds)
  /\ promise' = [d \in Docs |-> IF d \notin ds THEN promise[d]
                                ELSE IF Touching(d) = {} THEN Nothing ELSE NoPromise]
  /\ UNCHANGED <<rows, issued, inMemory, call, archived, restarts>>
  /\ Watch

DeleteDocumentIndex(d) == DeleteDocs({d})
DeleteProjectIndex(p) == DeleteDocs({d \in Docs : ProjectOf[d] = p})

-----------------------------------------------------------------------------
(* The life cycle of projects, and of the service. *)

ArchiveProject(p) ==
  /\ archived' = archived \cup {p}
  /\ UNCHANGED <<index, search, restarts>>

RestoreProject(p) ==
  /\ archived' = archived \ {p}
  /\ UNCHANGED <<index, search, restarts>>

\* The flags and the keyword list live in memory; requests under way are lost.
Restart ==
  /\ restarts < MaxRestarts
  /\ restarts' = restarts + 1
  /\ archived' = {} /\ keywords' = {}
  /\ call' = [k \in Calls |-> NoCall]
  /\ search' = [s \in Searches |->
       IF search[s].at \in {"embedding", "vectors", "keywords"}
       THEN Failed ELSE search[s]]
  /\ UNCHANGED <<rows, issued, vectors, inMemory, promise>>

-----------------------------------------------------------------------------
(* Searches: of a project, which must not be archived, or everywhere. *)

Ask(s, scope, mode, filtered) ==
  /\ search[s].at = "idle"
  /\ LET asked == [NewSearch EXCEPT !.at = "embedding", !.scope = scope, !.mode = mode,
                                    !.filtered = filtered]
         Covered(c) == scope \in {ProjectOf[c[1]], Everywhere}
     IN search' = [search EXCEPT ![s] =
          IF scope \in archived THEN Failed
          ELSE [asked EXCEPT
                  !.seen = {c \in Stored(vectors) \cup KeywordChunks(rows, keywords) : Covered(c)},
                  !.steady = {c \in Stored(vectors) : Covered(c)}]]
  /\ UNCHANGED <<index, archived, restarts>>

\* The three endpoints; only an internal search may leave the project out.
AskProject(s, p, mode, filtered) == Ask(s, p, mode, filtered)
AskInstitution(s, mode, filtered) == Ask(s, Everywhere, mode, filtered)
AskInternally(s, scope, mode, filtered) == Ask(s, scope, mode, filtered)

\* The query is embedded for every mode; an error of the embedding API is the search's.
EmbedQuery(s) ==
  /\ search[s].at = "embedding"
  /\ search' = [search EXCEPT ![s].at = IF search[s].mode = "bm25" THEN "keywords" ELSE "vectors"]
  /\ UNCHANGED <<index, archived, restarts>>

EmbedFails(s) ==
  /\ search[s].at = "embedding"
  /\ search' = [search EXCEPT ![s] = Failed]
  /\ UNCHANGED <<index, archived, restarts>>

VectorHitsAnywhere(s) == Stored(vectors)
VectorHits(s) == Scoped(s, Stored(vectors))

SearchVectors(s) ==
  /\ search[s].at = "vectors"
  /\ search' = [search EXCEPT ![s] =
       IF search[s].filtered THEN Failed
       ELSE IF search[s].mode = "vector" THEN Answered(s, VectorHits(s))
       ELSE [@ EXCEPT !.hits = VectorHits(s), !.at = "keywords"]]
  /\ UNCHANGED <<index, archived, restarts>>

\* The vector store raises: unlike a failing keyword query, this is the search's error.
VectorSearchFails(s) ==
  /\ search[s].at = "vectors"
  /\ search' = [search EXCEPT ![s] = Failed]
  /\ UNCHANGED <<index, archived, restarts>>

\* BM25Searcher returns no hits when its query fails; a timeout has the same effect.
SearchKeywords(s) ==
  /\ search[s].at = "keywords"
  /\ \E found \in SUBSET Scoped(s, KeywordChunks(rows, keywords)) : \* those with the query's words
       search' = [search EXCEPT ![s] = Answered(s, search[s].hits \cup found)]
  /\ UNCHANGED <<index, archived, restarts>>

TimeOutEmptiesAnswer(s) ==
  /\ search[s].at = "keywords"
  /\ search' = [search EXCEPT ![s] = Answered(s, {})]
  /\ UNCHANGED <<index, archived, restarts>>

KeywordsTimeOut(s) ==
  /\ search[s].at = "keywords"
  /\ search' = [search EXCEPT ![s] = Answered(s, search[s].hits)]
  /\ UNCHANGED <<index, archived, restarts>>

\* The query is tried, connecting to PostgreSQL is not: if that fails, so does the search.
NoConnections(s) ==
  /\ search[s].at = "keywords" /\ ~inMemory
  /\ search' = [search EXCEPT ![s] = Failed]
  /\ UNCHANGED <<index, archived, restarts>>

Answer(s) ==
  \/ EmbedQuery(s) \/ EmbedFails(s) \/ SearchVectors(s) \/ VectorSearchFails(s)
  \/ SearchKeywords(s) \/ KeywordsTimeOut(s) \/ NoConnections(s)

Next ==
  \/ \E d \in Docs : ProcessDocument(d) \/ DeleteRows(d) \/ DeleteDocumentIndex(d)
  \/ \E k \in Calls, d \in Docs : StartReindex(k, d)
  \/ \E k \in Calls : FinishIndexing(k) \/ IndexingFails(k)
  \/ \E p \in Projects : DeleteProjectIndex(p) \/ ArchiveProject(p) \/ RestoreProject(p)
  \/ Restart
  \/ \E s \in Searches, mode \in {"hybrid", "vector", "bm25"}, filtered \in BOOLEAN :
       \/ \E p \in Projects : AskProject(s, p, mode, filtered)
       \/ AskInstitution(s, mode, filtered)
       \/ \E scope \in Projects \cup {Everywhere} : AskInternally(s, scope, mode, filtered)
  \/ \E s \in Searches : Answer(s)

Spec == Init /\ [][Next]_vars

-----------------------------------------------------------------------------
(* Properties. *)

Ended(s) == search[s].at \in {"answered", "failed"}

\* After a reindex or a delete that no other call for the document overlapped, and until
\* the next call for it, the vector store holds just what that call left: the new chunks
\* once, or nothing, also when the reindex failed half way.
QuietIndexIsExact ==
  \A d \in Docs : promise[d] # NoPromise =>
    \A v \in 1 .. MaxVersion : vectors[<<d, v>>] = IF v = promise[d] THEN 1 ELSE 0

\* A vector or hybrid search that is answered misses no chunk of its scope that the vector
\* store held for the whole time, whatever calls run meanwhile, however many copies there
\* are, and whether or not the keyword query fails.
SteadyChunksAreFound == \A s \in Searches : search[s].missed = {}

\* An answer has chunks of the asked project only, each of which an index held at some
\* moment between the question and the answer.
HitsWereThere == \A s \in Searches : search[s].strange = {}

=============================================================================
