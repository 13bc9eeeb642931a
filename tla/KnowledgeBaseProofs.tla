------------------------- MODULE KnowledgeBaseProofs -------------------------
(***************************************************************************)
(* Proofs about KnowledgeBase, for any documents, projects, overlapping    *)
(* calls and searches: its types, what a call leaves in the vector store   *)
(* when it ran alone, and that an answer has every chunk that was there    *)
(* all the time and none that never was.                                   *)
(***************************************************************************)
EXTENDS KnowledgeBase, TLAPS

-----------------------------------------------------------------------------
(* The inductive invariants.                                               *)
(*                                                                         *)
(* A search reads the vector store and then the keyword index, and between *)
(* the two any call may change both.  So what it has read may be gone when *)
(* it answers; it is compared with the history the search carries: seen    *)
(* has all the indexes hold now, steady is held now, and the hits of the   *)
(* first read lie between the two.                                         *)

UnderWay(s) == search[s].at \in {"embedding", "vectors", "keywords"}

Available(s) == Scoped(s, Stored(vectors) \cup KeywordChunks(rows, keywords))

HistoryOK(s) ==
  /\ Available(s) \subseteq search[s].seen
  /\ search[s].steady \subseteq Scoped(s, Stored(vectors))
  /\ search[s].hits \subseteq search[s].seen
  /\ search[s].at = "keywords" /\ search[s].mode # "bm25" =>
       search[s].steady \subseteq search[s].hits

SearchOK(s) ==
  /\ UnderWay(s) => HistoryOK(s)
  /\ search[s].missed = {} /\ search[s].strange = {}

SearchesOK == \A s \in Searches : SearchOK(s)

\* A request under way is for a chunk.
CallsOK == \A k \in Calls : ~Idle(k) => call[k].chunk \in Chunks

IInv == TypeOK /\ CallsOK /\ QuietIndexIsExact /\ SearchesOK
-----------------------------------------------------------------------------
(* Types. *)

\* What the indexes hold are chunks; a number of entities is a number.
LEMMA ChunkSets ==
  ASSUME TypeOK
  PROVE  /\ \A s : Scoped(s, Stored(vectors)) \subseteq Chunks
         /\ \A s : Available(s) \subseteq Chunks
         /\ KeywordChunks(rows, keywords) \subseteq Chunks
         /\ \A c \in Chunks : vectors[c] \in Nat /\ c[1] \in Docs /\ c[2] \in 1 .. MaxVersion
BY DEF TypeOK, Scoped, Stored, Available, KeywordChunks, Chunks

\* The types of everything but the searches, apart from the searches' own.
IndexTyped ==
  /\ rows \in [Docs -> 0 .. MaxVersion] /\ issued \in [Docs -> 0 .. MaxVersion]
  /\ vectors \in [Chunks -> Nat]
  /\ inMemory \in BOOLEAN /\ keywords \subseteq Chunks
  /\ call \in [Calls -> [chunk : Chunks \cup {<<>>}, replaces : BOOLEAN]]
  /\ archived \subseteq Projects
  /\ restarts \in 0 .. MaxRestarts
  /\ promise \in [Docs -> 0 .. MaxVersion + 1]

SearchesTyped == search \in [Searches -> Search]

\* TypeOK says no more than its parts.
LEMMA TypeParts == TypeOK <=> IndexTyped /\ SearchesTyped
BY DEF TypeOK, IndexTyped, SearchesTyped

\* The same after a step.
LEMMA TypePartsNext == IndexTyped' /\ SearchesTyped' <=> TypeOK'
BY TypeParts, PTL

\* A search that has not been made.
LEMMA NewSearchTyped == NewSearch \in Search
BY DEF NewSearch, Search

\* A search that failed.
LEMMA FailedTyped ==
  /\ Failed \in Search
  /\ Failed.at = "failed" /\ Failed.missed = {} /\ Failed.strange = {}
BY DEF NewSearch, Failed, Search

\* An answer, with its errors.
LEMMA AnsweredTyped ==
  ASSUME TypeOK, NEW s \in Searches, NEW hits \in SUBSET Chunks
  PROVE  /\ Answered(s, hits) \in Search
         /\ Answered(s, hits).at = "answered"
         /\ Answered(s, hits).strange = hits \ search[s].seen
         /\ Answered(s, hits).missed =
              IF search[s].mode = "bm25" THEN {} ELSE search[s].steady \ hits
<1>1. search[s] \in Search
  BY DEF TypeOK
<1>2. QED
  BY <1>1 DEF NewSearch, Answered, Search

\* Keeping the history keeps the types of the searches.
LEMMA WatchTyped ==
  ASSUME TypeOK, IndexTyped', Watch
  PROVE  SearchesTyped'
<1>1. ASSUME NEW s \in Searches
      PROVE  Scoped(s, Stored(vectors') \cup KeywordChunks(rows', keywords')) \subseteq Chunks
  BY DEF IndexTyped, Scoped, Stored, KeywordChunks
<1>2. ASSUME NEW s \in Searches
      PROVE  search[s] \in Search
  BY DEF TypeOK
<1>3. ASSUME NEW s \in Searches
      PROVE  [search[s] EXCEPT !.seen = @ \cup Scoped(s, Stored(vectors') \cup KeywordChunks(rows', keywords')),
                               !.steady = @ \cap Stored(vectors')] \in Search
  BY <1>1, <1>2 DEF Search
<1>4. QED
  BY <1>2, <1>3 DEF Watch, SearchesTyped

\* Every variable starts with its type.
LEMMA TypeInit == Init => TypeOK
<1> SUFFICES ASSUME Init PROVE IndexTyped /\ SearchesTyped
  BY TypeParts
<1>1. call \in [Calls -> [chunk : Chunks \cup {<<>>}, replaces : BOOLEAN]]
  BY DEF Init, NoCall
<1>2. /\ rows \in [Docs -> 0 .. MaxVersion] /\ issued \in [Docs -> 0 .. MaxVersion]
      /\ promise \in [Docs -> 0 .. MaxVersion + 1] /\ restarts \in 0 .. MaxRestarts
  BY KnowledgeBaseAssumption DEF Init, NoPromise
<1>3. IndexTyped
  BY <1>1, <1>2 DEF Init, IndexTyped
<1>4. SearchesTyped
  BY NewSearchTyped DEF Init, SearchesTyped
<1>5. QED
  BY <1>3, <1>4

\* A version that has been processed is one.
LEMMA VersionTyped ==
  ASSUME TypeOK, NEW d \in Docs, issued[d] < MaxVersion
  PROVE  /\ issued[d] + 1 \in 1 .. MaxVersion /\ issued[d] + 1 \in 0 .. MaxVersion
         /\ <<d, issued[d] + 1>> \in Chunks
BY KnowledgeBaseAssumption DEF TypeOK, Chunks

\* The promises are versions, nothing, or none.
LEMMA PromiseTyped == Nothing \in 0 .. MaxVersion + 1 /\ NoPromise \in 0 .. MaxVersion + 1
BY KnowledgeBaseAssumption DEF Nothing, NoPromise

\* Requests of the document service.
LEMMA TypeDocuments ==
  ASSUME TypeOK, NEW d \in Docs, ProcessDocument(d) \/ DeleteRows(d)
  PROVE  TypeOK'
<1>1. CASE ProcessDocument(d)
  <2>1. rows' \in [Docs -> 0 .. MaxVersion] /\ issued' \in [Docs -> 0 .. MaxVersion]
    BY <1>1, VersionTyped DEF ProcessDocument, TypeOK
  <2>2. promise' \in [Docs -> 0 .. MaxVersion + 1]
    BY <1>1, PromiseTyped DEF ProcessDocument, TypeOK
  <2>3. call' \in [Calls -> [chunk : Chunks \cup {<<>>}, replaces : BOOLEAN]]
    BY <1>1, VersionTyped DEF ProcessDocument, TypeOK
  <2>4. IndexTyped'
    BY <1>1, <2>1, <2>2, <2>3 DEF ProcessDocument, TypeOK, IndexTyped
  <2>5. QED
    BY <1>1, <2>4, WatchTyped, TypePartsNext DEF ProcessDocument
<1>2. CASE DeleteRows(d)
  <2>1. rows' \in [Docs -> 0 .. MaxVersion]
    BY <1>2, KnowledgeBaseAssumption DEF DeleteRows, TypeOK
  <2>2. IndexTyped'
    BY <1>2, <2>1 DEF DeleteRows, TypeOK, IndexTyped
  <2>3. QED
    BY <1>2, <2>2, WatchTyped, TypePartsNext DEF DeleteRows
<1>3. QED
  BY <1>1, <1>2

\* The entries left by a deletion, and those with one more.
LEMMA IndexesTyped ==
  ASSUME TypeOK
  PROVE  /\ \A ds : WithoutDocs(ds) \in [Chunks -> Nat] /\ KeywordsWithoutDocs(ds) \subseteq Chunks
         /\ \A c \in Chunks : Inserted(c) \in [Chunks -> Nat] /\ KeywordsOfBatch(c) \subseteq Chunks
BY DEF TypeOK, WithoutDocs, KeywordsWithoutDocs, Inserted, KeywordsOfBatch

\* The start of a reindex request.
LEMMA TypeReindex ==
  ASSUME TypeOK, NEW k \in Calls, NEW d \in Docs, StartReindex(k, d)
  PROVE  TypeOK'
<1>1. <<d, rows[d]>> \in Chunks
  BY KnowledgeBaseAssumption DEF TypeOK, StartReindex, Chunks
<1>2. call' \in [Calls -> [chunk : Chunks \cup {<<>>}, replaces : BOOLEAN]]
  BY <1>1 DEF StartReindex, TypeOK
<1>3. promise' \in [Docs -> 0 .. MaxVersion + 1]
  BY PromiseTyped DEF StartReindex, TypeOK
<1>4. vectors' \in [Chunks -> Nat] /\ keywords' \subseteq Chunks
  BY IndexesTyped DEF StartReindex
<1>5. IndexTyped'
  BY <1>2, <1>3, <1>4 DEF StartReindex, TypeOK, IndexTyped
<1>6. QED
  BY <1>5, WatchTyped, TypePartsNext DEF StartReindex

\* The end of a request.
LEMMA TypeFinish ==
  ASSUME TypeOK, CallsOK, NEW k \in Calls, FinishIndexing(k)
  PROVE  TypeOK'
<1>1. call[k].chunk \in Chunks /\ call[k].chunk[2] \in 0 .. MaxVersion + 1
  <2>1. call[k].chunk \in Chunks
    BY DEF CallsOK, FinishIndexing
  <2>2. call[k].chunk[2] \in 1 .. MaxVersion
    BY <2>1, ChunkSets
  <2>3. QED
    BY <2>1, <2>2, KnowledgeBaseAssumption
<1>2. vectors' \in [Chunks -> Nat] /\ keywords' \subseteq Chunks
  BY <1>1, IndexesTyped DEF FinishIndexing
<1>3. promise' \in [Docs -> 0 .. MaxVersion + 1]
  BY <1>1, PromiseTyped DEF FinishIndexing, TypeOK
<1>4. call' \in [Calls -> [chunk : Chunks \cup {<<>>}, replaces : BOOLEAN]]
  BY DEF FinishIndexing, TypeOK, NoCall
<1>5. IndexTyped'
  BY <1>2, <1>3, <1>4 DEF FinishIndexing, TypeOK, IndexTyped
<1>6. QED
  BY <1>5, WatchTyped, TypePartsNext DEF FinishIndexing

\* A request that fails.
LEMMA TypeFail ==
  ASSUME TypeOK, NEW k \in Calls, IndexingFails(k)
  PROVE  TypeOK'
<1>1. call' \in [Calls -> [chunk : Chunks \cup {<<>>}, replaces : BOOLEAN]]
  BY DEF IndexingFails, TypeOK, NoCall
<1>2. QED
  BY <1>1 DEF IndexingFails, TypeOK

\* A deletion.
LEMMA TypeDelete ==
  ASSUME TypeOK, NEW ds, DeleteDocs(ds)
  PROVE  TypeOK'
<1>1. vectors' \in [Chunks -> Nat] /\ keywords' \subseteq Chunks
  BY IndexesTyped DEF DeleteDocs
<1>2. promise' \in [Docs -> 0 .. MaxVersion + 1]
  BY PromiseTyped DEF DeleteDocs, TypeOK
<1>3. IndexTyped'
  BY <1>1, <1>2 DEF DeleteDocs, TypeOK, IndexTyped
<1>4. QED
  BY <1>3, WatchTyped, TypePartsNext DEF DeleteDocs

\* The life cycle of the projects and of the service.
LEMMA TypeLifecycle ==
  ASSUME TypeOK, (\E p \in Projects : ArchiveProject(p) \/ RestoreProject(p)) \/ Restart
  PROVE  TypeOK'
<1>1. CASE \E p \in Projects : ArchiveProject(p) \/ RestoreProject(p)
  BY <1>1 DEF ArchiveProject, RestoreProject, TypeOK, index
<1>2. CASE Restart
  <2>1. search' \in [Searches -> Search]
    BY <1>2, FailedTyped DEF Restart, TypeOK
  <2>2. call' \in [Calls -> [chunk : Chunks \cup {<<>>}, replaces : BOOLEAN]]
    BY <1>2 DEF Restart, TypeOK, NoCall
  <2>3. restarts' \in 0 .. MaxRestarts
    BY <1>2, KnowledgeBaseAssumption DEF Restart, TypeOK
  <2>4. QED
    BY <1>2, <2>1, <2>2, <2>3 DEF Restart, TypeOK
<1>3. QED
  BY <1>1, <1>2

\* A step that changes one search only.
LEMMA TypeOneSearch ==
  ASSUME TypeOK, UNCHANGED <<index, archived, restarts>>,
         NEW s \in Searches, NEW rec \in Search, search' = [search EXCEPT ![s] = rec]
  PROVE  TypeOK'
BY DEF TypeOK, index
Begins(rec, scope) ==
  /\ rec.at = "embedding" /\ rec.scope = scope /\ rec.hits = {}
  /\ rec.seen = {c \in Stored(vectors) \cup KeywordChunks(rows, keywords) :
                    scope \in {ProjectOf[c[1]], Everywhere}}
  /\ rec.steady = {c \in Stored(vectors) : scope \in {ProjectOf[c[1]], Everywhere}}

\* The first step of a search.
LEMMA AskedTyped ==
  ASSUME TypeOK, NEW s \in Searches, NEW scope \in Projects \cup {Everywhere},
         NEW mode \in {"hybrid", "vector", "bm25"}, NEW filtered \in BOOLEAN,
         Ask(s, scope, mode, filtered)
  PROVE  \E rec \in Search :
           /\ search' = [search EXCEPT ![s] = rec]
           /\ rec.missed = {} /\ rec.strange = {}
           /\ rec.at = "failed" \/ Begins(rec, scope)
<1> DEFINE asked == [NewSearch EXCEPT !.at = "embedding", !.scope = scope, !.mode = mode,
                                      !.filtered = filtered]
           Covered(c) == scope \in {ProjectOf[c[1]], Everywhere}
           now == {c \in Stored(vectors) \cup KeywordChunks(rows, keywords) : Covered(c)}
           held == {c \in Stored(vectors) : Covered(c)}
           rec == [asked EXCEPT !.seen = now, !.steady = held]
<1>1. now \subseteq Chunks /\ held \subseteq Chunks
  BY ChunkSets DEF Stored
<1>2. /\ asked \in Search /\ asked.at = "embedding" /\ asked.scope = scope /\ asked.hits = {}
      /\ asked.missed = {} /\ asked.strange = {}
  BY DEF NewSearch, Search
<1> HIDE DEF asked, now, held
<1>3. /\ rec \in Search /\ rec.at = "embedding" /\ rec.scope = scope /\ rec.hits = {}
      /\ rec.seen = now /\ rec.steady = held /\ rec.missed = {} /\ rec.strange = {}
  BY <1>1, <1>2 DEF Search
<1>4. CASE scope \in archived
  BY <1>4, FailedTyped DEF Ask
<1>5. CASE scope \notin archived
  <2>1. search' = [search EXCEPT ![s] = rec]
    BY <1>5 DEF Ask, asked, now, held
  <2> HIDE DEF rec
  <2>2. QED
    BY <1>3, <2>1 DEF Begins, now, held
<1>6. QED
  BY <1>4, <1>5

\* What the vector store returns, and what the keyword index may.
LEMMA HitsTyped ==
  ASSUME TypeOK, NEW s \in Searches
  PROVE  /\ search[s] \in Search /\ search[s].hits \subseteq Chunks
         /\ VectorHits(s) \subseteq Chunks /\ VectorHits(s) \subseteq Available(s)
         /\ VectorHits(s) = Scoped(s, Stored(vectors))
         /\ Scoped(s, KeywordChunks(rows, keywords)) \subseteq Available(s)
         /\ Scoped(s, KeywordChunks(rows, keywords)) \subseteq Chunks
<1>1. search[s] \in Search
  BY DEF TypeOK
<1>2. search[s].hits \subseteq Chunks
  BY <1>1 DEF Search
<1>3. QED
  BY <1>1, <1>2, ChunkSets DEF VectorHits, Available, Scoped

\* The other steps of a search: it goes on, with the hits so far, fails, or is answered.
LEMMA AnswerSteps ==
  ASSUME TypeOK, NEW s \in Searches, Answer(s)
  PROVE  /\ UNCHANGED <<index, archived, restarts>>
         /\ \E rec \in Search :
              /\ search' = [search EXCEPT ![s] = rec]
              /\ \/ rec = Failed
                 \/ /\ search[s].at = "embedding"
                    /\ \/ rec = [search[s] EXCEPT !.at = "vectors"]
                       \/ search[s].mode = "bm25" /\ rec = [search[s] EXCEPT !.at = "keywords"]
                 \/ /\ search[s].at = "vectors"
                    /\ \/ rec = Answered(s, VectorHits(s))
                       \/ rec = [search[s] EXCEPT !.hits = VectorHits(s), !.at = "keywords"]
                 \/ /\ search[s].at = "keywords"
                    /\ \E found \in SUBSET Scoped(s, KeywordChunks(rows, keywords)) :
                         rec = Answered(s, search[s].hits \cup found)
<1>1. CASE EmbedQuery(s)
  <2> DEFINE rec == [search[s] EXCEPT !.at = IF search[s].mode = "bm25" THEN "keywords" ELSE "vectors"]
  <2>1. rec \in Search
    BY HitsTyped DEF Search
  <2>2. search' = [search EXCEPT ![s] = rec]
    BY <1>1 DEF EmbedQuery
  <2>3. \/ rec = [search[s] EXCEPT !.at = "vectors"]
        \/ search[s].mode = "bm25" /\ rec = [search[s] EXCEPT !.at = "keywords"]
    OBVIOUS
  <2> HIDE DEF rec
  <2>4. QED
    BY <1>1, <2>1, <2>2, <2>3 DEF EmbedQuery
<1>2. CASE EmbedFails(s) \/ VectorSearchFails(s) \/ NoConnections(s)
  BY <1>2, FailedTyped DEF EmbedFails, VectorSearchFails, NoConnections
<1>3. CASE SearchVectors(s)
  <2>1. CASE search[s].filtered
    BY <1>3, <2>1, FailedTyped DEF SearchVectors
  <2>2. CASE ~search[s].filtered /\ search[s].mode = "vector"
    <3>1. Answered(s, VectorHits(s)) \in Search
      BY HitsTyped, AnsweredTyped
    <3>2. QED
      BY <1>3, <2>2, <3>1 DEF SearchVectors
  <2>3. CASE ~search[s].filtered /\ search[s].mode # "vector"
    <3> DEFINE rec == [search[s] EXCEPT !.hits = VectorHits(s), !.at = "keywords"]
    <3>1. rec \in Search
      BY HitsTyped DEF Search
    <3>2. search' = [search EXCEPT ![s] = rec]
      BY <1>3, <2>3 DEF SearchVectors
    <3> HIDE DEF rec
    <3>3. QED
      BY <1>3, <3>1, <3>2 DEF SearchVectors, rec
  <2>4. QED
    BY <2>1, <2>2, <2>3
<1>4. CASE SearchKeywords(s)
  <2>1. PICK found \in SUBSET Scoped(s, KeywordChunks(rows, keywords)) :
          search' = [search EXCEPT ![s] = Answered(s, search[s].hits \cup found)]
    BY <1>4 DEF SearchKeywords
  <2>2. search[s].hits \cup found \in SUBSET Chunks
    BY HitsTyped
  <2>3. Answered(s, search[s].hits \cup found) \in Search
    BY <2>2, AnsweredTyped
  <2>4. QED
    BY <1>4, <2>1, <2>3 DEF SearchKeywords
<1>5. CASE KeywordsTimeOut(s)
  <2>1. Answered(s, search[s].hits) \in Search
    BY HitsTyped, AnsweredTyped
  <2>2. search[s].hits = search[s].hits \cup {} /\ {} \in SUBSET Scoped(s, KeywordChunks(rows, keywords))
    OBVIOUS
  <2>3. QED
    BY <1>5, <2>1, <2>2 DEF KeywordsTimeOut
<1>6. QED
  BY <1>1, <1>2, <1>3, <1>4, <1>5 DEF Answer

-----------------------------------------------------------------------------
(* Searches and the calls that change the indexes under them. *)

\* Whatever a call does to the indexes, the history of every search stays right.
LEMMA WatchKeepsSearches ==
  ASSUME TypeOK, IndexTyped', SearchesOK, Watch, inMemory' = inMemory
  PROVE  SearchesOK'
<1> SUFFICES ASSUME NEW s \in Searches PROVE SearchOK(s)'
  BY DEF SearchesOK
<1> DEFINE now == Scoped(s, Stored(vectors') \cup KeywordChunks(rows', keywords'))
<1>1. SearchOK(s) /\ search[s] \in Search
  BY DEF SearchesOK, TypeOK
<1>2. CASE UnderWay(s)
  <2>1. search'[s] = [search[s] EXCEPT !.seen = @ \cup now, !.steady = @ \cap Stored(vectors')]
    BY <1>2 DEF Watch, UnderWay
  <2>2. /\ search'[s].at = search[s].at /\ search'[s].scope = search[s].scope
        /\ search'[s].mode = search[s].mode /\ search'[s].hits = search[s].hits
        /\ search'[s].missed = search[s].missed /\ search'[s].strange = search[s].strange
        /\ search'[s].seen = search[s].seen \cup now
        /\ search'[s].steady = search[s].steady \cap Stored(vectors')
    <3> HIDE DEF now
    <3>1. QED
      BY <1>1, <2>1 DEF Search
  <2>3. Available(s)' = now
    BY <2>2 DEF Available, Scoped, InScope, KeywordChunks
  <2>4. search'[s].steady \subseteq Scoped(s, Stored(vectors))'
    BY <1>1, <1>2, <2>2 DEF SearchOK, HistoryOK, Scoped, InScope
  <2>5. HistoryOK(s)'
    <3> HIDE DEF now
    <3>1. QED
      BY <1>1, <1>2, <2>2, <2>3, <2>4 DEF SearchOK, HistoryOK
  <2>6. QED
    BY <1>1, <2>2, <2>5 DEF SearchOK
<1>3. CASE ~UnderWay(s)
  <2>1. search'[s] = search[s]
    BY <1>3 DEF Watch, UnderWay
  <2>2. QED
    BY <1>1, <1>3, <2>1 DEF SearchOK, UnderWay
<1>4. QED
  BY <1>2, <1>3

\* When neither the indexes nor a search change, its history stays right.
LEMMA SearchUnchanged ==
  ASSUME NEW s, SearchOK(s), search'[s] = search[s],
         UNCHANGED <<rows, vectors, inMemory, keywords>>
  PROVE  SearchOK(s)'
BY DEF SearchOK, HistoryOK, UnderWay, Available, Scoped, InScope, Stored, KeywordChunks

\* A search that is over without errors.
LEMMA SearchOver ==
  ASSUME NEW s, search'[s].at \in {"answered", "failed"},
         search'[s].missed = {}, search'[s].strange = {}
  PROVE  SearchOK(s)'
BY DEF SearchOK, UnderWay

\* A search starts with what the indexes hold.
LEMMA AskKeepsSearches ==
  ASSUME TypeOK, SearchesOK, NEW s \in Searches, NEW scope \in Projects \cup {Everywhere},
         NEW mode \in {"hybrid", "vector", "bm25"}, NEW filtered \in BOOLEAN,
         Ask(s, scope, mode, filtered)
  PROVE  SearchesOK'
<1>1. PICK rec \in Search :
         /\ search' = [search EXCEPT ![s] = rec]
         /\ rec.missed = {} /\ rec.strange = {}
         /\ rec.at = "failed" \/ Begins(rec, scope)
  BY AskedTyped
<1>2. UNCHANGED <<rows, vectors, inMemory, keywords>>
  BY DEF Ask, index
<1>3. ASSUME NEW t \in Searches, t # s
      PROVE  SearchOK(t)'
  BY <1>1, <1>2, <1>3, SearchUnchanged DEF SearchesOK, TypeOK
<1>4. search'[s] = rec
  BY <1>1 DEF TypeOK
<1>5. SearchOK(s)'
  <2>1. CASE rec.at = "failed"
    BY <1>1, <1>4, <2>1, SearchOver
  <2>2. CASE rec.at # "failed"
    BY <1>1, <1>2, <1>4, <2>2
    DEF Begins, SearchOK, UnderWay, HistoryOK, Available, Scoped, InScope, Stored, KeywordChunks
  <2>3. QED
    BY <2>1, <2>2
<1>6. QED
  BY <1>3, <1>5 DEF SearchesOK

\* The steps of a search read the indexes and change nothing else.
LEMMA AnswerKeepsSearches ==
  ASSUME TypeOK, SearchesOK, NEW s \in Searches, Answer(s)
  PROVE  SearchesOK'
<1>1. PICK rec \in Search :
         /\ search' = [search EXCEPT ![s] = rec]
         /\ \/ rec = Failed
            \/ /\ search[s].at = "embedding"
               /\ \/ rec = [search[s] EXCEPT !.at = "vectors"]
                  \/ search[s].mode = "bm25" /\ rec = [search[s] EXCEPT !.at = "keywords"]
            \/ /\ search[s].at = "vectors"
               /\ \/ rec = Answered(s, VectorHits(s))
                  \/ rec = [search[s] EXCEPT !.hits = VectorHits(s), !.at = "keywords"]
            \/ /\ search[s].at = "keywords"
               /\ \E found \in SUBSET Scoped(s, KeywordChunks(rows, keywords)) :
                    rec = Answered(s, search[s].hits \cup found)
  BY AnswerSteps
<1>2. UNCHANGED <<rows, vectors, inMemory, keywords>>
  BY AnswerSteps DEF index
<1>3. ASSUME NEW t \in Searches, t # s
      PROVE  SearchOK(t)'
  BY <1>1, <1>2, <1>3, SearchUnchanged DEF SearchesOK, TypeOK
<1>4. search'[s] = rec /\ SearchOK(s) /\ search[s] \in Search
  BY <1>1 DEF TypeOK, SearchesOK
<1>5. SearchOK(s)'
  <2>1. CASE rec = Failed
    BY <1>4, <2>1, FailedTyped, SearchOver
  <2>2. ASSUME NEW hits \in SUBSET Chunks, rec = Answered(s, hits),
               hits \subseteq search[s].seen,
               search[s].mode # "bm25" => search[s].steady \subseteq hits
        PROVE  SearchOK(s)'
    <3>1. /\ rec.at = "answered" /\ rec.strange = hits \ search[s].seen
          /\ rec.missed = IF search[s].mode = "bm25" THEN {} ELSE search[s].steady \ hits
      BY <2>2, AnsweredTyped
    <3>2. rec.missed = {} /\ rec.strange = {}
      BY <2>2, <3>1
    <3>3. QED
      BY <1>4, <3>1, <3>2, SearchOver
  <2>3. ASSUME UnderWay(s), rec.seen = search[s].seen, rec.steady = search[s].steady,
               rec.missed = search[s].missed, rec.strange = search[s].strange,
               rec.scope = search[s].scope, rec.hits \subseteq rec.seen,
               rec.at = "keywords" /\ rec.mode # "bm25" => rec.steady \subseteq rec.hits
        PROVE  SearchOK(s)'
    <3>1. Available(s)' = Available(s) /\ Scoped(s, Stored(vectors))' = Scoped(s, Stored(vectors))
      BY <1>2, <1>4, <2>3 DEF Available, Scoped, InScope, Stored, KeywordChunks
    <3>2. QED
      BY <1>4, <2>3, <3>1 DEF SearchOK, HistoryOK
  <2>4. CASE search[s].at = "embedding" /\ rec = [search[s] EXCEPT !.at = "vectors"]
    <3>1. rec.at = "vectors"
      BY <1>4, <2>4 DEF Search
    <3>2. /\ rec.seen = search[s].seen /\ rec.steady = search[s].steady
          /\ rec.missed = search[s].missed /\ rec.strange = search[s].strange
          /\ rec.scope = search[s].scope /\ rec.hits = search[s].hits
      BY <1>4, <2>4 DEF Search
    <3>3. search[s].hits \subseteq search[s].seen
      BY <1>4, <2>4 DEF SearchOK, UnderWay, HistoryOK
    <3>4. QED
      BY <2>3, <2>4, <3>1, <3>2, <3>3 DEF UnderWay
  <2>5. CASE /\ search[s].at = "embedding" /\ search[s].mode = "bm25"
             /\ rec = [search[s] EXCEPT !.at = "keywords"]
    <3>1. /\ rec.seen = search[s].seen /\ rec.steady = search[s].steady
          /\ rec.missed = search[s].missed /\ rec.strange = search[s].strange
          /\ rec.scope = search[s].scope /\ rec.mode = "bm25" /\ rec.hits = search[s].hits
      BY <1>4, <2>5 DEF Search
    <3>2. search[s].hits \subseteq search[s].seen
      BY <1>4, <2>5 DEF SearchOK, UnderWay, HistoryOK
    <3>3. QED
      BY <2>3, <2>5, <3>1, <3>2 DEF UnderWay
  <2>6. CASE /\ search[s].at = "vectors"
             /\ rec = [search[s] EXCEPT !.hits = VectorHits(s), !.at = "keywords"]
    <3>1. /\ rec.seen = search[s].seen /\ rec.steady = search[s].steady
          /\ rec.missed = search[s].missed /\ rec.strange = search[s].strange
          /\ rec.scope = search[s].scope /\ rec.hits = VectorHits(s)
      BY <1>4, <2>6 DEF Search
    <3>2. VectorHits(s) \subseteq search[s].seen /\ search[s].steady \subseteq VectorHits(s)
      BY <1>4, <2>6, HitsTyped DEF SearchOK, UnderWay, HistoryOK
    <3>3. QED
      BY <2>3, <2>6, <3>1, <3>2 DEF UnderWay
  <2>7. CASE search[s].at = "vectors" /\ rec = Answered(s, VectorHits(s))
    <3>1. VectorHits(s) \subseteq search[s].seen /\ search[s].steady \subseteq VectorHits(s)
      BY <1>4, <2>7, HitsTyped DEF SearchOK, UnderWay, HistoryOK
    <3>2. QED
      BY <2>2, <2>7, <3>1, HitsTyped
  <2>8. CASE /\ search[s].at = "keywords"
             /\ \E found \in SUBSET Scoped(s, KeywordChunks(rows, keywords)) :
                  rec = Answered(s, search[s].hits \cup found)
    <3>1. PICK found \in SUBSET Scoped(s, KeywordChunks(rows, keywords)) :
            rec = Answered(s, search[s].hits \cup found)
      BY <2>8
    <3> DEFINE hits == search[s].hits \cup found
    <3>2. hits \in SUBSET Chunks /\ found \subseteq Available(s)
      BY HitsTyped
    <3>3. HistoryOK(s)
      BY <1>4, <2>8 DEF SearchOK, UnderWay
    <3>4. /\ hits \subseteq search[s].seen
          /\ search[s].mode # "bm25" => search[s].steady \subseteq hits
      BY <2>8, <3>2, <3>3 DEF HistoryOK
    <3> HIDE DEF hits
    <3>5. QED
      BY <2>2, <3>1, <3>2, <3>4 DEF hits
  <2>9. QED
    BY <1>1, <2>1, <2>4, <2>5, <2>6, <2>7, <2>8
<1>6. QED
  BY <1>3, <1>5 DEF SearchesOK

\* A restart ends the searches under way and empties the keyword list.
LEMMA RestartKeepsSearches ==
  ASSUME TypeOK, SearchesOK, Restart
  PROVE  SearchesOK'
<1> SUFFICES ASSUME NEW s \in Searches PROVE SearchOK(s)'
  BY DEF SearchesOK
<1>1. CASE UnderWay(s)
  <2>1. search'[s] = Failed
    BY <1>1 DEF Restart, UnderWay
  <2>2. QED
    BY <2>1, FailedTyped, SearchOver
<1>2. CASE ~UnderWay(s)
  <2>1. search'[s] = search[s]
    BY <1>2 DEF Restart, UnderWay
  <2>2. QED
    BY <1>2, <2>1 DEF SearchesOK, SearchOK, UnderWay
<1>3. QED
  BY <1>1, <1>2

-----------------------------------------------------------------------------
(* Calls and the vector store. *)

Exact(d) ==
  promise[d] # NoPromise =>
    \A v \in 1 .. MaxVersion : vectors[<<d, v>>] = IF v = promise[d] THEN 1 ELSE 0

\* No version is Nothing or NoPromise.
LEMMA PromiseKinds ==
  /\ \A v \in 1 .. MaxVersion : v # Nothing /\ v # NoPromise
  /\ Nothing # NoPromise
BY KnowledgeBaseAssumption DEF Nothing, NoPromise

\* A document whose entries are gone.
LEMMA NothingIsExact ==
  ASSUME NEW d \in Docs, vectors' = WithoutDocs({d}) \/ \E ds : d \in ds /\ vectors' = WithoutDocs(ds),
         promise'[d] \in {Nothing, NoPromise}
  PROVE  Exact(d)'
<1>1. \A v \in 1 .. MaxVersion : vectors'[<<d, v>>] = 0
  BY DEF WithoutDocs, Chunks
<1>2. QED
  BY <1>1, PromiseKinds DEF Exact, Nothing, NoPromise

\* A call leaves the entries of other documents alone.
LEMMA OthersStayExact ==
  ASSUME NEW d \in Docs, Exact(d), promise'[d] = promise[d],
         \A v \in 1 .. MaxVersion : vectors'[<<d, v>>] = vectors[<<d, v>>]
  PROVE  Exact(d)'
BY DEF Exact, NoPromise

\* The document service's requests change no entry, and withdraw the promise.
LEMMA DocumentsKeepExact ==
  ASSUME TypeOK, QuietIndexIsExact, NEW d \in Docs, ProcessDocument(d) \/ DeleteRows(d)
  PROVE  QuietIndexIsExact'
<1> SUFFICES ASSUME NEW e \in Docs PROVE Exact(e)'
  BY DEF QuietIndexIsExact, Exact
<1>1. vectors' = vectors /\ (promise'[e] = promise[e] \/ promise'[e] = NoPromise)
  BY DEF ProcessDocument, DeleteRows, TypeOK
<1>2. QED
  BY <1>1 DEF QuietIndexIsExact, Exact, NoPromise

\* A reindex removes the entries of its document first.
LEMMA ReindexKeepsExact ==
  ASSUME TypeOK, QuietIndexIsExact, NEW k \in Calls, NEW d \in Docs, StartReindex(k, d)
  PROVE  QuietIndexIsExact'
<1> SUFFICES ASSUME NEW e \in Docs PROVE Exact(e)'
  BY DEF QuietIndexIsExact, Exact
<1>1. CASE e = d
  <2>1. promise'[d] \in {Nothing, NoPromise} /\ vectors' = WithoutDocs({d})
    BY DEF StartReindex, TypeOK
  <2>2. QED
    BY <1>1, <2>1, NothingIsExact
<1>2. CASE e # d
  <2>1. promise'[e] = promise[e]
    BY <1>2 DEF StartReindex, TypeOK
  <2>2. \A v \in 1 .. MaxVersion : vectors'[<<e, v>>] = vectors[<<e, v>>]
    BY <1>2 DEF StartReindex, WithoutDocs, Chunks
  <2>3. QED
    BY <2>1, <2>2, OthersStayExact DEF QuietIndexIsExact, Exact
<1>3. QED
  BY <1>1, <1>2

\* A deletion removes the entries of its documents.
LEMMA DeleteKeepsExact ==
  ASSUME TypeOK, QuietIndexIsExact, NEW ds, DeleteDocs(ds)
  PROVE  QuietIndexIsExact'
<1> SUFFICES ASSUME NEW e \in Docs PROVE Exact(e)'
  BY DEF QuietIndexIsExact, Exact
<1>1. CASE e \in ds
  <2>1. promise'[e] \in {Nothing, NoPromise} /\ vectors' = WithoutDocs(ds)
    BY <1>1 DEF DeleteDocs
  <2>2. QED
    BY <1>1, <2>1, NothingIsExact
<1>2. CASE e \notin ds
  <2>1. promise'[e] = promise[e]
    BY <1>2 DEF DeleteDocs
  <2>2. \A v \in 1 .. MaxVersion : vectors'[<<e, v>>] = vectors[<<e, v>>]
    BY <1>2 DEF DeleteDocs, WithoutDocs, Chunks
  <2>3. QED
    BY <2>1, <2>2, OthersStayExact DEF QuietIndexIsExact, Exact
<1>3. QED
  BY <1>1, <1>2

\* The end of a request adds one entry, and keeps a promise only when nothing else was
\* there: the request removed everything, and no other call touched the document.
LEMMA FinishKeepsExact ==
  ASSUME TypeOK, CallsOK, QuietIndexIsExact, NEW k \in Calls, FinishIndexing(k)
  PROVE  QuietIndexIsExact'
<1> SUFFICES ASSUME NEW e \in Docs PROVE Exact(e)'
  BY DEF QuietIndexIsExact, Exact
<1> DEFINE chunk == call[k].chunk
           d == chunk[1]
<1>1. chunk \in Chunks /\ d \in Docs /\ chunk[2] \in 1 .. MaxVersion /\ chunk = <<d, chunk[2]>>
  <2>1. chunk \in Chunks
    BY DEF CallsOK, FinishIndexing
  <2>2. QED
    BY <2>1 DEF Chunks
<1>2. /\ vectors' = [vectors EXCEPT ![chunk] = @ + 1]
      /\ promise' = [promise EXCEPT ![d] =
           IF call[k].replaces /\ @ = Nothing /\ Touching(d) = {k} THEN chunk[2] ELSE NoPromise]
  BY DEF FinishIndexing, Inserted
<1> HIDE DEF d, chunk
<1>3. CASE e # d
  <2>1. promise'[e] = promise[e]
    BY <1>1, <1>2, <1>3 DEF TypeOK
  <2>2. ASSUME NEW v \in 1 .. MaxVersion
        PROVE  vectors'[<<e, v>>] = vectors[<<e, v>>]
    <3>1. <<e, v>> \in Chunks /\ <<e, v>> # chunk
      BY <1>1, <1>3 DEF Chunks
    <3>2. QED
      BY <1>2, <3>1 DEF TypeOK
  <2>3. QED
    BY <2>1, <2>2, OthersStayExact DEF QuietIndexIsExact, Exact
<1>4. CASE e = d /\ promise'[d] # NoPromise
  <2>1. promise[d] = Nothing /\ promise'[d] = chunk[2]
    BY <1>1, <1>2, <1>4 DEF TypeOK
  <2>2. \A v \in 1 .. MaxVersion : vectors[<<d, v>>] = 0
    BY <1>1, <2>1, PromiseKinds DEF QuietIndexIsExact
  <2>3. ASSUME NEW v \in 1 .. MaxVersion
        PROVE  vectors'[<<d, v>>] = IF v = chunk[2] THEN 1 ELSE 0
    <3>1. <<d, v>> \in Chunks /\ (<<d, v>> = chunk <=> v = chunk[2])
      BY <1>1 DEF Chunks
    <3>2. QED
      BY <1>2, <2>2, <3>1 DEF TypeOK
  <2>4. QED
    BY <1>4, <2>1, <2>3 DEF Exact
<1>5. CASE e = d /\ promise'[d] = NoPromise
  BY <1>5 DEF Exact, NoPromise
<1>6. QED
  BY <1>3, <1>4, <1>5

\* A step that leaves the entries and the promises alone.
LEMMA ExactUnchanged ==
  ASSUME QuietIndexIsExact, UNCHANGED <<vectors, promise>>
  PROVE  QuietIndexIsExact'
BY DEF QuietIndexIsExact, NoPromise

\* A request starts with a chunk, and ends with none.
LEMMA CallsStayOK ==
  ASSUME TypeOK, CallsOK, Next
  PROVE  CallsOK'
<1>1. ASSUME NEW k \in Calls,
             \/ call'[k] = call[k] \/ call'[k] = NoCall \/ call'[k].chunk \in Chunks
      PROVE  ~Idle(k)' => call'[k].chunk \in Chunks
  BY <1>1 DEF CallsOK, Idle, NoCall
<1>2. ASSUME NEW k \in Calls
      PROVE  \/ call'[k] = call[k] \/ call'[k] = NoCall \/ call'[k].chunk \in Chunks
  <2>1. ASSUME NEW d \in Docs, ProcessDocument(d)
        PROVE  call'[k] = call[k] \/ call'[k].chunk \in Chunks
    BY <2>1, VersionTyped DEF ProcessDocument, TypeOK
  <2>2. ASSUME NEW j \in Calls, NEW d \in Docs, StartReindex(j, d)
        PROVE  call'[k] = call[k] \/ call'[k].chunk \in Chunks
    <3>1. <<d, rows[d]>> \in Chunks
      BY <2>2, KnowledgeBaseAssumption DEF TypeOK, StartReindex, Chunks
    <3>2. QED
      BY <2>2, <3>1 DEF StartReindex, TypeOK
  <2>3. ASSUME NEW j \in Calls, FinishIndexing(j) \/ IndexingFails(j)
        PROVE  call'[k] = call[k] \/ call'[k] = NoCall
    BY <2>3 DEF FinishIndexing, IndexingFails, TypeOK
  <2>4. CASE Restart
    BY <2>4 DEF Restart
  <2>5. ASSUME \/ \E d \in Docs : DeleteRows(d) \/ DeleteDocumentIndex(d)
               \/ \E p \in Projects : DeleteProjectIndex(p)
        PROVE  call' = call
    BY <2>5 DEF DeleteRows, DeleteDocumentIndex, DeleteProjectIndex, DeleteDocs
  <2>6. ASSUME UNCHANGED index
        PROVE  call' = call
    BY <2>6 DEF index
  <2>7. ASSUME \E p \in Projects : ArchiveProject(p) \/ RestoreProject(p)
        PROVE  UNCHANGED index
    BY <2>7 DEF ArchiveProject, RestoreProject
  <2>8. ASSUME NEW s, NEW scope, NEW mode, NEW filtered, Ask(s, scope, mode, filtered)
        PROVE  UNCHANGED index
    BY <2>8 DEF Ask
  <2>9. ASSUME NEW s \in Searches, Answer(s)
        PROVE  UNCHANGED index
    BY <2>9, AnswerSteps
  <2>10. QED
    BY <2>1, <2>2, <2>3, <2>4, <2>5, <2>6, <2>7, <2>8, <2>9
    DEF Next, AskProject, AskInstitution, AskInternally
<1>3. QED
  BY <1>1, <1>2 DEF CallsOK

-----------------------------------------------------------------------------
(* The invariant, and the properties. *)

\* The initial states satisfy the invariant.
LEMMA InvariantInit == Init => IInv
<1> SUFFICES ASSUME Init PROVE IInv
  OBVIOUS
<1>1. CallsOK
  BY DEF Init, CallsOK, Idle
<1>2. QuietIndexIsExact
  BY DEF Init, QuietIndexIsExact
<1>3. SearchesOK
  BY DEF Init, SearchesOK, SearchOK, UnderWay, NewSearch
<1>4. QED
  BY <1>1, <1>2, <1>3, TypeInit DEF IInv

\* Every step keeps the invariant.
LEMMA InvariantNext == IInv /\ [Next]_vars => IInv'
<1> SUFFICES ASSUME IInv, [Next]_vars PROVE IInv'
  OBVIOUS
<1> USE DEF IInv
<1>0. TypeOK /\ CallsOK /\ QuietIndexIsExact /\ SearchesOK
  OBVIOUS
<1>1. ASSUME NEW d \in Docs, ProcessDocument(d) \/ DeleteRows(d)
      PROVE  TypeOK' /\ QuietIndexIsExact' /\ SearchesOK'
  <2>1. TypeOK'
    BY <1>0, <1>1, TypeDocuments
  <2>2. Watch /\ inMemory' = inMemory
    BY <1>1 DEF ProcessDocument, DeleteRows
  <2>3. QED
    BY <1>0, <1>1, <2>1, <2>2, TypePartsNext, WatchKeepsSearches, DocumentsKeepExact
<1>2. ASSUME NEW k \in Calls, NEW d \in Docs, StartReindex(k, d)
      PROVE  TypeOK' /\ QuietIndexIsExact' /\ SearchesOK'
  <2>1. TypeOK'
    BY <1>0, <1>2, TypeReindex
  <2>2. Watch /\ inMemory' = inMemory
    BY <1>2 DEF StartReindex
  <2>3. QED
    BY <1>0, <1>2, <2>1, <2>2, TypePartsNext, WatchKeepsSearches, ReindexKeepsExact
<1>3. ASSUME NEW k \in Calls, FinishIndexing(k)
      PROVE  TypeOK' /\ QuietIndexIsExact' /\ SearchesOK'
  <2>1. TypeOK'
    BY <1>0, <1>3, TypeFinish
  <2>2. Watch /\ inMemory' = inMemory
    BY <1>3 DEF FinishIndexing
  <2>3. QED
    BY <1>0, <1>3, <2>1, <2>2, TypePartsNext, WatchKeepsSearches, FinishKeepsExact
<1>4. ASSUME NEW k \in Calls, IndexingFails(k)
      PROVE  TypeOK' /\ QuietIndexIsExact' /\ SearchesOK'
  <2>1. UNCHANGED <<rows, vectors, inMemory, keywords, search, promise>>
    BY <1>4 DEF IndexingFails
  <2>2. SearchesOK'
    BY <1>0, <2>1, SearchUnchanged DEF SearchesOK
  <2>3. QED
    BY <1>0, <1>4, <2>1, <2>2, TypeFail, ExactUnchanged
<1>5. ASSUME NEW ds, DeleteDocs(ds)
      PROVE  TypeOK' /\ QuietIndexIsExact' /\ SearchesOK'
  <2>1. TypeOK'
    BY <1>0, <1>5, TypeDelete
  <2>2. Watch /\ inMemory' = inMemory
    BY <1>5 DEF DeleteDocs
  <2>3. QED
    BY <1>0, <1>5, <2>1, <2>2, TypePartsNext, WatchKeepsSearches, DeleteKeepsExact
<1>6. ASSUME NEW p \in Projects, ArchiveProject(p) \/ RestoreProject(p)
      PROVE  TypeOK' /\ QuietIndexIsExact' /\ SearchesOK'
  <2>1. UNCHANGED <<rows, vectors, inMemory, keywords, search, promise>>
    BY <1>6 DEF ArchiveProject, RestoreProject, index
  <2>2. SearchesOK'
    BY <1>0, <2>1, SearchUnchanged DEF SearchesOK
  <2>3. QED
    BY <1>0, <1>6, <2>1, <2>2, TypeLifecycle, ExactUnchanged
<1>7. CASE Restart
  <2>1. UNCHANGED <<vectors, promise>>
    BY <1>7 DEF Restart
  <2>2. TypeOK' /\ QuietIndexIsExact' /\ SearchesOK'
    BY <1>0, <1>7, <2>1, TypeLifecycle, RestartKeepsSearches, ExactUnchanged
  <2>3. CallsOK'
    BY <1>0, <1>7, CallsStayOK DEF Next
  <2>4. QED
    BY <2>2, <2>3
<1>8. ASSUME NEW s \in Searches, NEW scope \in Projects \cup {Everywhere},
             NEW mode \in {"hybrid", "vector", "bm25"}, NEW filtered \in BOOLEAN,
             Ask(s, scope, mode, filtered)
      PROVE  TypeOK' /\ QuietIndexIsExact' /\ SearchesOK'
  <2>1. UNCHANGED <<index, archived, restarts>>
    BY <1>8 DEF Ask
  <2>2. TypeOK'
    BY <1>0, <1>8, <2>1, AskedTyped, TypeOneSearch
  <2>3. QED
    BY <1>0, <1>8, <2>1, <2>2, AskKeepsSearches, ExactUnchanged DEF index
<1>9. ASSUME NEW s \in Searches, Answer(s)
      PROVE  TypeOK' /\ QuietIndexIsExact' /\ SearchesOK'
  <2>1. UNCHANGED <<index, archived, restarts>>
    BY <1>0, <1>9, AnswerSteps
  <2>2. TypeOK'
    BY <1>0, <1>9, <2>1, AnswerSteps, TypeOneSearch
  <2>3. QED
    BY <1>0, <1>9, <2>1, <2>2, AnswerKeepsSearches, ExactUnchanged DEF index
<1>10. ASSUME Next
       PROVE  TypeOK' /\ QuietIndexIsExact' /\ SearchesOK'
  BY <1>1, <1>2, <1>3, <1>4, <1>5, <1>6, <1>7, <1>8, <1>9, <1>10
  DEF Next, DeleteDocumentIndex, DeleteProjectIndex, AskProject, AskInstitution, AskInternally
<1>11. CASE UNCHANGED vars
  <2>1. UNCHANGED <<rows, vectors, inMemory, keywords, search, promise, call>> /\ TypeOK'
    BY <1>0, <1>11 DEF vars, index, TypeOK
  <2>2. SearchesOK'
    BY <1>0, <2>1, SearchUnchanged DEF SearchesOK
  <2>3. CallsOK'
    BY <1>0, <2>1 DEF CallsOK, Idle, NoCall
  <2>4. QED
    BY <1>0, <2>1, <2>2, <2>3, ExactUnchanged
<1>12. CASE Next
  BY <1>0, <1>10, <1>12, CallsStayOK
<1>13. QED
  BY <1>11, <1>12

\* The invariant holds in every state.
LEMMA Invariant == Spec => []IInv
BY InvariantInit, InvariantNext, PTL DEF Spec

\* Type correctness: every variable of the service and of its callers keeps its type,
\* through overlapping calls, searches and restarts.
THEOREM TypeCorrect == Spec => []TypeOK
<1>1. IInv => TypeOK
  BY DEF IInv
<1>2. QED
  BY <1>1, Invariant, PTL

\* What a reindex or a delete that ran alone leaves in the vector store is exact, for any
\* number of documents, versions and overlapping calls: each entry is there once.
THEOREM IndexIsExact == Spec => []QuietIndexIsExact
<1>1. IInv => QuietIndexIsExact
  BY DEF IInv
<1>2. QED
  BY <1>1, Invariant, PTL

\* A vector or hybrid search never misses what the vector store held all the time, for
\* any calls that change the indexes while it reads them.
THEOREM SearchesMissNothing == Spec => []SteadyChunksAreFound
<1>1. IInv => SteadyChunksAreFound
  BY DEF IInv, SearchesOK, SearchOK, SteadyChunksAreFound
<1>2. QED
  BY <1>1, Invariant, PTL

\* No answer has a chunk of another project, or one that no index ever held.
THEOREM SearchesInventNothing == Spec => []HitsWereThere
<1>1. IInv => HitsWereThere
  BY DEF IInv, SearchesOK, SearchOK, HitsWereThere
<1>2. QED
  BY <1>1, Invariant, PTL

=============================================================================
