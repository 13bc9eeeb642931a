------------------------- MODULE DocumentPipelineProofs -------------------------
(***************************************************************************)
(* Proofs about DocumentPipeline, for any documents, clients and bounds:   *)
(* its types, that chunks never outlive their document, that a ready       *)
(* document has the chunks of its newest run unless reindexes overlapped,  *)
(* and that it is read and downloaded whether or not they did, unless      *)
(* something failed; that runs only go forward, and one is at work on each *)
(* document that is not settled.  The last part, about ListPage, is that   *)
(* the page that lists the documents shows its user's changes; that of     *)
(* tasks does too.                                                         *)
(***************************************************************************)
EXTENDS DocumentPipeline, ListPage, SequenceTheorems, TLAPS

-----------------------------------------------------------------------------
(* The inductive invariant.                                                *)
(*                                                                         *)
(* That a ready document has the chunks of its newest run is not           *)
(* inductive: nothing keeps an older run from clearing or replacing them   *)
(* but that it has ended.  It has, unless reindexes overlapped, because a  *)
(* reindex that finds the document ready or in error finds no writer, and  *)
(* the step that leaves these statuses to the newest run is its last.      *)

\* What an upload has found still holds when it inserts the row: nobody else
\* knows the document.  Other requests are on documents that were uploaded.
UploadsAlone ==
  /\ \A d \in Docs : row[d] = "absent" => runs[d] = 0
  /\ \A c \in Clients, d \in Docs : InRequest(c, "uploading", d) => row[d] = "absent" /\ file[d]
  /\ \A a, b \in Clients, d \in Docs :
       InRequest(a, "uploading", d) /\ InRequest(b, "uploading", d) => a = b
  /\ \A c \in Clients, d \in Docs, stage \in Busy \ {"uploading"} :
       InRequest(c, stage, d) => row[d] # "absent"

\* Runs are numbered as they are created.
Numbered == \A d \in Docs, n \in RunIds : n > runs[d] => pc[d][n] = "unborn"

\* One document whose reindexes did not overlap: only its newest run writes,
\* and none when the document is settled; what that run inserted is still
\* there when it makes the document ready, and from then on.
NewestWrites(d) ==
  /\ \A n \in RunIds : pc[d][n] \in Writing => n = runs[d] /\ row[d] \notin {"ready", "error"}
  /\ \A n \in RunIds : pc[d][n] = "readying" /\ Exists(d) /\ ~blank[d] => chunks[d] = n
  /\ row[d] = "ready" /\ ~blank[d] => chunks[d] = runs[d]

IInv ==
  /\ TypeOK
  /\ UploadsAlone
  /\ Numbered
  /\ NoOrphanChunks
  /\ \A d \in Docs : ~overlapped[d] => NewestWrites(d)

-----------------------------------------------------------------------------
(* Types. *)

\* The stages of a run, and the statuses of a row.
Stages == Writing \cup {"unborn", "indexing", "ended"}
Statuses == {"absent", "pending", "parsing", "ready", "error", "deleted"}

\* A row's status is only replaced by another, an error only recorded.
LEMMA UpdatesTyped ==
  ASSUME TypeOK, NEW d \in Docs, NEW s \in Statuses
  PROVE  /\ UpdateStatus(d, s) => row' \in [Docs -> Statuses]
         /\ UpdateError(d) => row' \in [Docs -> Statuses] /\ parseError' \in [Docs -> BOOLEAN]
BY DEF TypeOK, UpdateStatus, UpdateError, Statuses

\* Stages are replaced by stages.
LEMMA GotoTyped ==
  ASSUME TypeOK, NEW d \in Docs, NEW n \in RunIds, NEW stage \in Stages, Goto(d, n, stage)
  PROVE  pc' \in [Docs -> [RunIds -> Stages]]
BY DEF TypeOK, Goto, Stages

\* A new run has a number within the bound.
LEMMA SpawnTyped ==
  ASSUME TypeOK, NEW d \in Docs, runs[d] < MaxRuns, NEW stage \in Stages, Spawn(d, stage)
  PROVE  /\ runs' \in [Docs -> 0 .. MaxRuns]
         /\ pc' \in [Docs -> [RunIds -> Stages]]
<1>1. runs[d] \in 0 .. MaxRuns /\ runs[d] + 1 \in RunIds
  BY PipelineAssumption DEF TypeOK, RunIds
<1>2. runs' = [runs EXCEPT ![d] = runs[d] + 1]
  BY DEF Spawn
<1>. QED
  BY <1>1, <1>2, PipelineAssumption DEF TypeOK, Spawn, Stages, RunIds

\* Clients are idle, or in a request on a document.
Positions == [at : {"idle"}] \cup [at : Busy, doc : Docs]

\* What a client asks for is a request on a document.
LEMMA ClientsTyped ==
  ASSUME TypeOK, NEW c \in Clients, NEW d \in Docs, NEW stage \in Busy
  PROVE  /\ EnterRequest(c, stage, d) => client' \in [Clients -> Positions]
         /\ LeaveRequest(c) => client' \in [Clients -> Positions]
<1>1. [at |-> stage, doc |-> d] \in Positions /\ Idle \in Positions
  BY DEF Idle, Positions
<1>2. client \in [Clients -> Positions]
  BY DEF TypeOK, Positions
<1>. QED
  BY <1>1, <1>2 DEF EnterRequest, LeaveRequest

\* Requests keep the types.
LEMMA RequestTyped ==
  ASSUME TypeOK, UploadsAlone, NEW c \in Clients, NEW d \in Docs, Request(c, d)
  PROVE  TypeOK'
<1>. USE DEF Stages, Statuses, Positions
<1>1. CASE UploadStores(c, d)
  BY <1>1, ClientsTyped DEF UploadStores, TypeOK, Busy
<1>2. CASE UploadInserts(c, d)
  <2>1. runs[d] < MaxRuns
    BY <1>2, PipelineAssumption DEF UploadInserts, UploadsAlone
  <2>. QED
    BY <1>2, <2>1, ClientsTyped, SpawnTyped DEF UploadInserts, insert_document, TypeOK, Busy, Writing
<1>3. CASE ReindexReads(c, d)
  BY <1>3, ClientsTyped DEF ReindexReads, TypeOK, Busy
<1>4. CASE ReindexResets(c, d)
  <2>1. runs[d] < MaxRuns /\ row' \in [Docs -> Statuses] /\ client' \in [Clients -> Positions]
    BY <1>4, ClientsTyped, UpdatesTyped DEF ReindexResets, Busy
  <2>2. runs' \in [Docs -> 0 .. MaxRuns] /\ pc' \in [Docs -> [RunIds -> Stages]]
    BY <1>4, <2>1, SpawnTyped DEF ReindexResets, Writing
  <2>3. overlapped' \in [Docs -> BOOLEAN]
    BY <1>4 DEF ReindexResets, TypeOK
  <2>. QED
    BY <1>4, <2>1, <2>2, <2>3 DEF ReindexResets, TypeOK
<1>5. CASE DeleteReads(c, d)
  BY <1>5, ClientsTyped DEF DeleteReads, TypeOK, Busy
<1>6. CASE DeleteFile(c, d)
  <2>1. client' = [client EXCEPT ![c] = [at |-> "deleting_row", doc |-> d]]
    BY <1>6 DEF DeleteFile
  <2>2. [at |-> "deleting_row", doc |-> d] \in Positions
    BY DEF Busy
  <2>3. file' \in [Docs -> BOOLEAN]
    BY <1>6 DEF DeleteFile, TypeOK
  <2>. QED
    BY <1>6, <2>1, <2>2, <2>3 DEF DeleteFile, TypeOK
<1>7. CASE DeleteRow(c, d)
  BY <1>7, ClientsTyped, PipelineAssumption DEF DeleteRow, TypeOK, Busy
<1>. QED
  BY <1>1, <1>2, <1>3, <1>4, <1>5, <1>6, <1>7 DEF Request

\* Runs keep the types.
LEMMA RunTyped ==
  ASSUME TypeOK, NEW d \in Docs, NEW n \in RunIds, Run(d, n)
  PROVE  TypeOK'
<1>. USE DEF Stages, Statuses
<1>1. CASE RunDownloads(d, n) \/ RunMarksParsing(d, n) \/ RunParses(d, n) \/ ParseFails(d, n)
  BY <1>1, GotoTyped, UpdatesTyped
     DEF RunDownloads, RunMarksParsing, RunParses, ParseFails, TypeOK, Writing
<1>2. CASE DownloadFails(d, n) \/ ReportFailure(d, n)
  BY <1>2, GotoTyped, UpdatesTyped DEF DownloadFails, ReportFailure, TypeOK
<1>3. CASE RunClears(d, n) \/ RunInserts(d, n)
  BY <1>3, GotoTyped, PipelineAssumption DEF RunClears, RunInserts, TypeOK, Writing, RunIds
<1>4. CASE InsertNothing(d, n) \/ InsertRejected(d, n) \/ RunEnds(d, n)
  BY <1>4, GotoTyped DEF InsertNothing, InsertRejected, RunEnds, TypeOK, Writing
<1>5. CASE RunReady(d, n)
  <2>1. pc' \in [Docs -> [RunIds -> Stages]]
    BY <1>5, GotoTyped DEF RunReady
  <2>2. posts[d] \cup {n} \in SUBSET RunIds
    BY DEF TypeOK
  <2>3. posts' \in [Docs -> SUBSET RunIds]
    BY <1>5, <2>2 DEF RunReady, TypeOK
  <2>. QED
    BY <1>5, <2>1, <2>3, UpdatesTyped DEF RunReady, TypeOK
<1>. QED
  BY <1>1, <1>2, <1>3, <1>4, <1>5 DEF Run

\* So do the knowledge base and the faults.
LEMMA OthersTyped ==
  ASSUME TypeOK
  PROVE  /\ \A d \in Docs, n \in RunIds : KbIndexes(d, n) \/ KbDrops(d, n) \/ DbFails(d, n) => TypeOK'
         /\ \A c \in Clients : RequestFails(c) => TypeOK'
         /\ Crash => TypeOK'
<1>. USE DEF Stages, Positions
<1>0. Fault => faults' \in 0 .. MaxFaults
  BY PipelineAssumption DEF Fault, TypeOK
<1>1. ASSUME NEW d \in Docs, NEW n \in RunIds, KbIndexes(d, n) \/ KbDrops(d, n)
      PROVE  TypeOK'
  <2>1. posts[d] \ {n} \in SUBSET RunIds /\ vectors[d] \cup {n} \in SUBSET RunIds
    BY DEF TypeOK
  <2>2. posts' = [posts EXCEPT ![d] = posts[d] \ {n}]
    BY <1>1 DEF KbIndexes, KbDrops
  <2>3. posts' \in [Docs -> SUBSET RunIds]
    BY <2>1, <2>2 DEF TypeOK
  <2>4. \/ UNCHANGED vectors
        \/ vectors' = [vectors EXCEPT ![d] = vectors[d] \cup {n}]
    BY <1>1 DEF KbIndexes, KbDrops
  <2>5. vectors' \in [Docs -> SUBSET RunIds]
    BY <2>1, <2>4 DEF TypeOK
  <2>. QED
    BY <1>1, <2>3, <2>5 DEF KbIndexes, KbDrops, TypeOK
<1>2. ASSUME NEW d \in Docs, NEW n \in RunIds, DbFails(d, n)
      PROVE  TypeOK'
  <2>1. AfterDbError(d, n) \in Stages
    BY DEF AfterDbError, Writing
  <2>. QED
    BY <1>0, <1>2, <2>1, GotoTyped DEF DbFails, TypeOK
<1>3. ASSUME NEW c \in Clients, RequestFails(c)
      PROVE  TypeOK'
  BY <1>0, <1>3 DEF RequestFails, LeaveRequest, Idle, TypeOK
<1>4. ASSUME Crash
      PROVE  TypeOK'
  BY <1>0, <1>4 DEF Crash, Idle, TypeOK
<1>. QED
  BY <1>1, <1>2, <1>3, <1>4

-----------------------------------------------------------------------------
(* Steps of runs. *)

\* A step of run n of document d, by what it makes of the status, of the
\* chunks and of its own stage.
Effect(d, n, s, k, stage) ==
  /\ \A e \in Docs :
       /\ row'[e] = IF e = d THEN s ELSE row[e]
       /\ chunks'[e] = IF e = d THEN k ELSE chunks[e]
       /\ \A m \in RunIds : pc'[e][m] = IF e = d /\ m = n THEN stage ELSE pc[e][m]
  /\ UNCHANGED <<file, blank, runs, client, overlapped>>

\* What all of them have in common: only a writing run changes status and
\* chunks, and stops writing when it settles the document.
Harmless(d, n, s, k, stage) ==
  /\ pc[d][n] # "unborn"
  /\ s # row[d] => Exists(d) /\ s \in {"parsing", "ready", "error"} /\ pc[d][n] \in Writing
  /\ k # chunks[d] => pc[d][n] \in Writing /\ (k = 0 \/ (k = n /\ Exists(d)))
  /\ stage \in Writing => pc[d][n] \in Writing /\ (s = row[d] \/ s = "parsing")
  /\ stage = "readying" => blank[d] \/ k = n
  /\ s = "ready" /\ s # row[d] => pc[d][n] = "readying" /\ k = chunks[d]

\* Such a step preserves the invariant.
LEMMA HarmlessPreserves ==
  ASSUME IInv, TypeOK', NEW d \in Docs, NEW n \in RunIds, NEW s, NEW k, NEW stage,
         Effect(d, n, s, k, stage), Harmless(d, n, s, k, stage)
  PROVE  IInv'
<1>1. UploadsAlone'
  <2>1. \A e \in Docs : row'[e] = "absent" <=> row[e] = "absent"
    BY DEF Effect, Harmless, Exists
  <2>2. UNCHANGED <<file, runs, client>>
    BY DEF Effect
  <2>. QED
    BY <2>1, <2>2 DEF IInv, UploadsAlone, InRequest
<1>2. Numbered'
  BY DEF IInv, Numbered, Effect, Harmless
<1>3. NoOrphanChunks'
  BY DEF IInv, NoOrphanChunks, Exists, Effect, Harmless
<1>4. ASSUME NEW e \in Docs, ~overlapped'[e]
      PROVE  NewestWrites(e)'
  <2>1. NewestWrites(e)
    BY <1>4 DEF IInv, Effect
  <2>2. CASE e # d
    BY <2>1, <2>2 DEF NewestWrites, Effect, Exists
  <2>3. CASE e = d
    <3>1. ASSUME NEW m \in RunIds, pc'[d][m] \in Writing
          PROVE  m = runs'[d] /\ row'[d] \notin {"ready", "error"}
      <4>1. pc[d][m] \in Writing
        BY <3>1 DEF Effect, Harmless
      <4>2. m = runs[d] /\ row[d] \notin {"ready", "error"}
        BY <2>1, <2>3, <4>1 DEF NewestWrites
      <4>3. row'[d] # row[d] => row'[d] = "parsing" \/ m # n
        BY <3>1 DEF Effect, Harmless
      <4>4. row'[d] # row[d] => n = m
        BY <2>1, <2>3, <4>2 DEF Effect, Harmless, NewestWrites
      <4>. QED
        BY <4>2, <4>3, <4>4 DEF Effect
    <3>2. ASSUME NEW m \in RunIds, pc'[d][m] = "readying", Exists(d)', ~blank'[d]
          PROVE  chunks'[d] = m
      <4>1. Exists(d) /\ ~blank[d]
        BY <3>2 DEF Effect, Harmless, Exists
      <4>2. CASE m = n
        BY <3>2, <4>1, <4>2 DEF Effect, Harmless
      <4>3. CASE m # n
        <5>1. pc[d][m] = "readying" /\ m = runs[d] /\ chunks[d] = m
          BY <2>1, <2>3, <3>2, <4>1, <4>3 DEF Effect, NewestWrites, Writing
        <5>2. pc[d][n] \notin Writing
          BY <2>1, <2>3, <4>3, <5>1 DEF NewestWrites
        <5>. QED
          BY <5>1, <5>2 DEF Effect, Harmless
      <4>. QED
        BY <4>2, <4>3
    <3>3. ASSUME row'[d] = "ready", ~blank'[d]
          PROVE  chunks'[d] = runs'[d]
      <4>1. CASE row[d] = "ready"
        <5>1. pc[d][n] \notin Writing
          BY <2>1, <2>3, <4>1 DEF NewestWrites
        <5>. QED
          BY <2>1, <2>3, <3>3, <4>1, <5>1 DEF NewestWrites, Effect, Harmless
      <4>2. CASE row[d] # "ready"
        <5>1. pc[d][n] = "readying" /\ chunks'[d] = chunks[d] /\ Exists(d) /\ ~blank[d]
          BY <3>3, <4>2 DEF Effect, Harmless
        <5>2. n = runs[d] /\ chunks[d] = n
          BY <2>1, <2>3, <5>1 DEF NewestWrites, Writing
        <5>. QED
          BY <5>1, <5>2 DEF Effect
      <4>. QED
        BY <4>1, <4>2
    <3>. QED
      BY <2>3, <3>1, <3>2, <3>3 DEF NewestWrites
  <2>. QED
    BY <2>2, <2>3
<1>. QED
  BY <1>1, <1>2, <1>3, <1>4 DEF IInv

\* The status after an update, which changes nothing when the row is gone.
After(d, s) == IF Exists(d) THEN s ELSE row[d]

\* The effects of steps that update the status, the chunks, or neither.
LEMMA Effects ==
  ASSUME TypeOK, NEW d \in Docs, NEW n \in RunIds, NEW stage, Goto(d, n, stage),
         UNCHANGED <<file, blank, runs, client, overlapped>>
  PROVE  /\ \A s \in Statuses :
              UpdateStatus(d, s) /\ UNCHANGED chunks => Effect(d, n, After(d, s), chunks[d], stage)
         /\ \A k \in Nat :
              chunks' = [chunks EXCEPT ![d] = k] /\ UNCHANGED row => Effect(d, n, row[d], k, stage)
         /\ UNCHANGED <<row, chunks>> => Effect(d, n, row[d], chunks[d], stage)
<1>1. \A e \in Docs, m \in RunIds : pc'[e][m] = IF e = d /\ m = n THEN stage ELSE pc[e][m]
  BY DEF Goto, TypeOK
<1>2. ASSUME NEW s \in Statuses, UpdateStatus(d, s)
      PROVE  \A e \in Docs : row'[e] = IF e = d THEN After(d, s) ELSE row[e]
  BY <1>2 DEF UpdateStatus, After, TypeOK
<1>3. ASSUME NEW k \in Nat, chunks' = [chunks EXCEPT ![d] = k]
      PROVE  \A e \in Docs : chunks'[e] = IF e = d THEN k ELSE chunks[e]
  BY <1>3 DEF TypeOK
<1>. QED
  BY <1>1, <1>2, <1>3 DEF Effect

\* A step of a run preserves the invariant.
LEMMA RunStep ==
  ASSUME IInv, NEW d \in Docs, NEW n \in RunIds, Run(d, n)
  PROVE  IInv'
<1>1. TypeOK /\ TypeOK'
  BY RunTyped DEF IInv
<1>2. CASE RunDownloads(d, n)
  <2>1. Effect(d, n, row[d], chunks[d], "starting")
    BY <1>1, <1>2, Effects DEF RunDownloads, Statuses
  <2>2. Harmless(d, n, row[d], chunks[d], "starting")
    BY <1>2 DEF RunDownloads, Harmless, Writing
  <2>. QED
    BY <1>1, <2>1, <2>2, HarmlessPreserves
<1>3. CASE DownloadFails(d, n)
  <2>1. Effect(d, n, After(d, "error"), chunks[d], "ended")
    BY <1>1, <1>3, Effects DEF DownloadFails, UpdateError, Statuses
  <2>2. Harmless(d, n, After(d, "error"), chunks[d], "ended")
    BY <1>3 DEF DownloadFails, Harmless, After, Writing
  <2>. QED
    BY <1>1, <2>1, <2>2, HarmlessPreserves
<1>4. CASE RunMarksParsing(d, n)
  <2>1. Effect(d, n, After(d, "parsing"), chunks[d], "parsing")
    BY <1>1, <1>4, Effects DEF RunMarksParsing, Statuses
  <2>2. Harmless(d, n, After(d, "parsing"), chunks[d], "parsing")
    BY <1>4 DEF RunMarksParsing, Harmless, After, Writing
  <2>. QED
    BY <1>1, <2>1, <2>2, HarmlessPreserves
<1>5. CASE RunParses(d, n)
  <2>1. Effect(d, n, row[d], chunks[d], "clearing")
    BY <1>1, <1>5, Effects DEF RunParses, Statuses
  <2>2. Harmless(d, n, row[d], chunks[d], "clearing")
    BY <1>5 DEF RunParses, Harmless, Writing
  <2>. QED
    BY <1>1, <2>1, <2>2, HarmlessPreserves
<1>6. CASE ParseFails(d, n)
  <2>1. Effect(d, n, row[d], chunks[d], "failing")
    BY <1>1, <1>6, Effects DEF ParseFails, Statuses
  <2>2. Harmless(d, n, row[d], chunks[d], "failing")
    BY <1>6 DEF ParseFails, Harmless, Writing
  <2>. QED
    BY <1>1, <2>1, <2>2, HarmlessPreserves
<1>7. CASE RunClears(d, n)
  <2>1. Effect(d, n, row[d], 0, "inserting")
    BY <1>1, <1>7, Effects DEF RunClears
  <2>2. Harmless(d, n, row[d], 0, "inserting")
    BY <1>7 DEF RunClears, Harmless, Writing
  <2>. QED
    BY <1>1, <2>1, <2>2, HarmlessPreserves
<1>8. CASE RunInserts(d, n)
  <2>1. Effect(d, n, row[d], n, "readying")
    <3>1. n \in Nat
      BY PipelineAssumption DEF RunIds
    <3>2. /\ Goto(d, n, "readying") /\ chunks' = [chunks EXCEPT ![d] = n] /\ UNCHANGED row
          /\ UNCHANGED <<file, blank, runs, client, overlapped>>
      BY <1>8 DEF RunInserts
    <3>. QED
      BY <1>1, <3>1, <3>2, Effects
  <2>2. Harmless(d, n, row[d], n, "readying")
    BY <1>8 DEF RunInserts, CanInsert, Harmless, Writing
  <2>. QED
    BY <1>1, <2>1, <2>2, HarmlessPreserves
<1>9. CASE InsertNothing(d, n)
  <2>1. Effect(d, n, row[d], chunks[d], "readying")
    BY <1>1, <1>9, Effects DEF InsertNothing, Statuses
  <2>2. Harmless(d, n, row[d], chunks[d], "readying")
    BY <1>9 DEF InsertNothing, Harmless, Writing
  <2>. QED
    BY <1>1, <2>1, <2>2, HarmlessPreserves
<1>10. CASE InsertRejected(d, n)
  <2>1. Effect(d, n, row[d], chunks[d], "failing")
    BY <1>1, <1>10, Effects DEF InsertRejected, Statuses
  <2>2. Harmless(d, n, row[d], chunks[d], "failing")
    BY <1>10 DEF InsertRejected, Harmless, Writing
  <2>. QED
    BY <1>1, <2>1, <2>2, HarmlessPreserves
<1>11. CASE RunReady(d, n)
  <2>1. PICK stage \in {"indexing", "ended"} : Goto(d, n, stage)
    BY <1>11 DEF RunReady
  <2>2. Effect(d, n, After(d, "ready"), chunks[d], stage)
    BY <1>1, <1>11, <2>1, Effects DEF RunReady, Statuses
  <2>3. Harmless(d, n, After(d, "ready"), chunks[d], stage)
    BY <1>11 DEF RunReady, Harmless, After, Writing
  <2>. QED
    BY <1>1, <2>2, <2>3, HarmlessPreserves
<1>12. CASE RunEnds(d, n)
  <2>1. Effect(d, n, row[d], chunks[d], "ended")
    BY <1>1, <1>12, Effects DEF RunEnds, Statuses
  <2>2. Harmless(d, n, row[d], chunks[d], "ended")
    BY <1>12 DEF RunEnds, Harmless, Writing
  <2>. QED
    BY <1>1, <2>1, <2>2, HarmlessPreserves
<1>13. CASE ReportFailure(d, n)
  <2>1. Effect(d, n, After(d, "error"), chunks[d], "ended")
    BY <1>1, <1>13, Effects DEF ReportFailure, UpdateError, Statuses
  <2>2. Harmless(d, n, After(d, "error"), chunks[d], "ended")
    BY <1>13 DEF ReportFailure, Harmless, After, Writing
  <2>. QED
    BY <1>1, <2>1, <2>2, HarmlessPreserves
<1>. QED
  BY <1>2, <1>3, <1>4, <1>5, <1>6, <1>7, <1>8, <1>9, <1>10, <1>11, <1>12, <1>13 DEF Run

-----------------------------------------------------------------------------
(* Steps of requests. *)

\* Where clients are after one entered a request, went on in it, or left.
LEMMA ClientMoves ==
  ASSUME TypeOK, NEW c \in Clients, NEW d \in Docs, NEW stage \in Busy
  PROVE  /\ client' = [client EXCEPT ![c] = [at |-> stage, doc |-> d]] =>
              \A a \in Clients, st \in Busy, e \in Docs :
                InRequest(a, st, e)' <=> IF a = c THEN st = stage /\ e = d ELSE InRequest(a, st, e)
         /\ LeaveRequest(c) =>
              \A a \in Clients, st \in Busy, e \in Docs :
                InRequest(a, st, e)' <=> a # c /\ InRequest(a, st, e)
<1>1. client \in [Clients -> Positions]
  BY DEF TypeOK, Positions
<1>2. ASSUME client' = [client EXCEPT ![c] = [at |-> stage, doc |-> d]],
             NEW a \in Clients, NEW st \in Busy, NEW e \in Docs
      PROVE  InRequest(a, st, e)' <=> IF a = c THEN st = stage /\ e = d ELSE InRequest(a, st, e)
  <2>1. client'[a] = IF a = c THEN [at |-> stage, doc |-> d] ELSE client[a]
    BY <1>1, <1>2
  <2>. QED
    BY <2>1 DEF InRequest
<1>3. ASSUME LeaveRequest(c), NEW a \in Clients, NEW st \in Busy, NEW e \in Docs
      PROVE  InRequest(a, st, e)' <=> a # c /\ InRequest(a, st, e)
  <2>1. client'[a] = IF a = c THEN Idle ELSE client[a]
    BY <1>1, <1>3 DEF LeaveRequest
  <2>2. Idle # [at |-> st, doc |-> e]
    <3>1. Idle.at = "idle" /\ [at |-> st, doc |-> e].at = st /\ st # "idle"
      BY DEF Idle, Busy
    <3>. QED
      BY <3>1
  <2>. QED
    BY <2>1, <2>2 DEF InRequest
<1>. QED
  BY <1>2, <1>3

\* A request that only reads or moves on, and a deletion of the file.
LEMMA QuietRequestStep ==
  ASSUME IInv, TypeOK', NEW c \in Clients, NEW d \in Docs,
         UploadStores(c, d) \/ ReindexReads(c, d) \/ DeleteReads(c, d) \/ DeleteFile(c, d)
  PROVE  IInv'
<1>1. UNCHANGED <<row, blank, chunks, runs, pc, overlapped>>
  BY DEF UploadStores, ReindexReads, DeleteReads, DeleteFile
<1>2. Numbered' /\ NoOrphanChunks' /\ \A e \in Docs : ~overlapped'[e] => NewestWrites(e)'
  BY <1>1 DEF IInv, Numbered, NoOrphanChunks, NewestWrites, Exists
<1>3. UploadsAlone'
  <2>1. CASE UploadStores(c, d)
    <3>1. \A a \in Clients, st \in Busy, e \in Docs :
            InRequest(a, st, e)' <=> IF a = c THEN st = "uploading" /\ e = d ELSE InRequest(a, st, e)
      BY <2>1, ClientMoves DEF IInv, UploadStores, EnterRequest, Busy
    <3>2. row[d] = "absent" /\ ~file[d] /\ file' = [file EXCEPT ![d] = TRUE]
      BY <2>1 DEF UploadStores
    <3>3. file'[d] /\ \A e \in Docs : file[e] => file'[e]
      BY <3>2 DEF IInv, TypeOK
    <3>. QED
      BY <1>1, <3>1, <3>2, <3>3 DEF IInv, UploadsAlone, Busy
  <2>2. ASSUME NEW stage \in Busy \ {"uploading"}, row[d] # "absent",
               client' = [client EXCEPT ![c] = [at |-> stage, doc |-> d]],
               \A e \in Docs : row[e] = "absent" => file'[e] = file[e]
        PROVE  UploadsAlone'
    <3>1. \A a \in Clients, st \in Busy, e \in Docs :
            InRequest(a, st, e)' <=> IF a = c THEN st = stage /\ e = d ELSE InRequest(a, st, e)
      BY <2>2, ClientMoves DEF IInv
    <3>. QED
      BY <1>1, <2>2, <3>1 DEF IInv, UploadsAlone, Busy
  <2>3. CASE ReindexReads(c, d)
    BY <2>2, <2>3 DEF ReindexReads, EnterRequest, Busy
  <2>4. CASE DeleteReads(c, d)
    BY <2>2, <2>4 DEF DeleteReads, EnterRequest, Exists, Busy
  <2>5. CASE DeleteFile(c, d)
    <3>1. row[d] # "absent"
      BY <2>5 DEF DeleteFile, IInv, UploadsAlone, Busy
    <3>2. \A e \in Docs : row[e] = "absent" => file'[e] = file[e]
      BY <2>5, <3>1 DEF DeleteFile, IInv, TypeOK
    <3>. QED
      BY <2>2, <2>5, <3>1, <3>2 DEF DeleteFile, Busy
  <2>. QED
    BY <2>1, <2>3, <2>4, <2>5
<1>. QED
  BY <1>2, <1>3 DEF IInv

\* A request that leaves a document which is not new behind keeps its uploads apart.
LEMMA LeavingKeepsUploads ==
  ASSUME IInv, NEW c \in Clients, NEW d \in Docs, LeaveRequest(c), UNCHANGED file,
         row'[d] # "absent",
         \A e \in Docs \ {d} : row'[e] = row[e] /\ runs'[e] = runs[e],
         row[d] # "absent" \/ InRequest(c, "uploading", d)
  PROVE  UploadsAlone'
<1>1. \A a \in Clients, st \in Busy, e \in Docs :
        InRequest(a, st, e)' <=> a # c /\ InRequest(a, st, e)
  BY ClientMoves DEF IInv, Busy
<1>2. \A a \in Clients \ {c} : ~InRequest(a, "uploading", d)
  BY DEF IInv, UploadsAlone
<1>. QED
  BY <1>1, <1>2 DEF IInv, UploadsAlone, Busy

\* What the creation of a run changes.
LEMMA Spawned ==
  ASSUME TypeOK, NEW d \in Docs, runs[d] < MaxRuns, NEW stage \in Stages, Spawn(d, stage)
  PROVE  /\ \A e \in Docs : runs'[e] = IF e = d THEN runs[d] + 1 ELSE runs[e]
         /\ \A e \in Docs, m \in RunIds :
              pc'[e][m] = IF e = d /\ m = runs[d] + 1 THEN stage ELSE pc[e][m]
         /\ runs[d] \in Nat /\ RunIds \subseteq Nat
BY PipelineAssumption DEF TypeOK, Spawn, RunIds

\* The row of an uploaded document, and its first run.
LEMMA UploadStep ==
  ASSUME IInv, TypeOK', NEW c \in Clients, NEW d \in Docs, UploadInserts(c, d)
  PROVE  IInv'
<1>1. row[d] = "absent" /\ runs[d] = 0 /\ chunks[d] = 0
  BY DEF IInv, UploadsAlone, NoOrphanChunks, Exists, UploadInserts
<1>2. /\ \A e \in Docs : runs'[e] = IF e = d THEN 1 ELSE runs[e]
      /\ \A e \in Docs, m \in RunIds : pc'[e][m] = IF e = d /\ m = 1 THEN "starting" ELSE pc[e][m]
      /\ RunIds \subseteq Nat
  BY <1>1, Spawned, PipelineAssumption DEF UploadInserts, IInv, Stages, Writing
<1>3. \A e \in Docs : row'[e] = IF e = d THEN "pending" ELSE row[e]
  BY DEF UploadInserts, insert_document, IInv, TypeOK
<1>4. UNCHANGED <<file, blank, chunks, overlapped>>
  BY DEF UploadInserts
<1>5. UploadsAlone'
  BY <1>1, <1>2, <1>3, <1>4, LeavingKeepsUploads DEF UploadInserts
<1>6. \A m \in RunIds : pc[d][m] = "unborn"
  BY <1>1, PipelineAssumption DEF IInv, Numbered, RunIds
<1>7. Numbered'
  <2>. SUFFICES ASSUME NEW e \in Docs, NEW m \in RunIds, m > runs'[e]
                PROVE  pc'[e][m] = "unborn"
    BY DEF Numbered
  <2>1. CASE e = d
    BY <1>2, <1>6, <2>1
  <2>2. CASE e # d
    BY <1>2, <2>2 DEF IInv, Numbered
  <2>. QED
    BY <2>1, <2>2
<1>8. NoOrphanChunks'
  BY <1>3, <1>4 DEF IInv, NoOrphanChunks, Exists
<1>9. ASSUME NEW e \in Docs, ~overlapped'[e]
      PROVE  NewestWrites(e)'
  <2>1. CASE e = d
    <3>1. runs'[d] = 1 /\ row'[d] = "pending"
      BY <1>2, <1>3
    <3>2. \A m \in RunIds : pc'[d][m] = IF m = 1 THEN "starting" ELSE "unborn"
      BY <1>2, <1>6
    <3>. QED
      BY <2>1, <3>1, <3>2 DEF NewestWrites, Writing
  <2>2. CASE e # d
    <3>1. NewestWrites(e)
      BY <1>4, <1>9 DEF IInv
    <3>2. /\ row'[e] = row[e] /\ runs'[e] = runs[e] /\ \A m \in RunIds : pc'[e][m] = pc[e][m]
          /\ UNCHANGED <<blank, chunks>>
      BY <1>2, <1>3, <1>4, <2>2
    <3>. QED
      BY <3>1, <3>2 DEF NewestWrites, Exists
  <2>. QED
    BY <2>1, <2>2
<1>. QED
  BY <1>5, <1>7, <1>8, <1>9 DEF IInv

\* The next run of a document, whose reindex may overlap another.
LEMMA ReindexStep ==
  ASSUME IInv, TypeOK', NEW c \in Clients, NEW d \in Docs, ReindexResets(c, d)
  PROVE  IInv'
<1>1. row[d] # "absent" /\ runs[d] < MaxRuns
  BY DEF IInv, UploadsAlone, ReindexResets, Busy
<1>2. /\ \A e \in Docs : runs'[e] = IF e = d THEN runs[d] + 1 ELSE runs[e]
      /\ \A e \in Docs, m \in RunIds :
           pc'[e][m] = IF e = d /\ m = runs[d] + 1 THEN "downloading" ELSE pc[e][m]
      /\ runs[d] \in Nat /\ RunIds \subseteq Nat
  BY <1>1, Spawned DEF ReindexResets, IInv, Stages, Writing
<1>3. \A e \in Docs : row'[e] = IF e = d THEN After(d, "parsing") ELSE row[e]
  BY DEF ReindexResets, UpdateStatus, After, IInv, TypeOK
<1>4. /\ UNCHANGED <<file, blank, chunks>>
      /\ \A e \in Docs : ~overlapped'[e] => ~overlapped[e] /\ (e = d => row[d] \in {"ready", "error"})
  BY DEF ReindexResets, IInv, TypeOK
<1>5. UploadsAlone'
  BY <1>1, <1>2, <1>3, <1>4, LeavingKeepsUploads DEF ReindexResets, After
<1>6. Numbered'
  <2>. SUFFICES ASSUME NEW e \in Docs, NEW m \in RunIds, m > runs'[e]
                PROVE  pc'[e][m] = "unborn"
    BY DEF Numbered
  <2>1. CASE e = d
    <3>1. m > runs[d] + 1
      BY <1>2, <2>1
    <3>2. m > runs[d] /\ m # runs[d] + 1
      BY <1>2, <3>1
    <3>. QED
      BY <1>2, <2>1, <3>2 DEF IInv, Numbered
  <2>2. CASE e # d
    BY <1>2, <2>2 DEF IInv, Numbered
  <2>. QED
    BY <2>1, <2>2
<1>7. NoOrphanChunks'
  BY <1>3, <1>4 DEF IInv, NoOrphanChunks, Exists, After
<1>8. ASSUME NEW e \in Docs, ~overlapped'[e]
      PROVE  NewestWrites(e)'
  <2>1. NewestWrites(e)
    BY <1>4, <1>8 DEF IInv
  <2>2. CASE e = d
    <3>1. row[d] \in {"ready", "error"} /\ row'[d] = "parsing"
      BY <1>3, <1>4, <1>8, <2>2 DEF After, Exists
    <3>2. \A m \in RunIds : pc[d][m] \notin Writing
      BY <2>1, <2>2, <3>1 DEF NewestWrites
    <3>. QED
      BY <1>2, <2>2, <3>1, <3>2 DEF NewestWrites, Writing
  <2>3. CASE e # d
    BY <1>2, <1>3, <1>4, <2>1, <2>3 DEF NewestWrites, Exists
  <2>. QED
    BY <2>2, <2>3
<1>. QED
  BY <1>5, <1>6, <1>7, <1>8 DEF IInv

\* A deleted document keeps its runs, which find neither row nor chunks.
LEMMA DeleteStep ==
  ASSUME IInv, TypeOK', NEW c \in Clients, NEW d \in Docs, DeleteRow(c, d)
  PROVE  IInv'
<1>1. row[d] # "absent"
  BY DEF IInv, UploadsAlone, DeleteRow, Busy
<1>2. \A e \in Docs : /\ row'[e] = IF e = d THEN "deleted" ELSE row[e]
                      /\ chunks'[e] = IF e = d THEN 0 ELSE chunks[e]
  BY DEF DeleteRow, IInv, TypeOK
<1>3. UNCHANGED <<file, blank, runs, pc, overlapped>>
  BY DEF DeleteRow
<1>4. UploadsAlone'
  BY <1>1, <1>2, <1>3, LeavingKeepsUploads DEF DeleteRow
<1>5. Numbered' /\ NoOrphanChunks'
  BY <1>2, <1>3 DEF IInv, Numbered, NoOrphanChunks, Exists
<1>6. \A e \in Docs : ~overlapped'[e] => NewestWrites(e)'
  BY <1>2, <1>3 DEF IInv, NewestWrites, Exists
<1>. QED
  BY <1>4, <1>5, <1>6 DEF IInv

\* A step of a request preserves the invariant.
LEMMA RequestStep ==
  ASSUME IInv, NEW c \in Clients, NEW d \in Docs, Request(c, d)
  PROVE  IInv'
<1>1. TypeOK'
  BY RequestTyped DEF IInv
<1>. QED
  BY <1>1, QuietRequestStep, UploadStep, ReindexStep, DeleteStep DEF Request

-----------------------------------------------------------------------------
(* The knowledge base, faults, and all steps. *)

\* The knowledge base is only posted to.
LEMMA KbStep ==
  ASSUME IInv, NEW d \in Docs, NEW n \in RunIds, KbIndexes(d, n) \/ KbDrops(d, n)
  PROVE  IInv'
<1>1. TypeOK'
  BY OthersTyped DEF IInv
<1>2. UNCHANGED <<row, file, blank, chunks, runs, pc, client, overlapped>>
  BY DEF KbIndexes, KbDrops
<1>. QED
  BY <1>1, <1>2
     DEF IInv, UploadsAlone, InRequest, Numbered, NoOrphanChunks, NewestWrites, Exists

\* A failed call of a run takes it to the report of the failure, or ends it.
LEMMA DbFailsStep ==
  ASSUME IInv, NEW d \in Docs, NEW n \in RunIds, DbFails(d, n)
  PROVE  IInv'
<1>1. TypeOK /\ TypeOK'
  BY OthersTyped DEF IInv
<1>. DEFINE stage == AfterDbError(d, n)
<1>2. stage \in {"failing_again", "failing", "ended"}
  BY DEF AfterDbError
<1>3. Effect(d, n, row[d], chunks[d], stage)
  BY <1>1, Effects DEF DbFails
<1>4. pc[d][n] \in Writing
  BY DEF DbFails
<1>. HIDE DEF stage
<1>5. Harmless(d, n, row[d], chunks[d], stage)
  BY <1>2, <1>4 DEF Harmless, Writing
<1>. QED
  BY <1>1, <1>3, <1>5, HarmlessPreserves

\* A failed request is over.
LEMMA RequestFailsStep ==
  ASSUME IInv, NEW c \in Clients, RequestFails(c)
  PROVE  IInv'
<1>1. TypeOK'
  BY OthersTyped DEF IInv
<1>2. UNCHANGED <<row, file, blank, chunks, runs, pc, overlapped>>
  BY DEF RequestFails
<1>3. \A a \in Clients, st \in Busy, e \in Docs : InRequest(a, st, e)' => InRequest(a, st, e)
  BY ClientMoves DEF RequestFails, IInv, Busy
<1>4. UploadsAlone'
  BY <1>2, <1>3 DEF IInv, UploadsAlone, Busy
<1>. QED
  BY <1>1, <1>2, <1>4 DEF IInv, Numbered, NoOrphanChunks, NewestWrites, Exists

\* A crash ends requests and runs.
LEMMA CrashStep ==
  ASSUME IInv, Crash
  PROVE  IInv'
<1>1. TypeOK'
  BY OthersTyped DEF IInv
<1>2. UNCHANGED <<row, file, blank, chunks, runs, overlapped>>
  BY DEF Crash
<1>3. \A a \in Clients, st \in Busy, e \in Docs : ~InRequest(a, st, e)'
  <2>. SUFFICES ASSUME NEW a \in Clients, NEW st \in Busy, NEW e \in Docs, client'[a] = [at |-> st, doc |-> e]
                PROVE  FALSE
    BY DEF InRequest
  <2>1. client'[a] = Idle
    BY DEF Crash
  <2>2. Idle.at = "idle" /\ [at |-> st, doc |-> e].at = st /\ st # "idle"
    BY DEF Idle, Busy
  <2>. QED
    BY <2>1, <2>2
<1>4. UploadsAlone'
  BY <1>2, <1>3 DEF IInv, UploadsAlone, Busy
<1>5. \A d \in Docs, n \in RunIds :
        pc'[d][n] = IF pc[d][n] = "unborn" THEN "unborn" ELSE "ended"
  BY DEF Crash
<1>6. Numbered' /\ NoOrphanChunks'
  BY <1>2, <1>5 DEF IInv, Numbered, NoOrphanChunks, Exists
<1>7. \A d \in Docs : ~overlapped'[d] => NewestWrites(d)'
  BY <1>2, <1>5 DEF IInv, NewestWrites, Exists, Writing
<1>. QED
  BY <1>1, <1>4, <1>6, <1>7 DEF IInv

\* The invariant holds initially.
LEMMA InitIInv == Init => IInv
<1>. SUFFICES ASSUME Init PROVE IInv
  OBVIOUS
<1>1. TypeOK
  BY PipelineAssumption DEF Init, TypeOK, Idle
<1>2. UploadsAlone
  <2>1. \A a \in Clients, st \in Busy, e \in Docs : ~InRequest(a, st, e)
    <3>. SUFFICES ASSUME NEW a \in Clients, NEW st \in Busy, NEW e \in Docs, client[a] = [at |-> st, doc |-> e]
                  PROVE  FALSE
      BY DEF InRequest
    <3>1. client[a] = Idle
      BY DEF Init
    <3>2. Idle.at = "idle" /\ [at |-> st, doc |-> e].at = st /\ st # "idle"
      BY DEF Idle, Busy
    <3>. QED
      BY <3>1, <3>2
  <2>. QED
    BY <2>1 DEF Init, UploadsAlone, Busy
<1>3. Numbered /\ NoOrphanChunks
  BY DEF Init, Numbered, NoOrphanChunks
<1>4. \A d \in Docs : NewestWrites(d)
  BY DEF Init, NewestWrites, Writing
<1>. QED
  BY <1>1, <1>2, <1>3, <1>4 DEF IInv

\* Requests, runs, the knowledge base and faults are all the steps there are.
LEMMA IInvStep == IInv /\ [Next]_vars => IInv'
<1>. SUFFICES ASSUME IInv, [Next]_vars PROVE IInv'
  OBVIOUS
<1>1. ASSUME NEW c \in Clients, NEW d \in Docs, Request(c, d) PROVE IInv'
  BY <1>1, RequestStep
<1>2. ASSUME NEW d \in Docs, NEW n \in RunIds, Run(d, n) PROVE IInv'
  BY <1>2, RunStep
<1>3. ASSUME NEW d \in Docs, NEW n \in RunIds, KbIndexes(d, n) \/ KbDrops(d, n) PROVE IInv'
  BY <1>3, KbStep
<1>4. ASSUME NEW d \in Docs, NEW n \in RunIds, DbFails(d, n) PROVE IInv'
  BY <1>4, DbFailsStep
<1>5. ASSUME NEW c \in Clients, RequestFails(c) PROVE IInv'
  BY <1>5, RequestFailsStep
<1>6. CASE Crash
  BY <1>6, CrashStep
<1>7. CASE UNCHANGED vars
  BY <1>7 DEF vars, IInv, TypeOK, UploadsAlone, InRequest, Numbered, NoOrphanChunks, NewestWrites, Exists
<1>. QED
  BY <1>1, <1>2, <1>3, <1>4, <1>5, <1>6, <1>7 DEF Next

-----------------------------------------------------------------------------
(* What readers find, as long as nothing fails.                            *)
(*                                                                         *)
(* When reindexes overlap, one run may clear what another inserted and is  *)
(* about to announce.  The run that cleared is then still to insert, and   *)
(* nothing but a fault can keep it from doing so; likewise a file that is  *)
(* gone has a deletion on its way to the row.                              *)

\* A document that is ready, or is about to be, lacks chunks only for a while.
Refilled(d) ==
  /\ ~blank[d] /\ Exists(d) /\ chunks[d] = 0
  /\ row[d] = "ready" \/ \E n \in RunIds : pc[d][n] = "readying"
  => \E m \in RunIds : pc[d][m] = "inserting"

\* The file goes only just before the row.
FileKept(d) ==
  Exists(d) /\ ~file[d] => \E c \in Clients : InRequest(c, "deleting_row", d)

Kept == \A d \in Docs : Refilled(d) /\ FileKept(d)
KeptUnlessFault == faults = 0 => Kept

\* What a step of a run leaves: it clears to insert, and is done inserting when it has.
Refilling(d, n, s, k, stage) ==
  /\ s = "ready" => row[d] = "ready" \/ pc[d][n] = "readying"
  /\ s \notin {"absent", "deleted"} => Exists(d)
  /\ stage = "readying" => blank[d] \/ k # 0
  /\ k = 0 /\ chunks[d] # 0 => stage = "inserting"
  /\ pc[d][n] = "inserting" /\ stage # "inserting" => blank[d] \/ k # 0

\* Such a step leaves no ready document without chunks for good.
LEMMA RefillingPreserves ==
  ASSUME Kept, NEW d \in Docs, NEW n \in RunIds, NEW s, NEW k, NEW stage,
         Effect(d, n, s, k, stage), Refilling(d, n, s, k, stage)
  PROVE  Kept'
<1>. SUFFICES ASSUME NEW e \in Docs PROVE Refilled(e)' /\ FileKept(e)'
  BY DEF Kept
<1>1. FileKept(e)'
  BY DEF Kept, FileKept, Effect, Refilling, Exists, InRequest
<1>2. CASE e # d
  BY <1>1, <1>2 DEF Kept, Refilled, Effect, Exists
<1>3. CASE e = d
  <2>. SUFFICES ASSUME ~blank[d], Exists(d)', k = 0,
                       s = "ready" \/ \E m \in RunIds : pc'[d][m] = "readying"
                PROVE  \E m \in RunIds : pc'[d][m] = "inserting"
    BY <1>1, <1>3 DEF Refilled, Effect
  <2>1. CASE chunks[d] # 0
    BY <2>1 DEF Refilling, Effect
  <2>2. CASE chunks[d] = 0
    <3>1. Exists(d)
      BY DEF Refilling, Effect, Exists
    <3>2. row[d] = "ready" \/ \E m \in RunIds : pc[d][m] = "readying"
      BY DEF Refilling, Effect
    <3>3. PICK m \in RunIds : pc[d][m] = "inserting"
      BY <2>2, <3>1, <3>2 DEF Kept, Refilled
    <3>. QED
      BY <3>3 DEF Refilling, Effect
  <2>. QED
    BY <2>1, <2>2
<1>. QED
  BY <1>2, <1>3

\* Every step of a run is one, but for failed calls.
LEMMA RunKeeps ==
  ASSUME IInv, Kept, NEW d \in Docs, NEW n \in RunIds, Run(d, n)
  PROVE  Kept'
<1>0. TypeOK /\ n \in Nat \ {0}
  BY PipelineAssumption DEF IInv, RunIds
<1>1. CASE RunDownloads(d, n)
  <2>1. Effect(d, n, row[d], chunks[d], "starting")
    BY <1>0, <1>1, Effects DEF RunDownloads, Statuses
  <2>. QED
    BY <1>1, <2>1, RefillingPreserves DEF RunDownloads, Refilling, Exists
<1>2. CASE DownloadFails(d, n)
  <2>1. Effect(d, n, After(d, "error"), chunks[d], "ended")
    BY <1>0, <1>2, Effects DEF DownloadFails, UpdateError, Statuses
  <2>. QED
    BY <1>2, <2>1, RefillingPreserves DEF DownloadFails, Refilling, Exists, After
<1>3. CASE RunMarksParsing(d, n)
  <2>1. Effect(d, n, After(d, "parsing"), chunks[d], "parsing")
    BY <1>0, <1>3, Effects DEF RunMarksParsing, Statuses
  <2>. QED
    BY <1>3, <2>1, RefillingPreserves DEF RunMarksParsing, Refilling, Exists, After
<1>4. CASE RunParses(d, n)
  <2>1. Effect(d, n, row[d], chunks[d], "clearing")
    BY <1>0, <1>4, Effects DEF RunParses, Statuses
  <2>. QED
    BY <1>4, <2>1, RefillingPreserves DEF RunParses, Refilling, Exists
<1>5. CASE ParseFails(d, n)
  <2>1. Effect(d, n, row[d], chunks[d], "failing")
    BY <1>0, <1>5, Effects DEF ParseFails, Statuses
  <2>. QED
    BY <1>5, <2>1, RefillingPreserves DEF ParseFails, Refilling, Exists
<1>6. CASE RunClears(d, n)
  <2>1. Effect(d, n, row[d], 0, "inserting")
    BY <1>0, <1>6, Effects DEF RunClears, Statuses
  <2>. QED
    BY <1>6, <2>1, RefillingPreserves DEF RunClears, Refilling, Exists
<1>7. CASE RunInserts(d, n)
  <2>1. Effect(d, n, row[d], n, "readying")
    BY <1>0, <1>7, Effects DEF RunInserts, Statuses
  <2>2. Refilling(d, n, row[d], n, "readying")
    BY <1>0, <1>7 DEF RunInserts, Refilling, Exists
  <2>. QED
    BY <2>1, <2>2, RefillingPreserves
<1>8. CASE InsertNothing(d, n)
  <2>1. Effect(d, n, row[d], chunks[d], "readying")
    BY <1>0, <1>8, Effects DEF InsertNothing, Statuses
  <2>. QED
    BY <1>8, <2>1, RefillingPreserves DEF InsertNothing, Refilling, Exists
<1>9. CASE InsertRejected(d, n)
  <2>1. Effect(d, n, row[d], chunks[d], "failing")
    BY <1>0, <1>9, Effects DEF InsertRejected, Statuses
  <2>2. CASE Exists(d)
    BY <1>9, <2>1, <2>2, RefillingPreserves DEF InsertRejected, CanInsert, Refilling, Exists
  <2>3. CASE ~Exists(d)
    <3>1. \A e \in Docs : Refilled(e)'
      BY <2>1, <2>3 DEF Kept, Refilled, Effect, Exists
    <3>2. \A e \in Docs : FileKept(e)'
      BY <2>1, <2>3 DEF Kept, FileKept, Effect, Exists, InRequest
    <3>. QED
      BY <3>1, <3>2 DEF Kept
  <2>. QED
    BY <2>2, <2>3
<1>10. CASE RunReady(d, n)
  <2>. DEFINE stage == IF blank[d] THEN "ended" ELSE "indexing"
  <2>1. Effect(d, n, After(d, "ready"), chunks[d], stage)
    BY <1>0, <1>10, Effects DEF RunReady, Statuses
  <2>2. Refilling(d, n, After(d, "ready"), chunks[d], stage)
    BY <1>10 DEF RunReady, Refilling, Exists, After
  <2>. HIDE DEF stage
  <2>. QED
    BY <2>1, <2>2, RefillingPreserves
<1>11. CASE RunEnds(d, n)
  <2>1. Effect(d, n, row[d], chunks[d], "ended")
    BY <1>0, <1>11, Effects DEF RunEnds, Statuses
  <2>. QED
    BY <1>11, <2>1, RefillingPreserves DEF RunEnds, Refilling, Exists
<1>12. CASE ReportFailure(d, n)
  <2>1. Effect(d, n, After(d, "error"), chunks[d], "ended")
    BY <1>0, <1>12, Effects DEF ReportFailure, UpdateError, Statuses
  <2>. QED
    BY <1>12, <2>1, RefillingPreserves DEF ReportFailure, Refilling, Exists, After
<1>. QED
  BY <1>1, <1>2, <1>3, <1>4, <1>5, <1>6, <1>7, <1>8, <1>9, <1>10, <1>11, <1>12 DEF Run

\* Requests take a file only on the way to the row, and no chunks but with the row.
LEMMA RequestKeeps ==
  ASSUME IInv, Kept, NEW c \in Clients, NEW d \in Docs, Request(c, d)
  PROVE  Kept'
<1>. USE DEF Kept
<1>0. TypeOK
  BY DEF IInv
<1>1. ASSUME UNCHANGED <<row, blank, chunks, pc>>
      PROVE  \A e \in Docs : Refilled(e)'
  BY <1>1 DEF Refilled, Exists
<1>2. CASE UploadStores(c, d) \/ ReindexReads(c, d) \/ DeleteReads(c, d)
  <2>1. UNCHANGED <<row, blank, chunks, pc>> /\ \A e \in Docs : file[e] => file'[e]
    BY <1>0, <1>2 DEF UploadStores, ReindexReads, DeleteReads, TypeOK
  <2>2. PICK stage \in {"uploading", "resetting", "deleting_file"} :
          client[c] = Idle /\ client' = [client EXCEPT ![c] = [at |-> stage, doc |-> d]]
    BY <1>2 DEF UploadStores, ReindexReads, DeleteReads, EnterRequest
  <2>3. \A e \in Docs : ~InRequest(c, "deleting_row", e)
    <3>. SUFFICES ASSUME NEW e \in Docs, client[c] = [at |-> "deleting_row", doc |-> e] PROVE FALSE
      BY DEF InRequest
    <3>1. Idle.at = "idle" /\ [at |-> "deleting_row", doc |-> e].at = "deleting_row"
      BY DEF Idle
    <3>. QED
      BY <2>2, <3>1
  <2>4. \A a \in Clients, e \in Docs : InRequest(a, "deleting_row", e) => InRequest(a, "deleting_row", e)'
    <3>1. stage \in Busy /\ "deleting_row" \in Busy
      BY DEF Busy
    <3>2. client' = [client EXCEPT ![c] = [at |-> stage, doc |-> d]]
      BY <2>2
    <3>3. \A b \in Clients, st \in Busy, e \in Docs :
            InRequest(b, st, e)' <=> IF b = c THEN st = stage /\ e = d ELSE InRequest(b, st, e)
      BY <1>0, <3>1, <3>2, ClientMoves
    <3>. QED
      BY <2>3, <3>1, <3>3
  <2>5. \A e \in Docs : FileKept(e)'
    BY <2>1, <2>4 DEF FileKept, Exists
  <2>. QED
    BY <1>1, <2>1, <2>5
<1>3. CASE DeleteFile(c, d)
  <2>1. UNCHANGED <<row, blank, chunks, pc>> /\ \A e \in Docs \ {d} : file'[e] = file[e]
    BY <1>0, <1>3 DEF DeleteFile, TypeOK
  <2>2. \A a \in Clients, e \in Docs :
          InRequest(a, "deleting_row", e)' <=> IF a = c THEN e = d ELSE InRequest(a, "deleting_row", e)
    <3>1. PICK stage \in Busy :
            stage = "deleting_row" /\ client' = [client EXCEPT ![c] = [at |-> stage, doc |-> d]]
      BY <1>3 DEF DeleteFile, Busy
    <3>2. client' = [client EXCEPT ![c] = [at |-> stage, doc |-> d]]
      BY <3>1
    <3>3. \A b \in Clients, st \in Busy, e \in Docs :
            InRequest(b, st, e)' <=> IF b = c THEN st = stage /\ e = d ELSE InRequest(b, st, e)
      BY <1>0, <3>2, ClientMoves
    <3>. QED
      BY <3>1, <3>3
  <2>3. \A e \in Docs : ~InRequest(c, "deleting_row", e)
    <3>. SUFFICES ASSUME NEW e \in Docs, client[c] = [at |-> "deleting_row", doc |-> e] PROVE FALSE
      BY DEF InRequest
    <3>1. [at |-> "deleting_row", doc |-> e].at = "deleting_row"
          /\ [at |-> "deleting_file", doc |-> d].at = "deleting_file"
      OBVIOUS
    <3>. QED
      BY <1>3, <3>1 DEF DeleteFile, InRequest
  <2>4. \A e \in Docs : FileKept(e)'
    BY <2>1, <2>2, <2>3 DEF FileKept, Exists
  <2>. QED
    BY <1>1, <2>1, <2>4
<1>4. CASE UploadInserts(c, d)
  <2>1. row[d] = "absent" /\ runs[d] = 0 /\ file[d]
    BY <1>4 DEF IInv, UploadsAlone, UploadInserts
  <2>2. /\ \A e \in Docs, m \in RunIds : pc'[e][m] = IF e = d /\ m = 1 THEN "starting" ELSE pc[e][m]
        /\ RunIds \subseteq Nat
    BY <1>0, <1>4, <2>1, Spawned, PipelineAssumption DEF UploadInserts, Stages, Writing
  <2>3. \A m \in RunIds : pc[d][m] = "unborn"
    BY <2>1, PipelineAssumption DEF IInv, Numbered, RunIds
  <2>4. \A e \in Docs : row'[e] = IF e = d THEN "pending" ELSE row[e]
    BY <1>0, <1>4 DEF UploadInserts, insert_document, TypeOK
  <2>5. UNCHANGED <<file, blank, chunks>>
    BY <1>4 DEF UploadInserts
  <2>6. \A e \in Docs : Refilled(e)'
    <3>. SUFFICES ASSUME NEW e \in Docs PROVE Refilled(e)'
      OBVIOUS
    <3>1. CASE e = d
      BY <2>2, <2>3, <2>4, <3>1 DEF Refilled
    <3>2. CASE e # d
      BY <2>2, <2>4, <2>5, <3>2 DEF Refilled, Exists
    <3>. QED
      BY <3>1, <3>2
  <2>7. \A a \in Clients, e \in Docs : InRequest(a, "deleting_row", e) => a # c
    <3>. SUFFICES ASSUME NEW e \in Docs, InRequest(c, "deleting_row", e) PROVE FALSE
      OBVIOUS
    <3>1. [at |-> "deleting_row", doc |-> e].at = "deleting_row"
          /\ [at |-> "uploading", doc |-> d].at = "uploading"
      OBVIOUS
    <3>. QED
      BY <1>4, <3>1 DEF UploadInserts, InRequest
  <2>8. \A a \in Clients, e \in Docs : InRequest(a, "deleting_row", e) => InRequest(a, "deleting_row", e)'
    BY <1>0, <1>4, <2>7, ClientMoves DEF UploadInserts, Busy
  <2>9. \A e \in Docs : FileKept(e)'
    BY <2>1, <2>4, <2>5, <2>8 DEF FileKept, Exists
  <2>. QED
    BY <2>6, <2>9
<1>5. CASE ReindexResets(c, d)
  <2>1. runs[d] < MaxRuns
    BY <1>5 DEF ReindexResets
  <2>2. /\ \A e \in Docs, m \in RunIds :
             pc'[e][m] = IF e = d /\ m = runs[d] + 1 THEN "downloading" ELSE pc[e][m]
        /\ runs[d] \in Nat /\ RunIds \subseteq Nat
    BY <1>0, <1>5, <2>1, Spawned DEF ReindexResets, Stages, Writing
  <2>3. \A m \in RunIds : m = runs[d] + 1 => pc[d][m] = "unborn"
    BY <2>2 DEF IInv, Numbered
  <2>4. \A e \in Docs : row'[e] = IF e = d THEN After(d, "parsing") ELSE row[e]
    BY <1>0, <1>5 DEF ReindexResets, UpdateStatus, After, TypeOK
  <2>5. UNCHANGED <<file, blank, chunks>>
    BY <1>5 DEF ReindexResets
  <2>6. \A e \in Docs, m \in RunIds :
          /\ pc'[e][m] = "readying" <=> pc[e][m] = "readying"
          /\ pc'[e][m] = "inserting" <=> pc[e][m] = "inserting"
    BY <2>2, <2>3
  <2>7. \A e \in Docs : (Exists(e)' <=> Exists(e)) /\ (row'[e] = "ready" => row[e] = "ready")
    BY <2>4 DEF After, Exists
  <2>8. \A e \in Docs : Refilled(e)'
    BY <2>5, <2>6, <2>7 DEF Refilled
  <2>9. \A a \in Clients, e \in Docs : InRequest(a, "deleting_row", e) => a # c
    <3>. SUFFICES ASSUME NEW e \in Docs, InRequest(c, "deleting_row", e) PROVE FALSE
      OBVIOUS
    <3>1. [at |-> "deleting_row", doc |-> e].at = "deleting_row"
          /\ [at |-> "resetting", doc |-> d].at = "resetting"
      OBVIOUS
    <3>. QED
      BY <1>5, <3>1 DEF ReindexResets, InRequest
  <2>10. \A a \in Clients, e \in Docs : InRequest(a, "deleting_row", e) => InRequest(a, "deleting_row", e)'
    BY <1>0, <1>5, <2>9, ClientMoves DEF ReindexResets, Busy
  <2>11. \A e \in Docs : FileKept(e)'
    BY <2>5, <2>7, <2>10 DEF FileKept
  <2>. QED
    BY <2>8, <2>11
<1>6. CASE DeleteRow(c, d)
  <2>1. \A e \in Docs : /\ row'[e] = IF e = d THEN "deleted" ELSE row[e]
                        /\ e # d => chunks'[e] = chunks[e]
    BY <1>0, <1>6 DEF DeleteRow, TypeOK
  <2>2. UNCHANGED <<file, blank, pc>>
    BY <1>6 DEF DeleteRow
  <2>3. \A e \in Docs : Refilled(e)'
    BY <2>1, <2>2 DEF Refilled, Exists
  <2>4. \A a \in Clients, e \in Docs \ {d} :
          InRequest(a, "deleting_row", e) => a # c
    <3>. SUFFICES ASSUME NEW e \in Docs \ {d}, InRequest(c, "deleting_row", e) PROVE FALSE
      OBVIOUS
    <3>1. [at |-> "deleting_row", doc |-> e].doc = e /\ [at |-> "deleting_row", doc |-> d].doc = d
      OBVIOUS
    <3>. QED
      BY <1>6, <3>1 DEF DeleteRow, InRequest
  <2>5. \A a \in Clients, e \in Docs \ {d} :
          InRequest(a, "deleting_row", e) => InRequest(a, "deleting_row", e)'
    BY <1>0, <1>6, <2>4, ClientMoves DEF DeleteRow, Busy
  <2>6. \A e \in Docs : FileKept(e)'
    BY <2>1, <2>2, <2>5 DEF FileKept, Exists
  <2>. QED
    BY <2>3, <2>6
<1>. QED
  BY <1>2, <1>3, <1>4, <1>5, <1>6 DEF Request

\* While nothing fails, every step keeps ready documents readable.
LEMMA KeptStep == IInv /\ KeptUnlessFault /\ [Next]_vars => KeptUnlessFault'
<1>. SUFFICES ASSUME IInv, KeptUnlessFault, [Next]_vars, faults' = 0 PROVE Kept'
  BY DEF KeptUnlessFault
<1>0. faults \in Nat
  BY PipelineAssumption DEF IInv, TypeOK
<1>1. ASSUME Fault PROVE FALSE
  BY <1>0, <1>1 DEF Fault
<1>2. ASSUME NEW c \in Clients, NEW d \in Docs, Request(c, d) PROVE Kept'
  <2>1. UNCHANGED faults
    BY <1>2 DEF Request, UploadStores, UploadInserts, ReindexReads, ReindexResets, DeleteReads,
                DeleteFile, DeleteRow
  <2>. QED
    BY <1>2, <2>1, RequestKeeps DEF KeptUnlessFault
<1>3. ASSUME NEW d \in Docs, NEW n \in RunIds, Run(d, n) PROVE Kept'
  <2>1. UNCHANGED faults
    BY <1>3 DEF Run, RunDownloads, DownloadFails, RunMarksParsing, RunParses, ParseFails, RunClears,
                RunInserts, InsertNothing, InsertRejected, RunReady, RunEnds, ReportFailure
  <2>. QED
    BY <1>3, <2>1, RunKeeps DEF KeptUnlessFault
<1>4. ASSUME UNCHANGED <<row, file, blank, chunks, pc, client, faults>> PROVE Kept'
  BY <1>4 DEF KeptUnlessFault, Kept, Refilled, FileKept, Exists, InRequest
<1>5. ASSUME NEW d \in Docs, NEW n \in RunIds, KbIndexes(d, n) \/ KbDrops(d, n) PROVE Kept'
  BY <1>4, <1>5 DEF KbIndexes, KbDrops
<1>6. CASE UNCHANGED vars
  BY <1>4, <1>6 DEF vars
<1>7. CASE \/ \E d \in Docs, n \in RunIds : DbFails(d, n)
           \/ \E c \in Clients : RequestFails(c)
           \/ Crash
  BY <1>1, <1>7 DEF DbFails, RequestFails, Crash
<1>. QED
  BY <1>2, <1>3, <1>5, <1>6, <1>7 DEF Next

-----------------------------------------------------------------------------
(* The theorems. *)

\* The inductive invariant holds in every reachable state.
THEOREM Invariance == Spec => []IInv
BY InitIInv, IInvStep, PTL DEF Spec

\* Every variable keeps its type.
THEOREM TypeCorrect == Spec => []TypeOK
<1>1. IInv => TypeOK
  BY DEF IInv
<1>. QED
  BY <1>1, Invariance, PTL

\* Chunks never outlive their document.
THEOREM NoChunksAreOrphans == Spec => []NoOrphanChunks
<1>1. IInv => NoOrphanChunks
  BY DEF IInv
<1>. QED
  BY <1>1, Invariance, PTL

\* Unless reindexes overlapped, a ready document has the chunks of its newest
\* run, through any number of crashes and failed database calls.
THEOREM ReadyDocumentsAreNewest == Spec => []ReadyHasNewestChunks
<1>1. IInv => ReadyHasNewestChunks
  BY DEF IInv, NewestWrites, ReadyHasNewestChunks
<1>. QED
  BY <1>1, Invariance, PTL

\* As long as nothing fails, a ready document that is not being written shows its text to
\* readers, and one that is not being deleted can be downloaded, however many reindexes
\* and deletions overlap.
THEOREM ReadyDocumentsAreReadable == Spec => []ReadyIsReadable
<1>1. Init => KeptUnlessFault
  BY DEF Init, KeptUnlessFault, Kept, Refilled, FileKept, Exists
<1>2. IInv /\ KeptUnlessFault => ReadyIsReadable
  <2>. SUFFICES ASSUME IInv, Kept, NEW d \in Docs, row[d] = "ready"
                PROVE  /\ Writers(d) = {} /\ ~blank[d] =>
                            get_document_content(d) = "text" /\ get_document_endpoint(d).chunks # {}
                       /\ (\A c \in Clients : ~InRequest(c, "deleting_row", d)) =>
                            download_document(d) = "file"
    BY DEF KeptUnlessFault, ReadyIsReadable, list_documents, list_project_documents, Exists
  <2>1. Exists(d)
    BY DEF Exists
  <2>2. get_document(d).found /\ get_document(d).chunks = get_chunks(d)
    BY <2>1 DEF get_document
  <2>3. get_document_endpoint(d) = get_document(d)
    BY <2>2 DEF get_document_endpoint
  <2>4. ASSUME Writers(d) = {}, ~blank[d]
        PROVE  get_chunks(d) # {}
    <3>1. \A n \in RunIds : pc[d][n] # "inserting"
      BY <2>4 DEF Writers, Writing
    <3>2. chunks[d] # 0
      BY <2>1, <2>4, <3>1 DEF Kept, Refilled
    <3>3. chunks[d] \in RunIds
      BY <3>2, PipelineAssumption DEF IInv, TypeOK, RunIds
    <3>. QED
      BY <3>3 DEF get_chunks
  <2>5. ASSUME Writers(d) = {}, ~blank[d]
        PROVE  get_document_content(d) = "text"
    BY <2>1, <2>2, <2>4, <2>5 DEF get_document_content
  <2>6. ASSUME \A c \in Clients : ~InRequest(c, "deleting_row", d)
        PROVE  download_document(d) = "file"
    BY <2>1, <2>2, <2>6 DEF download_document, Kept, FileKept
  <2>. QED
    BY <2>2, <2>3, <2>4, <2>5, <2>6
<1>. QED
  BY <1>1, <1>2, Invariance, InitIInv, IInvStep, KeptStep, PTL DEF Spec

-----------------------------------------------------------------------------
(* That documents settle.                                                  *)
(*                                                                         *)
(* A document waits in the statuses pending and parsing for a run that is  *)
(* to settle it.  There is one, until something fails, and each of its     *)
(* steps takes it closer to its end, which is never passed without the     *)
(* status being settled.  What is left of DocumentSettles is that the      *)
(* steps are taken.                                                        *)

Unsettled == {"pending", "parsing"}

\* How many stages are before a run, at most, those of a failure included.
StagesLeft(stage) ==
  CASE stage = "unborn"        -> 10
    [] stage = "downloading"   -> 9
    [] stage = "starting"      -> 8
    [] stage = "parsing"       -> 7
    [] stage = "clearing"      -> 6
    [] stage = "inserting"     -> 5
    [] stage = "readying"      -> 4
    [] stage = "failing"       -> 3
    [] stage = "failing_again" -> 2
    [] stage = "indexing"      -> 1
    [] stage = "ended"         -> 0

SomeoneSettles == faults = 0 => \A d \in Docs : row[d] \in Unsettled => Writers(d) # {}

RunsGoForward ==
  \A d \in Docs, n \in RunIds :
    pc'[d][n] = pc[d][n] \/ StagesLeft(pc'[d][n]) < StagesLeft(pc[d][n])

\* A step of a run takes it forward, and if it was to settle the document it
\* does, or still is.
LEMMA RunGoesForward ==
  ASSUME TypeOK, NEW d \in Docs, NEW n \in RunIds, Run(d, n)
  PROVE  \E stage \in Stages :
           /\ Goto(d, n, stage)
           /\ StagesLeft(stage) < StagesLeft(pc[d][n])
           /\ stage \in Writing \/ row'[d] \notin Unsettled \/ (pc[d][n] \notin Writing /\ row' = row)
           /\ \A e \in Docs \ {d} : row'[e] = row[e]
           /\ UNCHANGED faults
<1>. USE DEF Stages, Writing, StagesLeft, Unsettled
<1>1. /\ UpdateStatus(d, "parsing") => \A e \in Docs \ {d} : row'[e] = row[e]
      /\ \A s \in {"ready", "error"} :
           UpdateStatus(d, s) => row'[d] \notin Unsettled /\ \A e \in Docs \ {d} : row'[e] = row[e]
  BY DEF UpdateStatus, Exists, TypeOK
<1>2. CASE RunDownloads(d, n)
  <2>. WITNESS "starting" \in Stages
  <2>. QED  BY <1>2 DEF RunDownloads
<1>3. CASE DownloadFails(d, n)
  <2>1. UpdateStatus(d, "error")
    BY <1>3 DEF DownloadFails, UpdateError
  <2>2. row'[d] \notin Unsettled /\ \A e \in Docs \ {d} : row'[e] = row[e]
    BY <1>1, <2>1
  <2>. WITNESS "ended" \in Stages
  <2>. QED  BY <1>3, <2>2 DEF DownloadFails
<1>4. CASE RunMarksParsing(d, n)
  <2>1. \A e \in Docs \ {d} : row'[e] = row[e]
    BY <1>1, <1>4 DEF RunMarksParsing
  <2>. WITNESS "parsing" \in Stages
  <2>. QED  BY <1>4, <2>1 DEF RunMarksParsing
<1>5. CASE RunParses(d, n)
  <2>. WITNESS "clearing" \in Stages
  <2>. QED  BY <1>5 DEF RunParses
<1>6. CASE ParseFails(d, n) \/ InsertRejected(d, n)
  <2>. WITNESS "failing" \in Stages
  <2>. QED  BY <1>6 DEF ParseFails, InsertRejected
<1>7. CASE RunClears(d, n)
  <2>. WITNESS "inserting" \in Stages
  <2>. QED  BY <1>7 DEF RunClears
<1>8. CASE RunInserts(d, n) \/ InsertNothing(d, n)
  <2>. WITNESS "readying" \in Stages
  <2>. QED  BY <1>8 DEF RunInserts, InsertNothing
<1>9. CASE RunReady(d, n)
  <2>1. PICK stage \in {"ended", "indexing"} : Goto(d, n, stage)
    BY <1>9 DEF RunReady
  <2>2. UpdateStatus(d, "ready")
    BY <1>9 DEF RunReady
  <2>3. row'[d] \notin Unsettled /\ \A e \in Docs \ {d} : row'[e] = row[e]
    BY <1>1, <2>2
  <2>. WITNESS stage \in Stages
  <2>. QED  BY <1>9, <2>1, <2>3 DEF RunReady
<1>10. CASE RunEnds(d, n)
  <2>. WITNESS "ended" \in Stages
  <2>. QED  BY <1>10 DEF RunEnds
<1>11. CASE ReportFailure(d, n)
  <2>1. UpdateStatus(d, "error")
    BY <1>11 DEF ReportFailure, UpdateError
  <2>2. row'[d] \notin Unsettled /\ \A e \in Docs \ {d} : row'[e] = row[e]
    BY <1>1, <2>1
  <2>. WITNESS "ended" \in Stages
  <2>. QED  BY <1>11, <2>2 DEF ReportFailure
<1>. QED
  BY <1>2, <1>3, <1>4, <1>5, <1>6, <1>7, <1>8, <1>9, <1>10, <1>11 DEF Run

\* So somebody is still to settle each document that is not.
LEMMA RunSettles ==
  ASSUME TypeOK, SomeoneSettles, NEW d \in Docs, NEW n \in RunIds, Run(d, n)
  PROVE  SomeoneSettles' /\ RunsGoForward
<1>1. PICK stage \in Stages :
        /\ Goto(d, n, stage)
        /\ StagesLeft(stage) < StagesLeft(pc[d][n])
        /\ stage \in Writing \/ row'[d] \notin Unsettled \/ (pc[d][n] \notin Writing /\ row' = row)
        /\ \A e \in Docs \ {d} : row'[e] = row[e]
        /\ UNCHANGED faults
  BY RunGoesForward
<1>2. \A e \in Docs, m \in RunIds : pc'[e][m] = IF e = d /\ m = n THEN stage ELSE pc[e][m]
  BY <1>1 DEF Goto, TypeOK
<1>3. RunsGoForward
  BY <1>1, <1>2 DEF RunsGoForward
<1>4. ASSUME faults' = 0, NEW e \in Docs, row'[e] \in Unsettled
      PROVE  \E m \in RunIds : pc'[e][m] \in Writing
  <2>1. faults = 0
    BY <1>1, <1>4
  <2>2. CASE e # d
    <3>1. row[e] \in Unsettled
      BY <1>1, <1>4, <2>2
    <3>2. PICK m \in RunIds : pc[e][m] \in Writing
      BY <2>1, <3>1 DEF SomeoneSettles, Writers
    <3>. QED
      BY <1>2, <2>2, <3>2
  <2>3. CASE e = d /\ stage \in Writing
    BY <1>2, <2>3
  <2>4. CASE e = d /\ pc[d][n] \notin Writing /\ row' = row
    <3>1. PICK m \in RunIds : pc[d][m] \in Writing
      BY <1>4, <2>1, <2>4 DEF SomeoneSettles, Writers
    <3>2. m # n
      BY <2>4, <3>1
    <3>. QED
      BY <1>2, <2>4, <3>1, <3>2
  <2>. QED
    BY <1>1, <1>4, <2>2, <2>3, <2>4
<1>. QED
  BY <1>3, <1>4 DEF SomeoneSettles, Writers

\* A request leaves a document unsettled only with a run that is to settle it.
LEMMA RequestSettles ==
  ASSUME IInv, SomeoneSettles, NEW c \in Clients, NEW d \in Docs, Request(c, d)
  PROVE  SomeoneSettles' /\ RunsGoForward
<1>. USE DEF SomeoneSettles, Writers
<1>1. TypeOK
  BY DEF IInv
<1>2. CASE UNCHANGED <<row, pc, faults>>
  BY <1>2 DEF RunsGoForward
<1>3. CASE DeleteRow(c, d)
  <2>1. \A e \in Docs : row'[e] = IF e = d THEN "deleted" ELSE row[e]
    BY <1>1, <1>3 DEF DeleteRow, TypeOK
  <2>. QED
    BY <1>3, <2>1 DEF DeleteRow, RunsGoForward, Unsettled
<1>4. ASSUME NEW stage \in Writing, Spawn(d, stage), runs[d] < MaxRuns,
             \A e \in Docs \ {d} : row'[e] = row[e], UNCHANGED faults
      PROVE  SomeoneSettles' /\ RunsGoForward
  <2>1. /\ \A e \in Docs, m \in RunIds :
             pc'[e][m] = IF e = d /\ m = runs[d] + 1 THEN stage ELSE pc[e][m]
        /\ runs[d] \in Nat
    BY <1>1, <1>4, Spawned DEF Stages
  <2>2. runs[d] + 1 \in RunIds /\ runs[d] + 1 > runs[d]
    BY <1>4, <2>1, PipelineAssumption DEF RunIds
  <2>3. pc[d][runs[d] + 1] = "unborn"
    BY <2>2 DEF IInv, Numbered
  <2>4. StagesLeft(stage) < StagesLeft("unborn")
    BY <1>4 DEF StagesLeft, Writing
  <2>5. RunsGoForward
    BY <2>1, <2>3, <2>4 DEF RunsGoForward
  <2>6. \A e \in Docs, m \in RunIds : pc[e][m] \in Writing => pc'[e][m] \in Writing
    BY <1>4, <2>1
  <2>7. pc'[d][runs[d] + 1] \in Writing
    BY <1>4, <2>1, <2>2
  <2>. QED
    BY <1>4, <2>2, <2>5, <2>6, <2>7
<1>5. CASE UploadInserts(c, d)
  <2>1. runs[d] < MaxRuns
    BY <1>5, PipelineAssumption DEF IInv, UploadsAlone, UploadInserts
  <2>2. \A e \in Docs \ {d} : row'[e] = row[e]
    BY <1>1, <1>5 DEF UploadInserts, insert_document, TypeOK
  <2>. QED
    BY <1>4, <1>5, <2>1, <2>2 DEF UploadInserts, Writing
<1>6. CASE ReindexResets(c, d)
  <2>1. \A e \in Docs \ {d} : row'[e] = row[e]
    BY <1>1, <1>6 DEF ReindexResets, UpdateStatus, TypeOK
  <2>. QED
    BY <1>4, <1>6, <2>1 DEF ReindexResets, Writing
<1>. QED
  BY <1>2, <1>3, <1>5, <1>6 DEF Request, UploadStores, ReindexReads, DeleteReads, DeleteFile

\* A fault lets go of documents, but takes runs forward too.
LEMMA OthersSettle ==
  ASSUME TypeOK, SomeoneSettles,
         \/ \E d \in Docs, n \in RunIds : KbIndexes(d, n) \/ KbDrops(d, n) \/ DbFails(d, n)
         \/ \E c \in Clients : RequestFails(c)
         \/ Crash
  PROVE  SomeoneSettles' /\ RunsGoForward
<1>1. CASE UNCHANGED <<row, pc, faults>>
  BY <1>1 DEF SomeoneSettles, Writers, RunsGoForward
<1>2. Fault => SomeoneSettles'
  <2>1. Fault => faults' # 0
    BY DEF Fault, TypeOK
  <2>. QED
    BY <2>1 DEF SomeoneSettles
<1>3. ASSUME NEW d \in Docs, NEW n \in RunIds, DbFails(d, n)
      PROVE  SomeoneSettles' /\ RunsGoForward
  <2>1. StagesLeft(AfterDbError(d, n)) < StagesLeft(pc[d][n])
    <3>1. pc[d][n] \in Writing \ {"parsing"}
      BY <1>3 DEF DbFails
    <3>. QED
      BY <3>1 DEF AfterDbError, StagesLeft, Writing
  <2>2. \A e \in Docs, m \in RunIds :
          pc'[e][m] = IF e = d /\ m = n THEN AfterDbError(d, n) ELSE pc[e][m]
    BY <1>3 DEF DbFails, Goto, TypeOK
  <2>3. RunsGoForward
    BY <2>1, <2>2 DEF RunsGoForward
  <2>. QED
    BY <1>2, <1>3, <2>3 DEF DbFails
<1>4. CASE \E c \in Clients : RequestFails(c)
  BY <1>2, <1>4 DEF RequestFails, RunsGoForward
<1>5. CASE Crash
  <2>1. \A d \in Docs, n \in RunIds : pc'[d][n] = IF pc[d][n] = "unborn" THEN "unborn" ELSE "ended"
    BY <1>5 DEF Crash
  <2>2. \A d \in Docs, n \in RunIds : pc[d][n] \in Stages
    BY DEF TypeOK, Stages
  <2>3. \A s \in Stages : s = "ended" \/ StagesLeft("ended") < StagesLeft(s)
    BY DEF StagesLeft, Stages, Writing
  <2>4. RunsGoForward
    BY <2>1, <2>2, <2>3 DEF RunsGoForward
  <2>. QED
    BY <1>2, <1>5, <2>4 DEF Crash
<1>. QED
  BY <1>1, <1>3, <1>4, <1>5 DEF KbIndexes, KbDrops

\* Until something fails, a document that is pending or parsing has a run that is
\* to settle it, however requests interleave; and no step takes a run back.  (A
\* fault may leave a document parsing for good: nothing takes up its runs.)
THEOREM DocumentsAreWorkedOn == Spec => []SomeoneSettles /\ [][RunsGoForward]_vars
<1>1. Init => SomeoneSettles
  BY DEF Init, SomeoneSettles, Unsettled
<1>2. IInv /\ SomeoneSettles /\ [Next]_vars => SomeoneSettles' /\ [RunsGoForward]_vars
  <2>. SUFFICES ASSUME IInv, SomeoneSettles, [Next]_vars
                PROVE  SomeoneSettles' /\ [RunsGoForward]_vars
    OBVIOUS
  <2>1. CASE UNCHANGED vars
    BY <2>1 DEF SomeoneSettles, Writers, vars
  <2>2. CASE Next
    BY <2>2, RunSettles, RequestSettles, OthersSettle DEF Next, IInv
  <2>. QED
    BY <2>1, <2>2
<1>. QED
  BY <1>1, <1>2, Invariance, PTL DEF Spec

-----------------------------------------------------------------------------
(* The lists of documents and of tasks.                                    *)
(*                                                                         *)
(* Loads are answered and applied in any order, but only the newest one    *)
(* counts, and whoever tells the page of a change asks for a new load in   *)
(* the same step.  So the newest load, once answered, has every change     *)
(* that the page was told of.                                              *)

NewestLoad == loads[Len(loads)]
Succeeded(c) == calls[c].at \in {"done", "members", "waiting", "over"}

\* What the server has recorded when the page is told.
ToldIsRecorded ==
  CommitsFirst(kind) =>
    told \subseteq rows /\ \A c \in Changes : Succeeded(c) => Made(c) \in rows

\* What the newest load brings, or has brought.
ToldIsLoaded ==
  /\ loads # <<>>
  /\ loading <=> NewestLoad.at # "over"
  /\ CommitsFirst(kind) =>
       /\ NewestLoad.at = "answered" => told \subseteq NewestLoad.answer.rows
       /\ NewestLoad.at = "over" /\ ~failed => told \subseteq data.rows

ListInv == ListsTypeOK /\ ToldIsRecorded /\ ToldIsLoaded

\* A new load is the newest one, and supersedes what is shown.
LEMMA ListRun ==
  ASSUME ListsTypeOK, NEW p \in PageNumbers, NEW f \in Filters, RunRequest(p, f)
  PROVE  /\ loads' \in Seq(Load) /\ loading' \in BOOLEAN /\ failed' \in BOOLEAN /\ data' = data
         /\ ToldIsLoaded'
<1>1. PICK l : l = Asking(p, f)
  OBVIOUS
<1>2. l \in Load /\ l.at = "asked"
  BY <1>1 DEF Asking, Load, Answer
<1>3. loads' = Append(loads, l) /\ loads \in Seq(Load)
  BY <1>1 DEF RunRequest, ListsTypeOK
<1>4. loads' \in Seq(Load) /\ loads' # <<>> /\ loads'[Len(loads')] = l
  BY <1>2, <1>3, AppendProperties
<1>. QED
  BY <1>2, <1>4 DEF RunRequest, ToldIsLoaded, NewestLoad

\* One load changes.
LEMMA ListLoadChanges ==
  ASSUME ListsTypeOK, NEW i \in DOMAIN loads, NEW l \in Load, loads' = [loads EXCEPT ![i] = l]
  PROVE  /\ loads' \in Seq(Load) /\ loads' # <<>> /\ loads[i] \in Load
         /\ NewestLoad' = IF i = Len(loads) THEN l ELSE NewestLoad
<1>1. loads \in Seq(Load) /\ i \in 1 .. Len(loads) /\ Len(loads) \in Nat
  BY LenProperties DEF ListsTypeOK
<1>2. /\ loads' \in Seq(Load) /\ Len(loads') = Len(loads)
      /\ \A j \in 1 .. Len(loads) : loads'[j] = IF j = i THEN l ELSE loads[j]
  BY <1>1, ExceptSeq
<1>3. loads' # <<>> /\ Len(loads) \in 1 .. Len(loads)
  BY <1>1, <1>2, EmptySeq
<1>4. loads[i] \in Load
  BY <1>1, ElementOfSeq
<1>. QED
  BY <1>2, <1>3, <1>4 DEF NewestLoad

\* A load is answered, applied or lost.
LEMMA ListLoadSteps ==
  ASSUME ListInv, NEW i \in DOMAIN loads, LoadStep(i) \/ LoadFails(i)
  PROVE  ListInv'
<1>1. loads[i] \in Load
  BY ElementOfSeq, LenProperties DEF ListInv, ListsTypeOK
<1>2. CASE AnswerLoad(i)
  <2>1. PICK l : l = [loads[i] EXCEPT !.at = "answered", !.answer.rows = rows]
    OBVIOUS
  <2>2. /\ l \in Load /\ l.at = "answered" /\ l.answer.rows = rows
    BY <1>1, <2>1 DEF ListInv, ListsTypeOK, Load, Answer
  <2>3. loads' = [loads EXCEPT ![i] = l]
    BY <1>2, <2>1 DEF AnswerLoad
  <2>4. /\ loads' \in Seq(Load) /\ loads' # <<>>
        /\ NewestLoad' = IF i = Len(loads) THEN l ELSE NewestLoad
    BY <2>2, <2>3, ListLoadChanges DEF ListInv
  <2>5. ListsTypeOK'
    BY <1>2, <2>4 DEF AnswerLoad, ListInv, ListsTypeOK
  <2>6. ToldIsRecorded'
    BY <1>2 DEF AnswerLoad, ListInv, ToldIsRecorded, CommitsFirst, Succeeded
  <2>7. ToldIsLoaded'
    <3>1. i = Len(loads) => NewestLoad.at = "asked"
      BY <1>2 DEF AnswerLoad, NewestLoad
    <3>. QED
      BY <1>2, <2>2, <2>4, <3>1
        DEF AnswerLoad, ListInv, ToldIsRecorded, ToldIsLoaded, CommitsFirst
  <2>. QED
    BY <2>5, <2>6, <2>7 DEF ListInv
<1>3. CASE ApplyLoad(i) \/ LoadFails(i)
  <2>1. PICK l : l = Over
    OBVIOUS
  <2>2. l \in Load /\ l.at = "over"
    BY <2>1 DEF Over, NoAnswer, Load, Answer
  <2>3. loads' = [loads EXCEPT ![i] = l]
    BY <1>3, <2>1 DEF ApplyLoad, LoadFails
  <2>4. /\ loads' \in Seq(Load) /\ loads' # <<>>
        /\ NewestLoad' = IF i = Len(loads) THEN l ELSE NewestLoad
    BY <2>2, <2>3, ListLoadChanges DEF ListInv
  <2>5. data' \in Answer /\ loading' \in BOOLEAN /\ failed' \in BOOLEAN /\ failures' \in Nat
    <3>1. loads[i].answer \in Answer
      BY <1>1 DEF Load
    <3>2. /\ data \in Answer /\ loading \in BOOLEAN /\ failed \in BOOLEAN /\ failures \in Nat
      BY DEF ListInv, ListsTypeOK
    <3>3. CASE ApplyLoad(i)
      BY <3>1, <3>2, <3>3 DEF ApplyLoad
    <3>4. CASE LoadFails(i)
      <4>1. failures' = failures + 1 /\ data' = data /\ loading' = FALSE /\ failed' = TRUE
        BY <3>4 DEF LoadFails
      <4>2. failures' \in Nat
        BY <3>2, <4>1
      <4>3. data' \in Answer
        BY <3>2, <4>1
      <4>. QED
        BY <4>1, <4>2, <4>3
    <3>. QED
      BY <1>3, <3>3, <3>4
  <2>6. ListsTypeOK'
    BY <1>3, <2>4, <2>5 DEF ApplyLoad, LoadFails, ListInv, ListsTypeOK
  <2>7. ToldIsRecorded'
    BY <1>3 DEF ApplyLoad, LoadFails, ListInv, ToldIsRecorded, CommitsFirst, Succeeded
  <2>8. CASE i = Len(loads)
    <3>1. ApplyLoad(i) => loads[i] = NewestLoad /\ data' = NewestLoad.answer
      BY <2>8 DEF ApplyLoad, NewestLoad
    <3>2. ToldIsLoaded'
      BY <1>3, <2>2, <2>4, <2>8, <3>1
        DEF ApplyLoad, LoadFails, ListInv, ToldIsLoaded, CommitsFirst
    <3>. QED
      BY <2>6, <2>7, <3>2 DEF ListInv
  <2>9. CASE i # Len(loads)
    <3>1. ToldIsLoaded'
      BY <1>3, <2>4, <2>9 DEF ApplyLoad, LoadFails, ListInv, ToldIsLoaded, CommitsFirst
    <3>. QED
      BY <2>6, <2>7, <3>1 DEF ListInv
  <2>. QED
    BY <2>8, <2>9
<1>. QED
  BY <1>2, <1>3 DEF LoadStep

\* A call of the page moves on.
LEMMA ListCallMoves ==
  ASSUME ListsTypeOK, NEW c \in Changes, NEW at, Move(c, at),
         at \in {"refused", "done", "members", "waiting", "over", "failed"}
  PROVE  /\ calls' \in [Changes -> Call]
         /\ \A b \in Changes : calls'[b].at = IF b = c THEN at ELSE calls[b].at
<1>1. calls \in [Changes -> Call]
  BY DEF ListsTypeOK
<1>2. PICK r : r = [calls[c] EXCEPT !.at = at]
  OBVIOUS
<1>3. r \in Call /\ r.at = at
  BY <1>1, <1>2 DEF Call
<1>4. calls' = [calls EXCEPT ![c] = r]
  BY <1>2 DEF Move
<1>. QED
  BY <1>1, <1>3, <1>4

\* What the page was told of stays recorded, if a call that comes to have
\* succeeded has been, and so has what the page is told of now.
LEMMA ListRecorded ==
  ASSUME ToldIsRecorded, kind' = kind, rows \subseteq rows', told' \subseteq told \cup rows',
         \A b \in Changes : CommitsFirst(kind) /\ Succeeded(b)' => Succeeded(b) \/ Made(b) \in rows'
  PROVE  ToldIsRecorded'
BY DEF ToldIsRecorded, CommitsFirst, Changes, Made

\* What is shown and being loaded stays enough, when nothing of it changes and
\* the page is told of nothing.
LEMMA ListShown ==
  ASSUME ToldIsLoaded, UNCHANGED <<kind, loads, loading, failed, data, told>>
  PROVE  ToldIsLoaded'
BY DEF ToldIsLoaded, NewestLoad, CommitsFirst

\* Steps of a call, until it has succeeded or failed.
LEMMA ListCallIsMade ==
  ASSUME ListInv, NEW c \in Changes,
         AnswerCall(c) \/ MemberChanged(c) \/ CallFails(c) \/ PollAgain(c)
  PROVE  ListInv'
<1>1. ToldIsLoaded'
  BY ListShown DEF ListInv, AnswerCall, MemberChanged, CallFails, PollAgain, requestVars
<1>2. Made(c) \in Changes \X {"made", "processed"}
  BY DEF Made
<1>3. CASE AnswerCall(c)
  <2>1. PICK at \in {"refused", "done"} :
          /\ Move(c, at)
          /\ \/ rows' = rows /\ (at = "refused" \/ ~CommitsFirst(kind))
             \/ rows' = rows \cup {Made(c)}
    BY <1>3 DEF AnswerCall
  <2>2. /\ calls' \in [Changes -> Call]
        /\ \A b \in Changes : calls'[b].at = IF b = c THEN at ELSE calls[b].at
    BY <2>1, ListCallMoves DEF ListInv
  <2>3. ToldIsRecorded'
    BY <1>3, <2>1, <2>2, ListRecorded DEF ListInv, AnswerCall, Succeeded
  <2>4. ListsTypeOK'
    BY <1>2, <1>3, <2>1, <2>2 DEF ListInv, ListsTypeOK, AnswerCall, requestVars
  <2>. QED
    BY <1>1, <2>3, <2>4 DEF ListInv
<1>4. CASE MemberChanged(c)
  <2>1. Move(c, "members") /\ Succeeded(c)
    BY <1>4 DEF MemberChanged, Succeeded
  <2>2. /\ calls' \in [Changes -> Call]
        /\ \A b \in Changes : calls'[b].at = IF b = c THEN "members" ELSE calls[b].at
    BY <2>1, ListCallMoves DEF ListInv
  <2>3. ToldIsRecorded'
    BY <1>4, <2>1, <2>2, ListRecorded DEF ListInv, MemberChanged, Succeeded
  <2>4. ListsTypeOK'
    BY <1>4, <2>2 DEF ListInv, ListsTypeOK, MemberChanged, requestVars
  <2>. QED
    BY <1>1, <2>3, <2>4 DEF ListInv
<1>5. CASE CallFails(c)
  <2>1. Move(c, "failed")
    BY <1>5 DEF CallFails
  <2>2. /\ calls' \in [Changes -> Call]
        /\ \A b \in Changes : calls'[b].at = IF b = c THEN "failed" ELSE calls[b].at
    BY <2>1, ListCallMoves DEF ListInv
  <2>3. ToldIsRecorded'
    BY <1>5, <2>2, ListRecorded DEF ListInv, CallFails, Succeeded
  <2>4. failures' \in Nat
    <3>1. failures \in Nat /\ (failures' = failures \/ failures' = failures + 1)
      BY <1>5 DEF ListInv, ListsTypeOK, CallFails
    <3>. QED
      BY <3>1
  <2>5. ListsTypeOK'
    BY <1>5, <2>2, <2>4 DEF ListInv, ListsTypeOK, CallFails, requestVars
  <2>. QED
    BY <1>1, <2>3, <2>5 DEF ListInv
<1>6. CASE PollAgain(c)
  <2>1. calls \in [Changes -> Call]
    BY DEF ListInv, ListsTypeOK
  <2>2. PICK r : r = [calls[c] EXCEPT !.polls = @ + 1]
    OBVIOUS
  <2>3. r \in Call /\ r.at = calls[c].at
    <3>1. calls[c] \in Call
      BY <2>1
    <3>2. calls[c].polls \in Nat
      BY <3>1 DEF Call
    <3>3. PICK n \in Nat : n = calls[c].polls + 1
      BY <3>2
    <3>. QED
      BY <2>2, <3>1, <3>3 DEF Call
  <2>4. calls' = [calls EXCEPT ![c] = r]
    BY <1>6, <2>2 DEF PollAgain
  <2>5. /\ calls' \in [Changes -> Call]
        /\ \A b \in Changes : calls'[b].at = calls[b].at
    BY <2>1, <2>3, <2>4
  <2>6. ToldIsRecorded'
    BY <1>6, <2>5, ListRecorded DEF ListInv, PollAgain, Succeeded
  <2>7. ListsTypeOK'
    BY <1>6, <2>5 DEF ListInv, ListsTypeOK, PollAgain, requestVars
  <2>. QED
    BY <1>1, <2>6, <2>7 DEF ListInv
<1>. QED
  BY <1>3, <1>4, <1>5, <1>6

\* Steps of a call that tell the page of a change, and load the list.
LEMMA ListCallTells ==
  ASSUME ListInv, NEW c \in Changes,
         Succeeds(c) \/ MembersLoaded(c) \/ PollEnds(c)
  PROVE  ListInv'
<1>1. /\ loads' \in Seq(Load) /\ loading' \in BOOLEAN /\ failed' \in BOOLEAN /\ data' = data
      /\ ToldIsLoaded'
  <2>1. RunRequest(page, filter)
    BY DEF Succeeds, MembersLoaded, PollEnds
  <2>2. page \in PageNumbers /\ filter \in Filters
    BY DEF ListInv, ListsTypeOK
  <2>. QED
    BY <2>1, <2>2, ListRun DEF ListInv
<1>2. PICK at \in {"waiting", "over"} : Move(c, at)
  BY DEF Succeeds, MembersLoaded, PollEnds
<1>3. /\ calls' \in [Changes -> Call]
      /\ \A b \in Changes : calls'[b].at = IF b = c THEN at ELSE calls[b].at
  BY <1>2, ListCallMoves DEF ListInv
<1>4. Succeeded(c)
  BY DEF Succeeds, MembersLoaded, PollEnds, Succeeded
<1>5. PICK new \in Changes \X {"made", "processed"} :
        /\ told' = told \/ told' = told \cup {new}
        /\ CommitsFirst(kind) => new \in rows
  <2>1. CASE Succeeds(c) \/ MembersLoaded(c)
    <3>1. Made(c) \in Changes \X {"made", "processed"}
      BY DEF Made
    <3>2. told' = told \cup {Made(c)}
      BY <2>1 DEF Succeeds, MembersLoaded
    <3>3. CommitsFirst(kind) => Made(c) \in rows
      BY <1>4 DEF ListInv, ToldIsRecorded
    <3>. QED
      BY <3>1, <3>2, <3>3
  <2>2. CASE PollEnds(c) /\ told' # told
    <3>1. Processed(c) \in Changes \X {"made", "processed"}
      BY DEF Processed
    <3>2. told' = told \cup {Processed(c)} /\ Processed(c) \in rows
      BY <2>2 DEF PollEnds
    <3>. QED
      BY <3>1, <3>2
  <2>3. CASE told' = told
    <3>1. Made(c) \in Changes \X {"made", "processed"}
      BY DEF Made
    <3>2. CommitsFirst(kind) => Made(c) \in rows
      BY <1>4 DEF ListInv, ToldIsRecorded
    <3>. QED
      BY <2>3, <3>1, <3>2
  <2>. QED
    BY <2>1, <2>2, <2>3
<1>6. UNCHANGED <<kind, page, filter, rows, actions>>
  BY DEF Succeeds, MembersLoaded, PollEnds
<1>7. ToldIsRecorded'
  <2>1. CASE CommitsFirst(kind)
    <3>1. told' \subseteq told \cup rows'
      BY <1>5, <1>6, <2>1
    <3>2. \A b \in Changes : Succeeded(b)' => Succeeded(b)
      BY <1>3, <1>4 DEF Succeeded
    <3>. QED
      BY <1>6, <3>1, <3>2, ListRecorded DEF ListInv
  <2>2. CASE ~CommitsFirst(kind)
    BY <1>6, <2>2 DEF ToldIsRecorded, CommitsFirst
  <2>. QED
    BY <2>1, <2>2
<1>8. failures' \in Nat
  <2>1. failures \in Nat /\ (failures' = failures \/ failures' = failures + 1)
    BY DEF ListInv, ListsTypeOK, Succeeds, MembersLoaded, PollEnds
  <2>. QED
    BY <2>1
<1>9. told' \subseteq Changes \X {"made", "processed"}
  BY <1>5 DEF ListInv, ListsTypeOK
<1>10. ListsTypeOK'
  BY <1>1, <1>3, <1>6, <1>8, <1>9 DEF ListInv, ListsTypeOK
<1>. QED
  BY <1>1, <1>7, <1>10 DEF ListInv

\* Changes that others make, that are committed late or are processed.
LEMMA ListServerSteps ==
  ASSUME ListInv, NEW c \in Changes,
         OtherChange(c) \/ CommitLate(c) \/ Process(c)
  PROVE  ListInv'
<1>1. UNCHANGED <<kind, page, filter, loads, loading, failed, data, calls, told, actions, failures>>
  BY DEF OtherChange, CommitLate, Process, requestVars
<1>2. rows' = rows \cup {Made(c)} \/ rows' = rows \cup {Processed(c)}
  BY DEF OtherChange, CommitLate, Process
<1>3. rows \subseteq rows' /\ rows' \subseteq Changes \X {"made", "processed"}
  BY <1>2 DEF Made, Processed, ListInv, ListsTypeOK
<1>4. ToldIsRecorded'
  BY <1>1, <1>3, ListRecorded DEF ListInv, Succeeded
<1>5. ToldIsLoaded'
  BY <1>1, ListShown DEF ListInv
<1>6. ListsTypeOK'
  BY <1>1, <1>3 DEF ListInv, ListsTypeOK
<1>. QED
  BY <1>4, <1>5, <1>6 DEF ListInv

\* What the user does.
LEMMA ListUserSteps ==
  ASSUME ListInv,
         \/ \E p \in PageNumbers : ChoosePage(p)
         \/ \E f \in Filters : ChooseFilter(f)
         \/ Refresh
         \/ \E c \in Changes, tail \in Tails(kind) : Press(c, tail)
  PROVE  ListInv'
<1>1. actions' \in Nat
  <2>1. actions \in Nat /\ actions' = actions + 1
    BY DEF ListInv, ListsTypeOK, ChoosePage, ChooseFilter, Refresh, Press, Acts
  <2>. QED
    BY <2>1
<1>2. page' \in PageNumbers /\ filter' \in Filters /\ UNCHANGED <<kind, rows, told, failures>>
  BY ListPageAssumption DEF ListInv, ListsTypeOK, ChoosePage, ChooseFilter, Refresh, Press
<1>3. CASE UNCHANGED calls
  <2>1. ToldIsRecorded'
    BY <1>2, <1>3, ListRecorded DEF ListInv, Succeeded
  <2>2. /\ loads' \in Seq(Load) /\ loading' \in BOOLEAN /\ failed' \in BOOLEAN /\ data' = data
        /\ ToldIsLoaded'
    <3>1. CASE UNCHANGED <<loads, loading, failed, data>>
      BY <1>2, <3>1, ListShown DEF ListInv, ListsTypeOK
    <3>2. CASE \E p \in PageNumbers, f \in Filters : RunRequest(p, f)
      BY <3>2, ListRun DEF ListInv
    <3>3. page \in PageNumbers /\ filter \in Filters /\ 1 \in PageNumbers
      BY ListPageAssumption DEF ListInv, ListsTypeOK
    <3>. QED
      BY <3>1, <3>2, <3>3 DEF ChoosePage, ChooseFilter, Refresh, Press, requestVars
  <2>3. ListsTypeOK'
    BY <1>1, <1>2, <1>3, <2>2 DEF ListInv, ListsTypeOK
  <2>. QED
    BY <2>1, <2>2, <2>3 DEF ListInv
<1>4. CASE \E c \in Changes, tail \in Tails(kind) : Press(c, tail)
  <2>1. PICK c \in Changes, tail \in Tails(kind) : Press(c, tail)
    BY <1>4
  <2>2. PICK r : r = [at |-> "asked", tail |-> tail, polls |-> 0]
    OBVIOUS
  <2>3. tail \in TailOfAKind
    BY DEF TailOfAKind, ListInv, ListsTypeOK
  <2>4. r \in Call /\ r.at = "asked"
    BY <2>2, <2>3 DEF Call
  <2>5. calls \in [Changes -> Call] /\ calls' = [calls EXCEPT ![c] = r]
    BY <2>1, <2>2 DEF Press, ListInv, ListsTypeOK
  <2>6. /\ calls' \in [Changes -> Call]
        /\ \A b \in Changes : Succeeded(b)' => Succeeded(b)
    BY <2>4, <2>5 DEF Succeeded
  <2>7. ToldIsRecorded'
    BY <1>2, <2>6, ListRecorded DEF ListInv
  <2>8. UNCHANGED <<loads, loading, failed, data>>
    BY <2>1 DEF Press, requestVars
  <2>9. ToldIsLoaded'
    BY <1>2, <2>8, ListShown DEF ListInv
  <2>10. ListsTypeOK'
    BY <1>1, <1>2, <2>6, <2>8 DEF ListInv, ListsTypeOK
  <2>. QED
    BY <2>7, <2>9, <2>10 DEF ListInv
<1>. QED
  BY <1>3, <1>4 DEF ChoosePage, ChooseFilter, Refresh

\* When nothing is loading, the lists of tasks and documents show every change that the
\* user was told of, in whatever order loads are answered and whatever others change.
THEOREM ToldChangesAreShown == ListsSpec => []OwnChangesAreShown
<1>1. ListsInit => ListInv
  <2>. SUFFICES ASSUME ListsInit PROVE ListInv
    OBVIOUS
  <2>1. PICK l : l = Asking(1, "all")
    OBVIOUS
  <2>2. l \in Load /\ l.at = "asked"
    BY <2>1, ListPageAssumption DEF Asking, Load, Answer
  <2>3. loads = <<l>>
    BY <2>1 DEF ListsInit
  <2>4. loads \in Seq(Load) /\ loads # <<>> /\ NewestLoad = l
    BY <2>2, <2>3 DEF NewestLoad
  <2>5. calls \in [Changes -> Call] /\ \A c \in Changes : calls[c].at = "none"
    BY DEF ListsInit, Call
  <2>6. data \in Answer /\ rows = {} /\ told = {}
    BY DEF ListsInit, NoAnswer, Answer
  <2>7. ListsTypeOK
    BY <2>4, <2>5, <2>6, ListPageAssumption DEF ListsInit, ListsTypeOK
  <2>8. ToldIsRecorded /\ ToldIsLoaded
    BY <2>2, <2>4, <2>5, <2>6 DEF ListsInit, ToldIsRecorded, ToldIsLoaded, Succeeded
  <2>. QED
    BY <2>7, <2>8 DEF ListInv
<1>2. ListInv /\ [ListsNext]_listsVars => ListInv'
  <2>1. ListInv /\ UNCHANGED listsVars => ListInv'
    <3>. SUFFICES ASSUME ListInv, UNCHANGED listsVars PROVE ListInv'
      OBVIOUS
    <3>1. UNCHANGED <<kind, page, filter, loads, loading, failed, data, rows, calls, told, actions, failures>>
      BY DEF listsVars
    <3>2. ListsTypeOK'
      BY <3>1 DEF ListInv, ListsTypeOK
    <3>3. ToldIsRecorded'
      BY <3>1, ListRecorded DEF ListInv, Succeeded
    <3>. QED
      BY <3>1, <3>2, <3>3, ListShown DEF ListInv
  <2>2. ListInv /\ ListsNext => ListInv'
    BY ListLoadSteps, ListUserSteps, ListCallIsMade, ListCallTells, ListServerSteps
      DEF ListsNext, CallStep
  <2>. QED
    BY <2>1, <2>2
<1>3. ListInv => OwnChangesAreShown
  <2>. SUFFICES ASSUME ListInv, Settled, CommitsFirst(kind)
                PROVE  told \subseteq data.rows
    BY DEF OwnChangesAreShown
  <2>1. ~loading /\ ~failed
    BY DEF Settled
  <2>. QED
    BY <2>1 DEF ListInv, ToldIsLoaded
<1>. QED
  BY <1>1, <1>2, <1>3, PTL DEF ListsSpec

=============================================================================
