----------------------------- MODULE Ingestion ------------------------------
(***************************************************************************)
(* Ingesting documents: the upload endpoint (app/api/v1/upload.py) and the *)
(* ingestion command, the pipeline that reads, chunks, indexes and         *)
(* announces (app/ingestion), and the calls of the vector store with their *)
(* retries (app/retrieval/chroma.py), inside a process that starts and     *)
(* stops as Lifecycle says.                                                *)
(*                                                                         *)
(* A job is one batch of one document in the indexer's task group.  The    *)
(* texts of a document are abstracted to one per batch, sizes to the       *)
(* number of reads an upload takes.  A worker thread is not interrupted by *)
(* a cancellation: whoever awaits it leaves when it has ended.             *)
(***************************************************************************)
EXTENDS Lifecycle, Retry

CONSTANTS
    Documents,             \* the documents, or the command's sources: 1 .. n, in order
    Submissions,           \* the files that can be submitted together
    MaxBatches,            \* bound: the batches of a document
    MAX_UPLOAD_PARTS,      \* MAX_UPLOAD_BYTES, in reads of _READ_CHUNK
    max_concurrent_batches \* settings.ingestion.max_concurrent_batches

(* The status of a response, or how a source of the command ended. *)
Statuses == {0, 1, 201, 413, 422, 500, 502, 504}

(* A file: its name, which need not be one the endpoint accepts; its size; *)
(* whether it begins as a PDF does and is one; and the text of each batch  *)
(* its chunks make up, none if there is no text in it.                     *)
ASSUME IngestionAssumption ==
    /\ Documents \subseteq Nat /\ IsFiniteSet(Documents)
    /\ MaxBatches \in Nat
    /\ None \notin Statuses
    /\ MAX_UPLOAD_PARTS \in Nat \ {0}
    /\ max_concurrent_batches \in Nat \ {0}
    /\ \A files \in Submissions :
         /\ DOMAIN files = Documents
         /\ \A d \in Documents :
              /\ {files[d].named, files[d].magic, files[d].readable} \subseteq BOOLEAN
              /\ files[d].parts \in Nat
              /\ Len(files[d].batches) \in 0 .. MaxBatches

VARIABLES
    remote,    \* whether the store is a server (CHROMA__HOST) or on disk
    file,      \* what each document is
    pc,        \* where its ingestion is
    spooled,   \* how much of an upload is in its temporary directory
    doomed,    \* the uploads whose deadline has passed
    workspace, \* the uploads whose temporary directory exists
    threads,   \* the documents whose file a worker thread is reading
    outcome,   \* how each ended
    job,       \* where each batch is
    attempt,   \* the calls of the store it has made
    borrowers, \* the batches that hold a token of the indexer's limiter
    corpus,    \* the vector store: the ids of its rows
    late,      \* the batches whose rows a server may have yet to commit
    announced  \* the documents whose bump of the version has been made

ingestionVars == <<remote, file, pc, spooled, doomed, workspace, threads, outcome, job,
                   attempt, borrowers, corpus, late, announced>>
vars == <<lifecycleVars, ingestionVars>>

uploadVars == <<pc, spooled, doomed, workspace, threads, outcome>>
storeVars == <<corpus, late>>
jobVars == <<job, attempt, borrowers, storeVars>>

Jobs == Documents \X (1 .. MaxBatches)
JobsOf(d) == {d} \X (1 .. MaxBatches)

Api == deployment = "api"

(* ChunkMetadata.chunk_id: from the name of the file, not from where it    *)
(* was spooled, the place in it and the text, so that a second ingestion   *)
(* rewrites what has not changed.                                          *)
chunk_id(j) == <<file[j[1]].name, j[2], file[j[1]].batches[j[2]]>>

(* The jobs a document makes. *)
_batched(d) == {j \in JobsOf(d) : j[2] <= Len(file[d].batches)}

(* RecursiveChunker.chunk: the rows a document is to have. *)
Wanted(d) == {chunk_id(j) : j \in _batched(d)}

-----------------------------------------------------------------------------
IngestionInit ==
    /\ remote \in BOOLEAN
    /\ file \in Submissions
    /\ pc = [d \in Documents |-> "idle"]
    /\ spooled = [d \in Documents |-> 0]
    /\ doomed = {}
    /\ workspace = {}
    /\ threads = {}
    /\ outcome = [d \in Documents |-> None]
    /\ job = [j \in Jobs |-> "none"]
    /\ attempt = [j \in Jobs |-> 0]
    /\ borrowers = {}
    /\ corpus = {}
    /\ late = {}
    /\ announced = {}

Init == LifecycleInit /\ IngestionInit

Goto(d, place) == pc' = [pc EXCEPT ![d] = place]

(* The way out of the handler, whatever the reason: the directory goes.    *)
Leave(d, status) ==
    /\ Goto(d, "ended")
    /\ outcome' = [outcome EXCEPT ![d] = status]
    /\ workspace' = workspace \ {d}

-----------------------------------------------------------------------------
(* The upload endpoint *)

(* The base name of the file, if it and the content type are a PDF's. *)
_validated_name(d) == file[d].named

(* get_pipeline, upload: a container without a pipeline answers 502, a     *)
(* name that will not do 422; otherwise a directory is made.               *)
Submit(d) ==
    /\ Api
    /\ stage[Main] = "serving"
    /\ pc[d] = "idle"
    /\ CASE ~Registered("pipeline") -> Leave(d, 502)
         [] Registered("pipeline") /\ ~_validated_name(d) -> Leave(d, 422)
         [] OTHER -> /\ Goto(d, "spooling")
                     /\ workspace' = workspace \cup {d}
                     /\ UNCHANGED outcome
    /\ UNCHANGED <<lifecycleVars, remote, file, spooled, doomed, threads, jobVars, announced>>

(* _spool: one read, and its write unless it is one too many; then whether *)
(* there was anything at all.                                              *)
_spool(d) ==
    /\ pc[d] = "spooling"
    /\ d \notin doomed
    /\ IF spooled[d] < file[d].parts
       THEN IF spooled[d] + 1 > MAX_UPLOAD_PARTS
            THEN Leave(d, 413) /\ UNCHANGED spooled
            ELSE /\ spooled' = [spooled EXCEPT ![d] = @ + 1]
                 /\ UNCHANGED <<pc, outcome, workspace>>
       ELSE /\ IF spooled[d] = 0
               THEN Leave(d, 422)
               ELSE Goto(d, "checking") /\ UNCHANGED <<outcome, workspace>>
            /\ UNCHANGED spooled
    /\ UNCHANGED <<lifecycleVars, remote, file, doomed, threads, jobVars, announced>>

(* _reject_if_not_a_pdf, then the loader's thread. *)
_reject_if_not_a_pdf(d) ==
    /\ pc[d] = "checking"
    /\ d \notin doomed
    /\ IF file[d].magic
       THEN /\ Goto(d, "reading")
            /\ threads' = threads \cup {d}
            /\ UNCHANGED <<outcome, workspace>>
       ELSE Leave(d, 422) /\ UNCHANGED threads
    /\ UNCHANGED <<lifecycleVars, remote, file, spooled, doomed, jobVars, announced>>

(* The loader refuses what is not named as a PDF and what is not there;    *)
(* an upload is neither.                                                   *)
_resolve(d) == file[d].named

(* ingest_sources: the next source, once the one before it is in. *)
NextSource(d) ==
    /\ deployment = "cli"
    /\ stage[Main] = "serving"
    /\ pc[d] = "idle"
    /\ \A before \in Documents : before < d => outcome[before] = 0
    /\ IF _resolve(d)
       THEN Goto(d, "reading") /\ threads' = threads \cup {d} /\ UNCHANGED <<outcome, workspace>>
       ELSE Leave(d, 1) /\ UNCHANGED threads
    /\ UNCHANGED <<lifecycleVars, remote, file, spooled, doomed, jobVars, announced>>

-----------------------------------------------------------------------------
(* The pipeline *)

Succeeded == IF Api THEN 201 ELSE 0
Failed(status) == IF Api THEN status ELSE 1

(* PdfDocumentLoader.read: one document per page with text on it. *)
ReadReturns(d) ==
    /\ pc[d] = "reading"
    /\ d \notin doomed
    /\ file[d].magic /\ file[d].readable
    /\ threads' = threads \ {d}
    /\ IF Len(file[d].batches) = 0
       THEN Leave(d, Succeeded)
       ELSE Goto(d, "chunking") /\ UNCHANGED <<outcome, workspace>>
    /\ UNCHANGED <<lifecycleVars, remote, file, spooled, doomed, jobVars, announced>>

(* _extract: a DependencyError if pypdf calls the file unreadable, and any *)
(* other error as it is; a deadline may or may not overtake it.            *)
ReadFails(d) ==
    /\ pc[d] = "reading"
    /\ ~(file[d].magic /\ file[d].readable)
    /\ threads' = threads \ {d}
    /\ \E status \in {500, 502} : Leave(d, Failed(status))
    /\ UNCHANGED <<lifecycleVars, remote, file, spooled, doomed, jobVars, announced>>

(* _chunk, and Indexer.index: a task for every batch. *)
Chunk(d) ==
    /\ pc[d] = "chunking"
    /\ d \notin doomed
    /\ Goto(d, "indexing")
    /\ job' = [j \in Jobs |-> IF j \in _batched(d) THEN "waiting" ELSE job[j]]
    /\ UNCHANGED <<lifecycleVars, remote, file, spooled, doomed, workspace, threads, outcome,
                   attempt, borrowers, storeVars, announced>>

Over == {"none", "written", "failed", "cancelled"}

(* Mutation: the first failure is enough. *)
EndsAtTheFirstFailure(d) == 
    \/ \A j \in JobsOf(d) : job[j] \in Over
    \/ \E j \in JobsOf(d) : job[j] = "failed"

(* The task group ends when every task in it has. *)
GroupIsOver(d) == \A j \in JobsOf(d) : job[j] \in Over

(* Mutation: a batch that failed is passed over. *)
IndexIgnoringFailures(d) ==
    /\ pc[d] = "indexing"
    /\ GroupIsOver(d)
    /\ IF d \in doomed
       THEN Leave(d, 504)
       ELSE Goto(d, "announcing") /\ UNCHANGED <<outcome, workspace>>
    /\ UNCHANGED <<lifecycleVars, remote, file, spooled, doomed, threads, jobVars, announced>>

(* Indexer.index: the errors of its tasks leave it as an exception group,  *)
(* which no handler knows as a DependencyError; only then does a deadline  *)
(* count.                                                                  *)
IndexReturns(d) ==
    /\ pc[d] = "indexing"
    /\ GroupIsOver(d)
    /\ CASE \E j \in JobsOf(d) : job[j] = "failed" -> Leave(d, Failed(500))
         [] ~(\E j \in JobsOf(d) : job[j] = "failed") /\ d \in doomed -> Leave(d, 504)
         [] OTHER -> Goto(d, "announcing") /\ UNCHANGED <<outcome, workspace>>
    /\ UNCHANGED <<lifecycleVars, remote, file, spooled, doomed, threads, jobVars, announced>>

(* _announce: the version advances in the backend ... *)
Bump(d) ==
    /\ pc[d] = "announcing"
    /\ announced' = announced \cup {d}
    /\ UNCHANGED <<lifecycleVars, remote, file, uploadVars, jobVars>>

(* ... and the bump returns or fails, which is logged: the ingestion       *)
(* succeeds either way.                                                    *)
_announce(d) ==
    /\ pc[d] = "announcing"
    /\ Leave(d, Succeeded)
    /\ UNCHANGED <<lifecycleVars, remote, file, spooled, doomed, threads, jobVars, announced>>

-----------------------------------------------------------------------------
(* A batch: Indexer._index_batch and ChromaVectorStore.upsert *)

Advance(j, place) == job' = [job EXCEPT ![j] = place]

(* Mutation: a limiter for every document. *)
AcquireOfItsOwn(j) ==
    /\ job[j] = "waiting"
    /\ Cardinality(borrowers \cap JobsOf(j[1])) < max_concurrent_batches
    /\ borrowers' = borrowers \cup {j}
    /\ Advance(j, "embedding")
    /\ UNCHANGED <<lifecycleVars, remote, file, uploadVars, attempt, storeVars, announced>>

(* The limiter is the indexer's, and so shared by every document. *)
Acquire(j) ==
    /\ job[j] = "waiting"
    /\ Cardinality(borrowers) < max_concurrent_batches
    /\ borrowers' = borrowers \cup {j}
    /\ Advance(j, "embedding")
    /\ UNCHANGED <<lifecycleVars, remote, file, uploadVars, attempt, storeVars, announced>>

(* embed_texts returned: the first call of the store. *)
Embedded(j) ==
    /\ job[j] = "embedding"
    /\ Advance(j, "calling")
    /\ attempt' = [attempt EXCEPT ![j] = 1]
    /\ UNCHANGED <<lifecycleVars, remote, file, uploadVars, borrowers, storeVars, announced>>

(* What cancelling a document's task group makes of its other tasks: one   *)
(* that awaits a token, an embedding, a backoff or a server is gone, its   *)
(* token returned; one that awaits a thread stays until that has ended.    *)
Interrupted(d) ==
    {j \in JobsOf(d) : \/ job[j] \in {"waiting", "embedding", "backoff"}
                       \/ job[j] = "calling" /\ remote}
InFlight(d) == {j \in JobsOf(d) : job[j] = "calling" /\ remote}

CancelGroup(d, ending, place) ==
    /\ job' = [j \in Jobs |-> IF j \in ending THEN place
                              ELSE IF j \in Interrupted(d) THEN "cancelled" ELSE job[j]]
    /\ borrowers' = borrowers \ (ending \cup Interrupted(d))

(* Calls whose answer will not come: a server may commit their rows at any *)
(* time or never, a store on disk has done so or not.                      *)
GiveUp(calls) ==
    IF remote
    THEN late' = late \cup calls /\ UNCHANGED corpus
    ELSE /\ \E through \in SUBSET calls : corpus' = corpus \cup {chunk_id(j) : j \in through}
         /\ UNCHANGED late

(* The batch fails, and takes the document's other tasks with it.          *)
FailBatch(j, lost) ==
    /\ CancelGroup(j[1], {j}, "failed")
    /\ GiveUp((InFlight(j[1]) \ {j}) \cup lost)

(* An embedding request is not one that with_retry sees. *)
EmbedFails(j) ==
    /\ job[j] = "embedding"
    /\ FailBatch(j, {})
    /\ UNCHANGED <<lifecycleVars, remote, file, uploadVars, attempt, announced>>

CallReturns(j) ==
    /\ job[j] = "calling"
    /\ Advance(j, "written")
    /\ corpus' = corpus \cup {chunk_id(j)}
    /\ borrowers' = borrowers \ {j}
    /\ UNCHANGED <<lifecycleVars, remote, file, uploadVars, attempt, late, announced>>

(* A connection may be lost before or after the request got through; what  *)
(* is rejected is not written.                                             *)
Lost(j, error) == IF error = "outage" THEN {j} ELSE {}

(* The group has been cancelled, by a sibling's failure or the deadline. *)
Cancelled(d) == d \in doomed \/ \E j \in JobsOf(d) : job[j] = "failed"

(* _invoke and with_retry: wait and call again, unless the error is the    *)
(* caller's; in a group that was cancelled the wait is cut short.          *)
CallFails(j, error) ==
    /\ job[j] = "calling"
    /\ IF Reraises(attempt[j], Wrapped(error))
       THEN FailBatch(j, Lost(j, error))
       ELSE /\ GiveUp(Lost(j, error))
            /\ IF Cancelled(j[1])
               THEN Advance(j, "cancelled") /\ borrowers' = borrowers \ {j}
               ELSE Advance(j, "backoff") /\ UNCHANGED borrowers
    /\ UNCHANGED <<lifecycleVars, remote, file, uploadVars, attempt, announced>>

(* The server commits a request that nobody awaits any more, perhaps after *)
(* the document has ended.                                                 *)
LateCommit(j) ==
    /\ j \in late
    /\ corpus' = corpus \cup {chunk_id(j)}
    /\ late' = late \ {j}
    /\ UNCHANGED <<lifecycleVars, remote, file, uploadVars, job, attempt, borrowers, announced>>

(* Mutation: the attempts are not counted. *)
CallAgainUncounted(j) ==
    /\ job[j] = "backoff"
    /\ Advance(j, "calling")
    /\ UNCHANGED <<lifecycleVars, remote, file, uploadVars, attempt, borrowers, storeVars,
                   announced>>

(* The sleep is over. *)
CallAgain(j) ==
    /\ job[j] = "backoff"
    /\ Advance(j, "calling")
    /\ attempt' = [attempt EXCEPT ![j] = @ + 1]
    /\ UNCHANGED <<lifecycleVars, remote, file, uploadVars, borrowers, storeVars, announced>>

-----------------------------------------------------------------------------
(* The deadline: TimeoutMiddleware around the handler *)

(* Mutation: the handler does not wait for the thread that reads. *)
AbandonsTheThread(d) ==
    /\ pc[d] \in {"spooling", "checking", "reading", "chunking"}
    /\ d \in doomed
    /\ Leave(d, 504)
    /\ UNCHANGED <<lifecycleVars, remote, file, spooled, doomed, threads, jobVars, announced>>

(* Everything before the index is done in threads: the handler leaves when *)
(* the one it awaits has ended.                                            *)
Abandon(d) ==
    /\ pc[d] \in {"spooling", "checking", "reading", "chunking"}
    /\ d \in doomed
    /\ Leave(d, 504)
    /\ threads' = threads \ {d}
    /\ UNCHANGED <<lifecycleVars, remote, file, spooled, doomed, jobVars, announced>>

Deadline(d) ==
    /\ Api
    /\ pc[d] \notin {"idle", "ended"}
    /\ d \notin doomed
    /\ doomed' = doomed \cup {d}
    /\ CASE pc[d] = "indexing" ->
              /\ CancelGroup(d, {}, "cancelled")
              /\ GiveUp(InFlight(d))
              /\ UNCHANGED <<pc, outcome, workspace>>
         [] pc[d] = "announcing" -> Leave(d, 504) /\ UNCHANGED <<job, borrowers, storeVars>>
         [] OTHER -> UNCHANGED <<pc, outcome, workspace, job, borrowers, storeVars>>
    /\ UNCHANGED <<lifecycleVars, remote, file, spooled, threads, attempt, announced>>

-----------------------------------------------------------------------------
(* The server stops when the requests in progress have ended, the command  *)
(* when its sources have, or one of them has failed.                       *)
Shutdown ==
    /\ \A d \in Documents : pc[d] \in {"idle", "ended"}
    /\ Api \/ (\A d \in Documents : pc[d] = "ended") \/ (\E d \in Documents : outcome[d] = 1)
    /\ BeginShutdown
    /\ UNCHANGED ingestionVars

JobStep(j) ==
    \/ Acquire(j) \/ Embedded(j) \/ EmbedFails(j) \/ CallReturns(j) \/ CallAgain(j)
    \/ \E error \in StoreErrors : CallFails(j, error)

DocumentStep(d) ==
    \/ _spool(d) \/ _reject_if_not_a_pdf(d) \/ ReadReturns(d) \/ ReadFails(d) \/ Chunk(d)
    \/ IndexReturns(d) \/ Bump(d) \/ _announce(d) \/ Abandon(d)

Next ==
    \/ LifecycleNext /\ UNCHANGED ingestionVars
    \/ Shutdown
    \/ \E d \in Documents : Submit(d) \/ NextSource(d) \/ DocumentStep(d) \/ Deadline(d)
    \/ \E j \in Jobs : JobStep(j) \/ LateCommit(j)

(* A thread ends, a token is handed on, and a request for embeddings or to *)
(* the backend has a timeout.  A call of a server has none (_invoke): with *)
(* one, it is the deadline that is relied on, which the command lacks.     *)
Fairness ==
    /\ \A d \in Documents : WF_vars(DocumentStep(d)) /\ WF_vars(remote /\ Deadline(d))
    /\ \A j \in Jobs : WF_vars(~(remote /\ job[j] = "calling") /\ JobStep(j))

Spec == Init /\ [][Next]_vars /\ Fairness

-----------------------------------------------------------------------------
TypeOK ==
    /\ LifecycleTypeOK
    /\ remote \in BOOLEAN
    /\ file \in Submissions
    /\ pc \in [Documents -> {"idle", "spooling", "checking", "reading", "chunking", "indexing",
                             "announcing", "ended"}]
    /\ spooled \in [Documents -> 0 .. MAX_UPLOAD_PARTS]
    /\ {doomed, workspace, threads, announced} \subseteq SUBSET Documents
    /\ outcome \in [Documents -> Statuses \cup {None}]
    /\ job \in [Jobs -> Over \cup {"waiting", "embedding", "calling", "backoff"}]
    /\ attempt \in [Jobs -> 0 .. retry_attempts]
    /\ {borrowers, late} \subseteq SUBSET Jobs

(* Indexer._limit: the tokens taken are exactly those of the batches at    *)
(* work, and never more than max_concurrent_batches over all documents,    *)
(* however batches fail, are cancelled or linger in a thread.              *)
LimiterIsExact ==
    /\ borrowers = {j \in Jobs : job[j] \in {"embedding", "calling", "backoff"}}
    /\ Cardinality(borrowers) <= max_concurrent_batches

(* upload: "the directory is removed on the way out whatever happens", and *)
(* not while a worker thread still reads the file in it.                   *)
WorkspacesAreRemoved ==
    /\ \A d \in workspace : pc[d] # "ended"
    /\ Api => threads \subseteq workspace

(* EmbeddingService and ChromaVectorStore raise when used before start or  *)
(* after close: no batch at work, the ones a cancelled upload has left     *)
(* behind in a thread included, ever finds them so.                        *)
NothingIsUsedClosed ==
    \A j \in Jobs :
        job[j] \in {"embedding", "calling", "backoff"} =>
            {"embeddings", "store"} \subseteq opened[Main]

(* How far a document has come, in the terms of IndexUpdate. *)
Progress(d) ==
    IF outcome[d] = None
    THEN IF d \in announced THEN "announced" ELSE "writing"
    ELSE IF outcome[d] \in {0, 201} THEN "done" ELSE "failed"

Update == INSTANCE IndexUpdate WITH
    Updates <- Documents,
    wanted <- [d \in Documents |-> Wanted(d)],
    stage <- [d \in Documents |-> Progress(d)]

(* DocumentIngestionPipeline.ingest: nothing is written but the document's *)
(* own rows, success is reported and the version announced only when all   *)
(* of them are in the store, and nothing is written after that; what is    *)
(* written after a failure is what it gave up, and its own.                *)
ImplementsIndexUpdate == Update!Spec

(* A document that is taken up comes to an end, a response to the client   *)
(* or the next source, whatever fails: an upload even if the server never  *)
(* answers, for it has a deadline; a source of the command if the store is *)
(* on disk.  With a server the command may wait for ever.                  *)
EveryUploadEnds ==
    \A d \in Documents : (pc[d] # "idle" /\ (Api \/ ~remote)) ~> (pc[d] = "ended")
=============================================================================
