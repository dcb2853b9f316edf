----------------------------- MODULE RagIngestion -----------------------------
(***************************************************************************)
(* Indexing one uploaded document for retrieval.  Requests upload the same *)
(* content again or ask for a re-index, each through an ingestion job and  *)
(* a task message; workers run the message's job, committing the progress  *)
(* of the document as they go and, last and in one transaction, the chunks *)
(* of a new revision, the document's current revision and the outcome; the *)
(* owner may delete the document at any time, which hides it at once and   *)
(* leaves its chunks and its stored file to a cleanup task.                *)
(*                                                                         *)
(* A worker keeps the document it loaded in its session: its status writes *)
(* do not look at the row again (see RunLifecycle).                        *)
(***************************************************************************)
EXTENDS Naturals, FiniteSets

CONSTANTS
    Requests,      \* upload and re-index requests
    Workers,
    Jobs,          \* ids of RagIngestionJob rows
    NoJob,
    MaxRevision,   \* bound: revision rows
    MaxSent,       \* bound: task messages ever put on the broker
    AllowDbErrors, \* database errors, whose handler cannot write either
    AllowCrash     \* workers may die

ASSUME IngestionAssumption ==
    /\ NoJob \notin Jobs
    /\ MaxRevision \in Nat
    /\ MaxSent \in Nat
    /\ AllowDbErrors \in BOOLEAN
    /\ AllowCrash \in BOOLEAN

VARIABLES
    doc,      \* the committed RagDocument row
    job,      \* the committed status of every RagIngestionJob
    chunks,   \* revisions whose RagChunk rows are committed
    revs,     \* RagDocumentRevision rows created: revisions are 1..revs
    stored,   \* the uploaded file is in object storage
    msgs,     \* index task messages waiting, per job
    cleanups, \* cleanup task messages waiting
    sent,     \* messages ever put on the broker
    rpc, rjob,       \* requests: where they are, the job they hold
    wpc, wjob,       \* workers: where they are, the job they run
    wdoc, wstat,     \* the document's and the job's status in the worker's session
    wrev,            \* the revision the worker builds
    accepted, \* history: pending jobs a re-index request was answered with
    abandoned \* history: jobs whose worker died or lost its database connection

rowVars == <<doc, job, chunks, revs, stored>>
brokerVars == <<msgs, cleanups, sent>>
requestVars == <<rpc, rjob, accepted>>
workerVars == <<wpc, wjob, wdoc, wstat, wrev, abandoned>>
vars == <<doc, job, chunks, revs, stored, msgs, cleanups, sent,
          rpc, rjob, accepted, wpc, wjob, wdoc, wstat, wrev,
          abandoned>>

DocStatuses == {"absent", "uploaded", "parsing", "chunking", "embedding",
                "indexed", "failed", "deleted"}
ActiveJob == {"pending", "running"}
JobStatuses == {"none", "completed", "failed"} \cup ActiveJob

\* get_active_ingestion_job; a partial unique index keeps it from having two.
ActiveJobs == {j \in Jobs : job[j] \in ActiveJob}

Present == doc.status # "absent" /\ ~doc.deleted

Init ==
    /\ doc = [status |-> "absent", deleted |-> FALSE, current |-> 0]
    /\ job = [j \in Jobs |-> "none"]
    /\ chunks = {}
    /\ revs = 0
    /\ stored = FALSE
    /\ msgs = [j \in Jobs |-> 0]
    /\ cleanups = 0
    /\ sent = 0
    /\ rpc = [r \in Requests |-> "idle"]
    /\ rjob = [r \in Requests |-> NoJob]
    /\ wpc = [w \in Workers |-> "idle"]
    /\ wjob = [w \in Workers |-> NoJob]
    /\ wdoc = [w \in Workers |-> "absent"]
    /\ wstat = [w \in Workers |-> "none"]
    /\ wrev = [w \in Workers |-> 0]
    /\ accepted = {}
    /\ abandoned = {}

-----------------------------------------------------------------------------
(* Requests *)

RequestAt(r, phase, j) ==
    /\ rpc' = [rpc EXCEPT ![r] = phase]
    /\ rjob' = [rjob EXCEPT ![r] = j]

\* The first upload: the file is stored, then the document and its job are
\* committed together.
FirstUpload(r, j) ==
    /\ rpc[r] = "idle"
    /\ doc.status = "absent"
    /\ doc' = [doc EXCEPT !.status = "uploaded"]
    /\ job' = [job EXCEPT ![j] = "pending"]
    /\ stored' = TRUE
    /\ RequestAt(r, "publish", j)
    /\ UNCHANGED <<chunks, revs, brokerVars, workerVars, accepted>>

\* The same content again: the document is reused, and so is its active job,
\* which the route queues once more.
UploadAgain(r) ==
    /\ rpc[r] = "idle"
    /\ Present
    /\ \/ \E j \in ActiveJobs : RequestAt(r, "publish", j)
       \/ ActiveJobs = {} /\ RequestAt(r, "createForUpload", NoJob)
    /\ UNCHANGED <<rowVars, brokerVars, workerVars, accepted>>

\* enqueue_document_indexing, up to its look for an active job: with one, that
\* is the answer and nothing is queued.
RequestIndex(r) ==
    /\ rpc[r] = "idle"
    /\ Present
    /\ IF ActiveJobs = {}
         THEN RequestAt(r, "createForIndex", NoJob) /\ UNCHANGED accepted
         ELSE /\ accepted' = accepted \cup {j \in ActiveJobs : job[j] = "pending"}
              /\ UNCHANGED <<rpc, rjob>>
    /\ UNCHANGED <<rowVars, brokerVars, workerVars>>

\* Mutant: nothing in the database keeps a second active job out.
CreateJobUnchecked(r, j) ==
    /\ rpc[r] \in {"createForUpload", "createForIndex"}
    /\ job[j] = "none"
    /\ job' = [job EXCEPT ![j] = "pending"]
    /\ RequestAt(r, "publish", j)
    /\ UNCHANGED <<doc, chunks, revs, stored, brokerVars, workerVars, accepted>>

\* Insert the job and commit.  On a conflict with the index a re-index request
\* answers with the other job, an upload fails.
CreateJob(r, j) ==
    /\ rpc[r] \in {"createForUpload", "createForIndex"}
    /\ IF ActiveJobs = {}
         THEN /\ job[j] = "none"
              /\ job' = [job EXCEPT ![j] = "pending"]
              /\ RequestAt(r, "publish", j)
              /\ UNCHANGED accepted
         ELSE /\ RequestAt(r, "idle", NoJob)
              /\ accepted' = IF rpc[r] = "createForIndex"
                             THEN accepted \cup {k \in ActiveJobs : job[k] = "pending"}
                             ELSE accepted
              /\ UNCHANGED job
    /\ UNCHANGED <<doc, chunks, revs, stored, brokerVars, workerVars>>

\* queue_document_indexing.
Publish(r) ==
    /\ rpc[r] = "publish"
    /\ sent < MaxSent
    /\ msgs' = [msgs EXCEPT ![rjob[r]] = @ + 1]
    /\ sent' = sent + 1
    /\ RequestAt(r, "idle", NoJob)
    /\ UNCHANGED <<rowVars, cleanups, workerVars, accepted>>

\* The broker is unreachable: the request fails, the job stays pending.
PublishFails(r) ==
    /\ rpc[r] \in {"publish", "cleanup"}
    /\ RequestAt(r, "idle", NoJob)
    /\ UNCHANGED <<rowVars, brokerVars, workerVars, accepted>>

\* delete_document, up to its commit.
DeleteDocument(r) ==
    /\ rpc[r] = "idle"
    /\ Present
    /\ doc' = [doc EXCEPT !.status = "deleted", !.deleted = TRUE]
    /\ RequestAt(r, "forget", NoJob)
    /\ UNCHANGED <<job, chunks, revs, stored, brokerVars, workerVars, accepted>>

\* It then invalidates the retrieval cache ...
ForgetDeleted(r) ==
    /\ rpc[r] = "forget"
    /\ RequestAt(r, "cleanup", NoJob)
    /\ UNCHANGED <<rowVars, brokerVars, workerVars, accepted>>

\* ... and queues the cleanup.
QueueCleanup(r) ==
    /\ rpc[r] = "cleanup"
    /\ cleanups' = cleanups + 1
    /\ RequestAt(r, "idle", NoJob)
    /\ UNCHANGED <<rowVars, msgs, sent, workerVars, accepted>>

-----------------------------------------------------------------------------
(* Workers *)

Goto(w, phase) ==
    /\ wpc' = [wpc EXCEPT ![w] = phase]
    /\ UNCHANGED abandoned

LeaveTask(w) ==
    /\ wpc' = [wpc EXCEPT ![w] = "idle"]
    /\ wjob' = [wjob EXCEPT ![w] = NoJob]
    /\ wdoc' = [wdoc EXCEPT ![w] = "absent"]
    /\ wstat' = [wstat EXCEPT ![w] = "none"]
    /\ wrev' = [wrev EXCEPT ![w] = 0]

EndTask(w) == LeaveTask(w) /\ UNCHANGED abandoned

\* The worker is gone, or its session cannot write: its job may stay RUNNING.
Abandon(w) == LeaveTask(w) /\ abandoned' = abandoned \cup {wjob[w]}

\* A task that raises is published again, until its retries are used up.
Retried(w) ==
    \/ /\ sent < MaxSent
       /\ msgs' = [msgs EXCEPT ![wjob[w]] = @ + 1]
       /\ sent' = sent + 1
    \/ UNCHANGED <<msgs, sent>>

\* A flush of the document's status, and of the job's, from the session's objects.
DocStatus(w, s) == IF wdoc[w] # s THEN s ELSE doc.status
JobStatus(w, s) ==
    [job EXCEPT ![wjob[w]] = IF wstat[w] # s THEN s ELSE @]

Deliver(w, j) ==
    /\ wpc[w] = "idle"
    /\ msgs[j] > 0
    /\ msgs' = [msgs EXCEPT ![j] = @ - 1]
    /\ wjob' = [wjob EXCEPT ![w] = j]
    /\ Goto(w, "load")
    /\ UNCHANGED <<rowVars, cleanups, sent, requestVars, wdoc, wstat, wrev>>

\* Load the document and the job; a deleted document is a 404.
Load(w) ==
    /\ wpc[w] = "load"
    /\ IF Present
         THEN /\ wdoc' = [wdoc EXCEPT ![w] = doc.status]
              /\ wstat' = [wstat EXCEPT ![w] = job[wjob[w]]]
              /\ Goto(w, "start")
              /\ UNCHANGED <<wjob, wrev, msgs, sent>>
         ELSE EndTask(w) /\ Retried(w)
    /\ UNCHANGED <<rowVars, cleanups, requestVars>>

\* Mark the job RUNNING, whatever it was, and the document PARSING; if that
\* writes the job's status, the unique index refuses a second active job.
Start(w) ==
    /\ wpc[w] = "start"
    /\ IF wstat[w] = "running" \/ ActiveJobs \subseteq {wjob[w]}
         THEN /\ job' = JobStatus(w, "running")
              /\ doc' = [doc EXCEPT !.status = DocStatus(w, "parsing")]
              /\ wdoc' = [wdoc EXCEPT ![w] = "parsing"]
              /\ wstat' = [wstat EXCEPT ![w] = "running"]
              /\ Goto(w, "parsing")
              /\ UNCHANGED <<wjob, wrev, msgs, sent>>
         ELSE EndTask(w) /\ Retried(w) /\ UNCHANGED <<job, doc>>
    /\ UNCHANGED <<chunks, revs, stored, cleanups, requestVars>>

\* Download, parse, commit.
Parse(w) ==
    /\ wpc[w] = "parsing"
    /\ stored
    /\ doc' = [doc EXCEPT !.status = DocStatus(w, "chunking")]
    /\ wdoc' = [wdoc EXCEPT ![w] = "chunking"]
    /\ Goto(w, "chunking")
    /\ UNCHANGED <<job, chunks, revs, stored, brokerVars, requestVars, wjob, wstat, wrev>>

\* What a progress commit after chunking does, given the status it reports.
ChunkAs(w, s) ==
    /\ wpc[w] = "chunking"
    /\ revs < MaxRevision
    /\ revs' = revs + 1
    /\ wrev' = [wrev EXCEPT ![w] = revs + 1]
    /\ doc' = [doc EXCEPT !.status = DocStatus(w, s)]
    /\ wdoc' = [wdoc EXCEPT ![w] = s]
    /\ Goto(w, "embedding")
    /\ UNCHANGED <<job, chunks, stored, brokerVars, requestVars, wjob, wstat>>

\* Mutant: the document is called indexed before its chunks are stored.
ChunkIndexed(w) == ChunkAs(w, "indexed")

\* Create the revision row, chunk, commit.
Chunk(w) == ChunkAs(w, "embedding")

\* The document's columns that the worker's flush writes.
Indexed(w) == [doc EXCEPT !.status = DocStatus(w, "indexed"), !.current = wrev[w]]

FinishWith(w, rows, document) ==
    /\ wpc[w] = "embedding"
    /\ chunks' = rows
    /\ doc' = document
    /\ job' = JobStatus(w, "completed")
    /\ wdoc' = [wdoc EXCEPT ![w] = "indexed"]
    /\ wstat' = [wstat EXCEPT ![w] = "completed"]
    /\ Goto(w, "invalidate")
    /\ UNCHANGED <<revs, stored, brokerVars, requestVars, wjob, wrev>>

\* Mutant: the rows of earlier revisions are replaced.
FinishReplacing(w) == FinishWith(w, {wrev[w]}, Indexed(w))

\* Mutant: the whole document is written as it was loaded.
FinishWholeRow(w) ==
    FinishWith(w, chunks \cup {wrev[w]}, [Indexed(w) EXCEPT !.deleted = FALSE])

\* Embed; then in one transaction add the revision's chunks, make it current,
\* mark the document INDEXED and the job COMPLETED.
Finish(w) == FinishWith(w, chunks \cup {wrev[w]}, Indexed(w))

\* After the commit the retrieval cache is invalidated, best effort.
Invalidate(w) ==
    /\ wpc[w] = "invalidate"
    /\ EndTask(w)
    /\ UNCHANGED <<rowVars, brokerVars, requestVars>>

Working == {"parsing", "chunking", "embedding"}

\* Mutant: only the document is marked.
FailDocumentOnly(w) ==
    /\ wpc[w] \in Working
    /\ doc' = [doc EXCEPT !.status = DocStatus(w, "failed")]
    /\ EndTask(w)
    /\ Retried(w)
    /\ UNCHANGED <<job, chunks, revs, stored, cleanups, requestVars>>

\* The exception handlers: mark document and job FAILED, commit, raise.  They
\* do not roll back: the revision row or the chunks the failed step had flushed
\* are committed with the failure.
Fail(w) ==
    /\ wpc[w] \in Working
    /\ doc' = [doc EXCEPT !.status = DocStatus(w, "failed")]
    /\ job' = JobStatus(w, "failed")
    /\ \/ UNCHANGED <<chunks, revs>>
       \/ wpc[w] = "chunking" /\ revs < MaxRevision /\ revs' = revs + 1 /\ UNCHANGED chunks
       \/ wpc[w] = "embedding" /\ chunks' = chunks \cup {wrev[w]} /\ UNCHANGED revs
    /\ EndTask(w)
    /\ Retried(w)
    /\ UNCHANGED <<stored, cleanups, requestVars>>

\* A database error leaves a transaction in which the handlers cannot write.
DbError(w) ==
    /\ AllowDbErrors
    /\ wpc[w] # "idle"
    /\ Abandon(w)
    /\ Retried(w)
    /\ UNCHANGED <<rowVars, cleanups, requestVars>>

\* cleanup_deleted_document: delete the chunk rows, then the stored file, whose
\* failure is only logged, then commit.  Without the commit the task is retried
\* or given up.
Cleanup ==
    /\ cleanups > 0
    /\ stored' \in {stored, FALSE}
    /\ \/ chunks' = {} /\ cleanups' = cleanups - 1
       \/ UNCHANGED chunks /\ cleanups' \in {cleanups, cleanups - 1}
    /\ UNCHANGED <<doc, job, revs, msgs, sent, requestVars, workerVars>>

Crash(w) ==
    /\ AllowCrash
    /\ wpc[w] # "idle"
    /\ Abandon(w)
    /\ UNCHANGED <<rowVars, brokerVars, requestVars>>

-----------------------------------------------------------------------------

Request(r) ==
    \/ \E j \in Jobs : FirstUpload(r, j)
    \/ UploadAgain(r)
    \/ RequestIndex(r)
    \/ DeleteDocument(r)

Respond(r) ==
    \/ \E j \in Jobs : CreateJob(r, j)
    \/ Publish(r)
    \/ QueueCleanup(r)

\* index_document, once its message was delivered.
Index(w) ==
    Load(w) \/ Start(w) \/ Parse(w) \/ Chunk(w) \/ Finish(w) \/ Fail(w)

Take(w) == \E j \in Jobs : Deliver(w, j)

Next ==
    \/ \E r \in Requests :
        Request(r) \/ Respond(r) \/ PublishFails(r) \/ ForgetDeleted(r)
    \/ \E w \in Workers :
        Take(w) \/ Index(w) \/ DbError(w) \/ Crash(w) \/ Invalidate(w)
    \/ Cleanup

Spec == Init /\ [][Next]_vars

\* Requests are answered, workers take messages and run on; nothing is assumed
\* of what users ask for or of the broker accepting a message.
FairSpec ==
    /\ Spec
    /\ \A r \in Requests : WF_vars(Respond(r) \/ ForgetDeleted(r))
    /\ \A w \in Workers : WF_vars(Take(w) \/ Index(w) \/ Invalidate(w))

-----------------------------------------------------------------------------
(* Retrieval's view of the index *)

\* Mutant: the filter forgets the revision.
SearchableAllRevisions == IF doc.status = "indexed" /\ ~doc.deleted THEN chunks ELSE {}

\* The revisions whose chunks a search without a revision list returns.
Searchable ==
    IF doc.status = "indexed" /\ ~doc.deleted THEN chunks \cap {doc.current} ELSE {}

-----------------------------------------------------------------------------
(* Properties *)

\* Types of the rows, the queues, the requests and the workers' sessions; what
\* is published names a job, a worker at work has one, and what it embeds
\* belongs to a revision.
TypeOK ==
    /\ doc \in [status : DocStatuses, deleted : BOOLEAN, current : 0..MaxRevision]
    /\ job \in [Jobs -> JobStatuses]
    /\ chunks \in SUBSET (1..MaxRevision)
    /\ revs \in 0..MaxRevision
    /\ stored \in BOOLEAN
    /\ msgs \in [Jobs -> Nat]
    /\ cleanups \in Nat
    /\ sent \in 0..MaxSent
    /\ rpc \in [Requests -> {"idle", "createForUpload", "createForIndex",
                             "publish", "forget", "cleanup"}]
    /\ rjob \in [Requests -> Jobs \cup {NoJob}]
    /\ wpc \in [Workers -> {"idle", "load", "start", "invalidate"} \cup Working]
    /\ wjob \in [Workers -> Jobs \cup {NoJob}]
    /\ wdoc \in [Workers -> DocStatuses]
    /\ wstat \in [Workers -> JobStatuses]
    /\ wrev \in [Workers -> 0..MaxRevision]
    /\ accepted \in SUBSET Jobs
    /\ abandoned \in SUBSET Jobs
    /\ \A r \in Requests : rpc[r] = "publish" <=> rjob[r] # NoJob
    /\ \A w \in Workers : wpc[w] = "idle" <=> wjob[w] = NoJob
    /\ \A w \in Workers : wpc[w] = "embedding" => wrev[w] > 0

\* Two requests that both saw no active job, and retries of jobs that had
\* ended, never leave the document with two active jobs.
OneActiveJob == Cardinality(ActiveJobs) <= 1

\* A document that retrieval takes for indexed has the chunks of its current
\* revision, however many workers index it at once and wherever they fail.
IndexedIsComplete ==
    doc.status = "indexed" /\ ~doc.deleted => doc.current \in chunks

\* Indexing appends: the chunks of a revision, once committed, stay for the
\* frozen scopes that name it until the document is deleted.
RevisionsStay == [][~doc.deleted => chunks \subseteq chunks']_vars

\* A deleted document is never found again, although a worker that loaded it
\* before goes on, writes its columns, adds chunks and calls it INDEXED.
DeletedIsNotFound == [][doc.deleted => Searchable' = {}]_vars

\* A job a worker started ends COMPLETED or FAILED, unless the worker dies or
\* its database connection does.
StartedJobEnds ==
    \A j \in Jobs :
        job[j] = "running" ~> (job[j] \in {"completed", "failed"} \/ j \in abandoned)

\* The documented answer to a re-index request: 202 with a pending job that was
\* queued, so that it is executed (unless the document is deleted).
AcceptedReindexRuns ==
    \A j \in Jobs : (j \in accepted /\ job[j] = "pending") ~> (job[j] # "pending" \/ doc.deleted)

-----------------------------------------------------------------------------
(* The inductive invariant behind the safety properties *)

\* At most one active job, without counting.
AtMostOneActive == \A i, j \in ActiveJobs : i = j

\* Clean-ups are queued by deletions only.
CleanupInv ==
    (cleanups > 0 \/ \E r \in Requests : rpc[r] \in {"forget", "cleanup"})
        => doc.deleted

\* Before the first upload nothing is under way.
UploadInv ==
    doc.status = "absent" =>
        /\ \A j \in Jobs : job[j] = "none" /\ msgs[j] = 0
        /\ \A r \in Requests : rpc[r] = "idle"
        /\ \A w \in Workers : wpc[w] = "idle"

\* What keeps the safety properties true from step to step: the unique index
\* leaves one active job, and chunks are removed under a deleted document only,
\* so that the current revision of an indexed one keeps its chunks.
IInv == TypeOK /\ UploadInv /\ AtMostOneActive /\ CleanupInv /\ IndexedIsComplete
=============================================================================
