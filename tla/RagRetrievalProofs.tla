-------------------------- MODULE RagRetrievalProofs --------------------------
(***************************************************************************)
(* Proofs about the index and the questions asked of it, for any sets of   *)
(* requests, workers, jobs, questions and users and any bounds.            *)
(*                                                                         *)
(* RagIngestion: the types, the inductive invariant IInv, and from it the  *)
(* one active job, the complete current revision, the revisions that stay  *)
(* and the deleted document that is never found.                           *)
(*                                                                         *)
(* RagRetrieval, whatever the index does: the types, that what is answered *)
(* had been indexed completely, and that an answer with validated          *)
(* citations draws on one revision.  A step of the index is one of         *)
(* RagIngestion, whose invariant says that what a search finds is the      *)
(* current revision; a question then only holds, or leaves in the cache,   *)
(* what the document's readers were once served.                           *)
(***************************************************************************)
EXTENDS RagRetrieval, FiniteSetTheorems, TLAPS

-----------------------------------------------------------------------------
(* What the flushes write *)

\* A flush of the document's status leaves a document of the right type, with
\* its other columns as they were.
LEMMA DocTypes ==
    ASSUME TypeOK, NEW w \in Workers, NEW s \in DocStatuses
    PROVE  LET d == [doc EXCEPT !.status = DocStatus(w, s)]
           IN  /\ d \in [status : DocStatuses, deleted : BOOLEAN, current : 0..MaxRevision]
               /\ d.deleted = doc.deleted
               /\ d.current = doc.current
               /\ d.status \in {s, doc.status}
  BY DEF TypeOK, DocStatus

\* A flush of the job's status touches the worker's job only.
LEMMA JobTypes ==
    ASSUME TypeOK, NEW w \in Workers, NEW s \in JobStatuses
    PROVE  LET k == JobStatus(w, s)
           IN  /\ k \in [Jobs -> JobStatuses]
               /\ \A j \in Jobs : j # wjob[w] => k[j] = job[j]
               /\ \A j \in Jobs : k[j] \in {s, job[j]}
  BY DEF TypeOK, JobStatus

\* Leaving a task clears the worker's session.
LEMMA LeaveTypes ==
    ASSUME TypeOK, NEW w \in Workers, LeaveTask(w)
    PROVE  /\ wpc' \in [Workers -> {"idle", "load", "start", "invalidate"} \cup Working]
           /\ wjob' \in [Workers -> Jobs \cup {NoJob}]
           /\ wdoc' \in [Workers -> DocStatuses]
           /\ wstat' \in [Workers -> JobStatuses]
           /\ wrev' \in [Workers -> 0..MaxRevision]
           /\ \A v \in Workers : wpc'[v] = "idle" <=> wjob'[v] = NoJob
           /\ \A v \in Workers : wpc'[v] = "embedding" => wrev'[v] > 0
  BY IngestionAssumption DEF TypeOK, LeaveTask, DocStatuses, JobStatuses

\* A raised task is published again within the bound, or given up.
LEMMA RetriedTypes ==
    ASSUME TypeOK, NEW w \in Workers, wpc[w] # "idle", Retried(w)
    PROVE  msgs' \in [Jobs -> Nat] /\ sent' \in 0..MaxSent
  <1>1. wjob[w] \in Jobs
    BY DEF TypeOK
  <1> QED
    BY <1>1, IngestionAssumption DEF TypeOK, Retried

-----------------------------------------------------------------------------
(* Types *)

\* Requests keep the types.
LEMMA RequestTypes ==
    ASSUME TypeOK, NEW r \in Requests,
           Request(r) \/ Respond(r) \/ PublishFails(r) \/ ForgetDeleted(r)
    PROVE  TypeOK'
  <1> USE DEF rowVars, brokerVars, requestVars, workerVars
  <1>1. CASE \E j \in Jobs : FirstUpload(r, j)
    BY <1>1, IngestionAssumption
    DEF FirstUpload, RequestAt, TypeOK, DocStatuses, JobStatuses, ActiveJob
  <1>2. CASE UploadAgain(r)
    BY <1>2, IngestionAssumption DEF UploadAgain, RequestAt, TypeOK, ActiveJobs
  <1>3. CASE RequestIndex(r)
    BY <1>3, IngestionAssumption DEF RequestIndex, RequestAt, TypeOK, ActiveJobs
  <1>4. CASE DeleteDocument(r)
    BY <1>4, IngestionAssumption DEF DeleteDocument, RequestAt, TypeOK, DocStatuses
  <1>5. CASE \E j \in Jobs : CreateJob(r, j)
    BY <1>5, IngestionAssumption
    DEF CreateJob, RequestAt, TypeOK, ActiveJobs, JobStatuses, ActiveJob
  <1>6. CASE Publish(r)
    <2>1. rjob[r] \in Jobs
      BY <1>6 DEF Publish, TypeOK
    <2> QED
      BY <1>6, <2>1, IngestionAssumption DEF Publish, RequestAt, TypeOK
  <1>7. CASE QueueCleanup(r)
    BY <1>7, IngestionAssumption DEF QueueCleanup, RequestAt, TypeOK
  <1>8. CASE PublishFails(r)
    BY <1>8, IngestionAssumption DEF PublishFails, RequestAt, TypeOK
  <1>9. CASE ForgetDeleted(r)
    BY <1>9, IngestionAssumption DEF ForgetDeleted, RequestAt, TypeOK
  <1> QED
    BY <1>1, <1>2, <1>3, <1>4, <1>5, <1>6, <1>7, <1>8, <1>9 DEF Request, Respond

\* Workers keep the types.
LEMMA WorkerTypes ==
    ASSUME TypeOK, NEW w \in Workers,
           Take(w) \/ Index(w) \/ DbError(w) \/ Crash(w) \/ Invalidate(w)
    PROVE  TypeOK'
  <1> USE DEF rowVars, brokerVars, requestVars, workerVars
  <1>0. {"absent", "parsing", "chunking", "embedding", "indexed", "failed"} \subseteq DocStatuses
        /\ {"none", "running", "completed", "failed"} \subseteq JobStatuses
    BY DEF DocStatuses, JobStatuses, ActiveJob
  <1>1. CASE Take(w)
    <2> PICK j \in Jobs : Deliver(w, j)
      BY <1>1 DEF Take
    <2> QED
      BY IngestionAssumption DEF Deliver, Goto, TypeOK
  <1>2. CASE Load(w)
    <2>1. CASE Present
      BY <1>2, <2>1 DEF Load, Goto, TypeOK
    <2>2. CASE ~Present
      BY <1>2, <2>2, LeaveTypes, RetriedTypes DEF Load, EndTask, TypeOK
    <2> QED
      BY <2>1, <2>2
  <1>3. CASE Start(w)
    <2>1. CASE wstat[w] = "running" \/ ActiveJobs \subseteq {wjob[w]}
      <3>1. doc' \in [status : DocStatuses, deleted : BOOLEAN, current : 0..MaxRevision]
        BY <1>0, <1>3, <2>1, DocTypes DEF Start
      <3>2. job' \in [Jobs -> JobStatuses]
        BY <1>0, <1>3, <2>1, JobTypes DEF Start
      <3> QED
        BY <1>0, <1>3, <2>1, <3>1, <3>2 DEF Start, Goto, TypeOK, Working
    <2>2. CASE ~(wstat[w] = "running" \/ ActiveJobs \subseteq {wjob[w]})
      BY <1>3, <2>2, LeaveTypes, RetriedTypes DEF Start, EndTask, TypeOK
    <2> QED
      BY <2>1, <2>2
  <1>4. CASE Parse(w)
    BY <1>0, <1>4, DocTypes DEF Parse, Goto, TypeOK, Working
  <1>5. CASE Chunk(w)
    BY <1>0, <1>5, DocTypes, IngestionAssumption DEF Chunk, ChunkAs, Goto, TypeOK, Working
  <1>6. CASE Finish(w)
    <2> DEFINE flushed == [doc EXCEPT !.status = DocStatus(w, "indexed")]
    <2>1. /\ flushed \in [status : DocStatuses, deleted : BOOLEAN, current : 0..MaxRevision]
          /\ doc' = [flushed EXCEPT !.current = wrev[w]]
          /\ wrev[w] \in 0..MaxRevision
      BY <1>0, <1>6, DocTypes DEF Finish, FinishWith, Indexed, TypeOK
    <2> HIDE DEF flushed
    <2>2. doc' \in [status : DocStatuses, deleted : BOOLEAN, current : 0..MaxRevision]
      BY <2>1
    <2>3. job' \in [Jobs -> JobStatuses]
      BY <1>0, <1>6, JobTypes DEF Finish, FinishWith
    <2> QED
      <3>1. chunks' \in SUBSET (1..MaxRevision)
        BY <1>6, <2>1 DEF Finish, FinishWith, TypeOK
      <3> QED
        BY <1>0, <1>6, <2>2, <2>3, <3>1 DEF Finish, FinishWith, Goto, TypeOK, Working
  <1>7. CASE Fail(w)
    <2>1. doc' \in [status : DocStatuses, deleted : BOOLEAN, current : 0..MaxRevision]
      BY <1>0, <1>7, DocTypes DEF Fail
    <2>2. job' \in [Jobs -> JobStatuses]
      BY <1>0, <1>7, JobTypes DEF Fail
    <2>3. chunks' \in SUBSET (1..MaxRevision) /\ revs' \in 0..MaxRevision
      BY <1>7, IngestionAssumption DEF Fail, TypeOK
    <2>4. wpc[w] # "idle"
      BY <1>7 DEF Fail, Working
    <2> QED
      BY <1>7, <2>1, <2>2, <2>3, <2>4, LeaveTypes, RetriedTypes DEF Fail, EndTask, TypeOK
  <1>8. CASE DbError(w)
    BY <1>8, LeaveTypes, RetriedTypes DEF DbError, Abandon, TypeOK
  <1>9. CASE Crash(w)
    BY <1>9, LeaveTypes DEF Crash, Abandon, TypeOK
  <1>10. CASE Invalidate(w)
    BY <1>10, LeaveTypes DEF Invalidate, EndTask, TypeOK
  <1> QED
    BY <1>1, <1>2, <1>3, <1>4, <1>5, <1>6, <1>7, <1>8, <1>9, <1>10 DEF Index

\* The clean-up keeps the types.
LEMMA CleanupTypes ==
    ASSUME TypeOK, Cleanup
    PROVE  TypeOK'
  <1>1. cleanups \in Nat \ {0} /\ cleanups' \in {cleanups, cleanups - 1}
    BY DEF TypeOK, Cleanup
  <1>2. cleanups' \in Nat
    BY <1>1
  <1>3. chunks' \in SUBSET (1..MaxRevision)
    BY DEF TypeOK, Cleanup
  <1>4. stored' \in BOOLEAN
    BY Zenon DEF TypeOK, Cleanup
  <1> QED
    BY <1>2, <1>3, <1>4 DEF TypeOK, Cleanup, requestVars, workerVars

\* Every step keeps the types.
LEMMA StepTypes ==
    ASSUME TypeOK, [Next]_vars
    PROVE  TypeOK'
  <1>1. CASE UNCHANGED vars
    BY <1>1 DEF TypeOK, vars
  <1> QED
    BY <1>1, RequestTypes, WorkerTypes, CleanupTypes DEF Next

\* The initial state is well-typed.
LEMMA InitTypes ==
    ASSUME Init
    PROVE  TypeOK
  <1>1. doc \in [status : DocStatuses, deleted : BOOLEAN, current : 0..MaxRevision]
    BY IngestionAssumption DEF Init, DocStatuses
  <1>2. stored \in BOOLEAN
    BY Zenon DEF Init
  <1> QED
    BY <1>1, <1>2, IngestionAssumption DEF Init, TypeOK, DocStatuses, JobStatuses

\* The rows, queues, requests and sessions keep their types: what is published
\* names a job, and a worker at work has one.
THEOREM TypeCorrect == Spec => []TypeOK
  <1>1. Init => TypeOK
    BY InitTypes
  <1>2. TypeOK /\ [Next]_vars => TypeOK'
    BY StepTypes
  <1> QED
    BY <1>1, <1>2, PTL DEF Spec
-----------------------------------------------------------------------------
(* What a step may do to the document and its chunks *)

\* The moves of the document's row and chunks outside the clean-up: a deletion
\* is for good, chunks are only added, and the document becomes indexed, or
\* changes its revision, together with that revision's chunks.
DocMoves ==
    /\ doc.deleted => doc'.deleted
    /\ chunks \subseteq chunks'
    /\ doc'.status = "absent" => doc.status = "absent"
    /\ doc'.status = "indexed" =>
         \/ doc.status = "indexed" /\ doc'.current = doc.current
         \/ doc'.current \in chunks'

\* Requests move the document that way.
LEMMA RequestMoves ==
    ASSUME TypeOK, NEW r \in Requests,
           Request(r) \/ Respond(r) \/ PublishFails(r) \/ ForgetDeleted(r)
    PROVE  DocMoves
  <1> USE DEF rowVars, DocMoves, TypeOK
  <1>1. CASE \E j \in Jobs : FirstUpload(r, j)
    BY <1>1 DEF FirstUpload
  <1>2. CASE DeleteDocument(r)
    BY <1>2 DEF DeleteDocument
  <1>3. CASE UploadAgain(r) \/ RequestIndex(r) \/ Publish(r) \/ QueueCleanup(r)
               \/ PublishFails(r) \/ ForgetDeleted(r) \/ \E j \in Jobs : CreateJob(r, j)
    BY <1>3
    DEF UploadAgain, RequestIndex, Publish, QueueCleanup, PublishFails,
        ForgetDeleted, CreateJob
  <1> QED
    BY <1>1, <1>2, <1>3 DEF Request, Respond

\* Workers move the document that way.
LEMMA WorkerMoves ==
    ASSUME TypeOK, NEW w \in Workers,
           Take(w) \/ Index(w) \/ DbError(w) \/ Crash(w) \/ Invalidate(w)
    PROVE  DocMoves
  <1> USE DEF rowVars, DocMoves
  <1>0. /\ {"parsing", "chunking", "embedding", "indexed", "failed"} \subseteq DocStatuses
        /\ "absent" \notin {"parsing", "chunking", "embedding", "indexed", "failed"}
    BY DEF DocStatuses
  <1>1. CASE Take(w) \/ Load(w) \/ DbError(w) \/ Crash(w) \/ Invalidate(w)
    BY <1>1 DEF Take, Deliver, Load, DbError, Crash, Invalidate
  <1>2. CASE Start(w)
    <2>1. CASE doc' = [doc EXCEPT !.status = DocStatus(w, "parsing")]
      BY <1>0, <1>2, <2>1, DocTypes DEF Start
    <2>2. CASE UNCHANGED doc
      BY <1>2, <2>2 DEF Start
    <2> QED
      BY <1>2, <2>1, <2>2 DEF Start
  <1>3. CASE Parse(w)
    BY <1>0, <1>3, DocTypes DEF Parse
  <1>4. CASE Chunk(w)
    BY <1>0, <1>4, DocTypes DEF Chunk, ChunkAs
  <1>5. CASE Finish(w)
    <2> DEFINE flushed == [doc EXCEPT !.status = DocStatus(w, "indexed")]
    <2>1. /\ flushed \in [status : DocStatuses, deleted : BOOLEAN, current : 0..MaxRevision]
          /\ flushed.deleted = doc.deleted
          /\ flushed.status \in {"indexed", doc.status}
          /\ doc' = [flushed EXCEPT !.current = wrev[w]]
          /\ chunks' = chunks \cup {wrev[w]}
      BY <1>0, <1>5, DocTypes DEF Finish, FinishWith, Indexed
    <2> HIDE DEF flushed
    <2> QED
      BY <1>0, <2>1
  <1>6. CASE Fail(w)
    BY <1>0, <1>6, DocTypes DEF Fail
  <1> QED
    BY <1>1, <1>2, <1>3, <1>4, <1>5, <1>6 DEF Index

\* Under DocMoves an indexed document stays complete.
LEMMA MovesKeepIndexed ==
    ASSUME IndexedIsComplete, DocMoves
    PROVE  IndexedIsComplete'
  BY DEF IndexedIsComplete, DocMoves

-----------------------------------------------------------------------------
(* The active job *)

\* Requests create a job only when none is active.
LEMMA RequestJobs ==
    ASSUME TypeOK, UploadInv, AtMostOneActive, NEW r \in Requests,
           Request(r) \/ Respond(r) \/ PublishFails(r) \/ ForgetDeleted(r)
    PROVE  AtMostOneActive'
  <1> USE DEF rowVars, AtMostOneActive, ActiveJobs
  <1>1. CASE \E j \in Jobs : FirstUpload(r, j)
    BY <1>1 DEF FirstUpload, UploadInv, TypeOK, ActiveJob
  <1>2. CASE \E j \in Jobs : CreateJob(r, j)
    BY <1>2 DEF CreateJob, TypeOK
  <1>3. CASE UploadAgain(r) \/ RequestIndex(r) \/ Publish(r) \/ QueueCleanup(r)
               \/ PublishFails(r) \/ ForgetDeleted(r) \/ DeleteDocument(r)
    BY <1>3
    DEF UploadAgain, RequestIndex, Publish, QueueCleanup, PublishFails,
        ForgetDeleted, DeleteDocument
  <1> QED
    BY <1>1, <1>2, <1>3 DEF Request, Respond

\* Workers make a job active only where no other is, and otherwise end one.
LEMMA WorkerJobs ==
    ASSUME TypeOK, AtMostOneActive, NEW w \in Workers,
           Take(w) \/ Index(w) \/ DbError(w) \/ Crash(w) \/ Invalidate(w)
    PROVE  AtMostOneActive'
  <1> USE DEF rowVars, AtMostOneActive, ActiveJobs
  <1>0. /\ {"running", "completed", "failed"} \subseteq JobStatuses
        /\ "completed" \notin ActiveJob /\ "failed" \notin ActiveJob
    BY DEF JobStatuses, ActiveJob
  <1>1. CASE Take(w) \/ Load(w) \/ Parse(w) \/ Chunk(w) \/ DbError(w) \/ Crash(w)
               \/ Invalidate(w)
    BY <1>1 DEF Take, Deliver, Load, Parse, Chunk, ChunkAs, DbError, Crash, Invalidate
  <1>2. CASE Start(w)
    <2>1. CASE wstat[w] = "running"
      BY <1>2, <2>1 DEF Start, JobStatus, TypeOK
    <2>2. CASE wstat[w] # "running" /\ ActiveJobs \subseteq {wjob[w]}
      <3>1. \A j \in Jobs : j # wjob[w] => job'[j] = job[j]
        BY <1>0, <1>2, <2>2, JobTypes DEF Start
      <3> QED
        BY <2>2, <3>1
    <2>3. CASE UNCHANGED job
      BY <2>3
    <2> QED
      BY <1>2, <2>1, <2>2, <2>3 DEF Start
  <1>3. CASE Finish(w)
    <2>1. \A j \in Jobs : job'[j] \in {"completed", job[j]}
      BY <1>0, <1>3, JobTypes DEF Finish, FinishWith
    <2> QED
      BY <1>0, <2>1
  <1>4. CASE Fail(w)
    <2>1. \A j \in Jobs : job'[j] \in {"failed", job[j]}
      BY <1>0, <1>4, JobTypes DEF Fail
    <2> QED
      BY <1>0, <2>1
  <1> QED
    BY <1>1, <1>2, <1>3, <1>4 DEF Index
-----------------------------------------------------------------------------
(* The inductive invariant *)

\* Initially nothing is active, queued or indexed.
LEMMA InitInvariant ==
    ASSUME Init
    PROVE  IInv
  <1>1. UploadInv /\ AtMostOneActive
    BY DEF Init, UploadInv, AtMostOneActive, ActiveJobs, ActiveJob
  <1>2. CleanupInv /\ IndexedIsComplete
    BY DEF Init, CleanupInv, IndexedIsComplete
  <1> QED
    BY <1>1, <1>2, InitTypes DEF IInv

\* Requests keep it.
LEMMA RequestInvariant ==
    ASSUME IInv, NEW r \in Requests,
           Request(r) \/ Respond(r) \/ PublishFails(r) \/ ForgetDeleted(r)
    PROVE  IInv'
  <1> USE DEF IInv
  <1>1. DocMoves /\ TypeOK' /\ AtMostOneActive' /\ IndexedIsComplete'
    BY RequestMoves, RequestTypes, RequestJobs, MovesKeepIndexed
  <1>2. UploadInv'
    <2> SUFFICES ASSUME doc'.status = "absent"
                 PROVE  FALSE
      BY DEF UploadInv
    <2>1. doc.status = "absent" /\ rpc[r] = "idle" /\ ~Present
      BY <1>1 DEF DocMoves, UploadInv, Present
    <2>2. \E j \in Jobs : FirstUpload(r, j)
      BY <2>1
      DEF Request, Respond, PublishFails, ForgetDeleted, UploadAgain, RequestIndex,
          DeleteDocument, CreateJob, Publish, QueueCleanup
    <2> QED
      BY <2>2 DEF FirstUpload, TypeOK
  <1>3. CleanupInv'
    <2> USE DEF CleanupInv, TypeOK, brokerVars, rowVars
    <2>1. CASE DeleteDocument(r)
      BY <2>1 DEF DeleteDocument
    <2>2. CASE ForgetDeleted(r) \/ QueueCleanup(r)
      BY <2>2 DEF ForgetDeleted, QueueCleanup, RequestAt
    <2>3. CASE (\E j \in Jobs : FirstUpload(r, j)) \/ UploadAgain(r) \/ RequestIndex(r)
                 \/ (\E j \in Jobs : CreateJob(r, j)) \/ Publish(r) \/ PublishFails(r)
      <3>1. cleanups' = cleanups
        BY <2>3
        DEF FirstUpload, UploadAgain, RequestIndex, CreateJob, Publish, PublishFails
      <3>2. \A q \in Requests :
               rpc'[q] \in {"forget", "cleanup"} => rpc[q] \in {"forget", "cleanup"}
        BY <2>3
        DEF FirstUpload, UploadAgain, RequestIndex, CreateJob, Publish, PublishFails,
            RequestAt
      <3> QED
        BY <1>1, <3>1, <3>2 DEF DocMoves
    <2> QED
      BY <2>1, <2>2, <2>3 DEF Request, Respond
  <1> QED
    BY <1>1, <1>2, <1>3

\* Workers keep it.
LEMMA WorkerInvariant ==
    ASSUME IInv, NEW w \in Workers,
           Take(w) \/ Index(w) \/ DbError(w) \/ Crash(w) \/ Invalidate(w)
    PROVE  IInv'
  <1> USE DEF IInv
  <1>1. DocMoves /\ TypeOK' /\ AtMostOneActive' /\ IndexedIsComplete'
    BY WorkerMoves, WorkerTypes, WorkerJobs, MovesKeepIndexed
  <1>2. UploadInv'
    <2> SUFFICES ASSUME doc'.status = "absent"
                 PROVE  FALSE
      BY DEF UploadInv
    <2>1. wpc[w] = "idle" /\ \A j \in Jobs : msgs[j] = 0
      BY <1>1 DEF DocMoves, UploadInv
    <2> QED
      BY <2>1
      DEF Take, Deliver, Index, Load, Start, Parse, Chunk, ChunkAs, Finish, FinishWith,
          Fail, Working, DbError, Crash, Invalidate
  <1>3. UNCHANGED <<cleanups, rpc>>
    BY DEF Take, Deliver, Index, Load, Start, Parse, Chunk, ChunkAs, Finish, FinishWith,
           Fail, DbError, Crash, Invalidate, brokerVars, requestVars
  <1>4. CleanupInv'
    BY <1>1, <1>3 DEF CleanupInv, DocMoves
  <1> QED
    BY <1>1, <1>2, <1>4

\* The clean-up keeps it: it runs for a deleted document.
LEMMA CleanupInvariant ==
    ASSUME IInv, Cleanup
    PROVE  IInv'
  <1> USE DEF IInv
  <1>1. doc.deleted
    BY DEF Cleanup, CleanupInv
  <1>2. UNCHANGED <<doc, job, msgs, rpc, wpc>>
    BY DEF Cleanup, requestVars, workerVars
  <1>3. UploadInv' /\ AtMostOneActive' /\ CleanupInv' /\ IndexedIsComplete'
    BY <1>1, <1>2
    DEF UploadInv, AtMostOneActive, ActiveJobs, CleanupInv, IndexedIsComplete
  <1> QED
    BY <1>3, CleanupTypes

\* Every step keeps it.
LEMMA StepInvariant ==
    ASSUME IInv, [Next]_vars
    PROVE  IInv'
  <1>1. CASE UNCHANGED vars
    BY <1>1, StepTypes
    DEF IInv, vars, UploadInv, AtMostOneActive, ActiveJobs, CleanupInv, IndexedIsComplete
  <1> QED
    BY <1>1, RequestInvariant, WorkerInvariant, CleanupInvariant DEF Next

\* IInv holds in every state: whatever requests and workers do at once.
THEOREM Invariant == Spec => []IInv
  <1>1. Init => IInv
    BY InitInvariant
  <1>2. IInv /\ [Next]_vars => IInv'
    BY StepInvariant
  <1> QED
    BY <1>1, <1>2, PTL DEF Spec

-----------------------------------------------------------------------------
(* The properties *)

\* A document never has two active jobs, however many requests and retries
\* compete to create or restart one.
THEOREM OneActive == Spec => []OneActiveJob
  <1>1. IInv => OneActiveJob
    <2> SUFFICES ASSUME AtMostOneActive
                 PROVE  Cardinality(ActiveJobs) <= 1
      BY DEF IInv, OneActiveJob
    <2>1. CASE ActiveJobs = {}
      BY <2>1, FS_EmptySet
    <2>2. CASE ActiveJobs # {}
      <3>1. PICK j \in ActiveJobs : ActiveJobs = {j}
        BY <2>2 DEF AtMostOneActive
      <3>2. Cardinality({j}) = 1
        BY FS_Singleton
      <3> QED
        BY <3>1, <3>2
    <2> QED
      BY <2>1, <2>2
  <1> QED
    BY <1>1, Invariant, PTL

\* A document that retrieval takes for indexed has the chunks of its current
\* revision, however many workers index it and wherever they fail.
THEOREM IndexedComplete == Spec => []IndexedIsComplete
  <1>1. IInv => IndexedIsComplete
    BY DEF IInv
  <1> QED
    BY <1>1, Invariant, PTL

\* Only the clean-up of a deleted document takes chunks away.
LEMMA StepMoves ==
    ASSUME IInv, [Next]_vars
    PROVE  /\ doc.deleted => doc'.deleted
           /\ ~doc.deleted => chunks \subseteq chunks'
  <1>1. CASE UNCHANGED vars
    BY <1>1 DEF vars
  <1>2. CASE Cleanup
    BY <1>2 DEF Cleanup, CleanupInv, IInv
  <1>3. CASE Next /\ ~Cleanup
    <2>1. DocMoves
      BY <1>3, RequestMoves, WorkerMoves DEF Next, IInv
    <2> QED
      BY <2>1 DEF DocMoves
  <1> QED
    BY <1>1, <1>2, <1>3

\* The committed chunks of a revision stay until the document is deleted.
THEOREM RevisionsKept == Spec => RevisionsStay
  <1>1. IInv /\ [Next]_vars => [~doc.deleted => chunks \subseteq chunks']_vars
    BY StepMoves
  <1> QED
    BY <1>1, Invariant, PTL DEF Spec, RevisionsStay

\* A deleted document is never found again, although workers that loaded it
\* before go on writing it.
THEOREM DeletionHides == Spec => DeletedIsNotFound
  <1>1. IInv /\ [Next]_vars => [doc.deleted => Searchable' = {}]_vars
    BY StepMoves DEF Searchable
  <1> QED
    BY <1>1, Invariant, PTL DEF Spec, DeletedIsNotFound

-----------------------------------------------------------------------------
(* RagRetrieval: what the questions rely on *)

\* The history has all that is current now.
CurrentServed == Current \subseteq served

\* A verdict is given once a question is done with searching, and a valid one
\* means a single revision.
VerdictSound ==
    \A q \in Questions :
        /\ verdict[q] # "none" => qpc[q] = "answered"
        /\ verdict[q] = "valid" => found[q] # {} /\ RevisionsConsistent(q)

RInv == IInv /\ RTypeOK /\ CurrentServed /\ FoundWasServed /\ VerdictSound

-----------------------------------------------------------------------------
(* The index below *)

\* A step of this specification is one of the index, or leaves it alone.
LEMMA IndexRefined == ASSUME RNext PROVE [Next]_vars
  <1>1. CASE IndexStep
    BY <1>1 DEF IndexStep, Invalidating, Indexing, Next
  <1>2. CASE UNCHANGED vars
    BY <1>2
  <1>3. ASSUME NEW q \in Questions, Answering(q) PROVE UNCHANGED vars
    BY <1>3 DEF Answering, Lookup, Search, Store, Generate, Close
  <1> QED
    BY <1>1, <1>2, <1>3 DEF RNext, Ask, Expire

\* What is searchable is current, and a revision.
LEMMA SearchableIsCurrent ==
    ASSUME IInv
    PROVE  /\ Searchable \subseteq Current
           /\ Current \subseteq 1..MaxRevision
  BY DEF IInv, TypeOK, IndexedIsComplete, Searchable, Current

\* The history grows, by what is current.
LEMMA ServedGrows ==
    ASSUME RInv, RNext
    PROVE  /\ IInv'
           /\ served \subseteq served'
           /\ CurrentServed'
           /\ served' \in SUBSET (1..MaxRevision)
  <1>1. IInv'
    BY IndexRefined, StepInvariant DEF RInv
  <1>2. Current' \subseteq 1..MaxRevision
    BY <1>1 DEF IInv, TypeOK, IndexedIsComplete, Current
  <1> QED
    BY <1>1, <1>2 DEF RInv, RTypeOK, RNext, CurrentServed

-----------------------------------------------------------------------------
(* The invariant *)

\* Nothing has been asked or served.
LEMMA RInitInv == RInit => RInv
  <1> SUFFICES ASSUME RInit PROVE RInv
    OBVIOUS
  <1>1. IInv /\ CurrentServed
    BY InitInvariant DEF RInit, Init, CurrentServed, Current
  <1>2. RTypeOK
    BY RetrievalAssumption DEF RInit, RTypeOK
  <1>3. FoundWasServed /\ VerdictSound
    BY DEF RInit, FoundWasServed, VerdictSound
  <1> QED
    BY <1>1, <1>2, <1>3 DEF RInv

\* What the questions hold and what the cache has: the part of the invariant that
\* answering disturbs.
QuestionsSound == RTypeOK /\ FoundWasServed /\ VerdictSound

\* A step of the index drops at most the owner's entry.
LEMMA IndexSound == ASSUME RInv, RNext, IndexStep PROVE QuestionsSound'
  <1>1. cache' = cache \/ cache' = [cache EXCEPT ![Owner] = NoEntry]
    BY DEF IndexStep, InvalidateCache, CacheBecomes
  <1>2. cache' \in [Users -> {NoEntry} \cup SUBSET (1..MaxRevision)]
    BY <1>1 DEF RInv, RTypeOK
  <1>3. \A u \in Users : cache'[u] = cache[u] \/ cache'[u] = NoEntry
    BY <1>1 DEF RInv, RTypeOK
  <1>4. UNCHANGED questionVars
    BY DEF IndexStep
  <1> QED
    BY <1>2, <1>3, <1>4, ServedGrows
    DEF RInv, QuestionsSound, RTypeOK, FoundWasServed, VerdictSound,
        RevisionsConsistent, questionVars

\* Nor does asking or expiry add anything.
LEMMA AskSound ==
    ASSUME RInv, RNext, NEW u \in Users, Expire(u) \/ \E q \in Questions : Ask(q, u)
    PROVE  QuestionsSound'
  <1>1. CASE Expire(u)
    BY <1>1, ServedGrows
    DEF RInv, QuestionsSound, RTypeOK, FoundWasServed, VerdictSound,
        RevisionsConsistent, Expire, questionVars
  <1>2. ASSUME NEW q \in Questions, Ask(q, u) PROVE QuestionsSound'
    BY <1>2, ServedGrows
    DEF RInv, QuestionsSound, RTypeOK, FoundWasServed, VerdictSound,
        RevisionsConsistent, Ask, At
  <1> QED
    BY <1>1, <1>2

\* A hit takes over what the cache has, a search adds what is current.
LEMMA FindSound ==
    ASSUME RInv, RNext, NEW q \in Questions, Lookup(q) \/ Search(q)
    PROVE  QuestionsSound'
  <1>1. \/ found' = found
        \/ cache[asker[q]] # NoEntry /\ found' = [found EXCEPT ![q] = cache[asker[q]]]
        \/ found' = [found EXCEPT ![q] = @ \cup Searchable]
    BY DEF Lookup, Search, SearchOnce
  <1>2. asker[q] \in Users
    BY DEF RInv, RTypeOK
  <1>3. /\ found' \in [Questions -> SUBSET (1..MaxRevision)]
        /\ \A p \in Questions : p # q => found'[p] = found[p]
        /\ found'[q] \subseteq served'
    <2>1. PICK more \in SUBSET (1..MaxRevision) :
              more \subseteq served /\ found' = [found EXCEPT ![q] = more]
      <3>1. Searchable \subseteq served /\ Searchable \subseteq 1..MaxRevision
        BY SearchableIsCurrent DEF RInv, CurrentServed
      <3>2. found[q] \subseteq served /\ found[q] \subseteq 1..MaxRevision
        BY DEF RInv, RTypeOK, FoundWasServed
      <3>3. cache[asker[q]] # NoEntry =>
              cache[asker[q]] \subseteq served /\ cache[asker[q]] \subseteq 1..MaxRevision
        BY <1>2 DEF RInv, RTypeOK, FoundWasServed
      <3>4. found = [found EXCEPT ![q] = found[q]]
        BY DEF RInv, RTypeOK
      <3> QED
        BY <1>1, <3>1, <3>2, <3>3, <3>4
    <2>2. found \in [Questions -> SUBSET (1..MaxRevision)] /\ served \subseteq served'
      BY ServedGrows DEF RInv, RTypeOK
    <2> QED
      BY <2>1, <2>2
  <1>4. /\ qpc[q] # "answered"
        /\ qpc' \in [Questions -> {"idle", "lookup", "first", "second", "store",
                                   "generate", "answered"}]
        /\ \A p \in Questions : p # q => qpc'[p] = qpc[p]
        /\ degraded' \in [Questions -> BOOLEAN]
        /\ UNCHANGED <<cache, asker, verdict>>
    BY DEF RInv, RTypeOK, Lookup, Search, SearchOnce, At
  <1>5. RTypeOK' /\ FoundWasServed'
    BY <1>3, <1>4, ServedGrows DEF RInv, RTypeOK, FoundWasServed
  <1>6. VerdictSound'
    BY <1>3, <1>4 DEF RInv, RTypeOK, VerdictSound, RevisionsConsistent
  <1> QED
    BY <1>5, <1>6 DEF QuestionsSound

\* What is stored was found.
LEMMA StoreSound ==
    ASSUME RInv, RNext, NEW q \in Questions, Store(q)
    PROVE  QuestionsSound'
  <1>1. cache' = cache \/ cache' = [cache EXCEPT ![asker[q]] = found[q]]
    BY DEF Store, CacheBecomes
  <1>2. asker[q] \in Users /\ found[q] \in SUBSET (1..MaxRevision)
    BY DEF RInv, RTypeOK
  <1>3. /\ cache' \in [Users -> {NoEntry} \cup SUBSET (1..MaxRevision)]
        /\ \A u \in Users : cache'[u] # NoEntry => cache'[u] \subseteq served'
    BY <1>1, <1>2, ServedGrows DEF RInv, RTypeOK, FoundWasServed
  <1>4. /\ qpc[q] # "answered"
        /\ qpc' \in [Questions -> {"idle", "lookup", "first", "second", "store",
                                   "generate", "answered"}]
        /\ \A p \in Questions : p # q => qpc'[p] = qpc[p]
        /\ UNCHANGED <<asker, found, degraded, verdict>>
    BY DEF RInv, RTypeOK, Store, At
  <1> QED
    BY <1>3, <1>4, ServedGrows
    DEF RInv, QuestionsSound, RTypeOK, FoundWasServed, VerdictSound, RevisionsConsistent

\* The verdict is about what was found.
LEMMA AnswerSound ==
    ASSUME RInv, RNext, NEW q \in Questions, Generate(q) \/ Close(q)
    PROVE  QuestionsSound'
  <1>1. CASE Generate(q)
    <2>1. /\ qpc'[q] = "answered"
          /\ \A p \in Questions : p # q => qpc'[p] = qpc[p] /\ verdict'[p] = verdict[p]
          /\ verdict'[q] = "valid" => found[q] # {} /\ RevisionsConsistent(q)
          /\ verdict' \in [Questions -> {"none", "valid", "revision_mismatch", "no_context"}]
          /\ qpc' \in [Questions -> {"idle", "lookup", "first", "second", "store",
                                     "generate", "answered"}]
          /\ UNCHANGED <<cache, asker, found, degraded>>
      BY <1>1 DEF RInv, RTypeOK, Generate, At
    <2> QED
      BY <2>1, ServedGrows
      DEF RInv, QuestionsSound, RTypeOK, FoundWasServed, VerdictSound, RevisionsConsistent
  <1>2. CASE Close(q)
    <2>1. /\ asker' \in [Questions -> Users]
          /\ degraded' \in [Questions -> BOOLEAN]
          /\ verdict'[q] = "none" /\ found'[q] = {}
          /\ \A p \in Questions : p # q =>
                qpc'[p] = qpc[p] /\ verdict'[p] = verdict[p] /\ found'[p] = found[p]
          /\ found' \in [Questions -> SUBSET (1..MaxRevision)]
          /\ verdict' \in [Questions -> {"none", "valid", "revision_mismatch", "no_context"}]
          /\ qpc' \in [Questions -> {"idle", "lookup", "first", "second", "store",
                                     "generate", "answered"}]
          /\ UNCHANGED cache
      BY <1>2, RetrievalAssumption DEF RInv, RTypeOK, Close, At
    <2> QED
      BY <2>1, ServedGrows
      DEF RInv, QuestionsSound, RTypeOK, FoundWasServed, VerdictSound, RevisionsConsistent
  <1> QED
    BY <1>1, <1>2

\* Every step keeps the invariant.
LEMMA RStepInv == RInv /\ [RNext]_allVars => RInv'
  <1> SUFFICES ASSUME RInv, [RNext]_allVars PROVE RInv'
    OBVIOUS
  <1>1. CASE RNext
    <2>1. QuestionsSound'
      BY <1>1, IndexSound, AskSound, FindSound, StoreSound, AnswerSound
      DEF RNext, Answering
    <2> QED
      BY <1>1, <2>1, ServedGrows DEF RInv, QuestionsSound
  <1>2. CASE UNCHANGED allVars
    <2>1. IInv'
      BY <1>2, StepInvariant DEF RInv, allVars
    <2> QED
      BY <1>2, <2>1
      DEF RInv, RTypeOK, CurrentServed, Current, FoundWasServed, VerdictSound,
          RevisionsConsistent, allVars, vars, questionVars
  <1> QED
    BY <1>1, <1>2

\* What the questions hold was served: the inductive invariant of retrieval, over the
\* document that RagIngestion follows.
THEOREM RInvariant == RSpec => []RInv
  BY RInitInv, RStepInv, PTL DEF RSpec

-----------------------------------------------------------------------------
(* The properties *)

\* The cache and the questions keep their types.
THEOREM RTypes == RSpec => []RTypeOK
  <1>1. RInv => RTypeOK
    BY DEF RInv
  <1> QED
    BY <1>1, RInvariant, PTL

\* Whatever is indexed, re-indexed, deleted, cached or lost meanwhile, an answer
\* is made only of revisions that were current of the indexed document.
THEOREM FoundServed == RSpec => []FoundWasServed
  <1>1. RInv => FoundWasServed
    BY DEF RInv
  <1> QED
    BY <1>1, RInvariant, PTL

\* An answer with validated citations draws on one revision, although its two
\* searches may have seen two commits.
THEOREM OneRevision == RSpec => []ValidatedIsOneRevision
  <1>1. RInv => ValidatedIsOneRevision
    <2> SUFFICES ASSUME RInv, NEW q \in Questions, verdict[q] = "valid"
                 PROVE  \E v \in served : found[q] = {v}
      BY DEF ValidatedIsOneRevision
    <2>1. found[q] # {} /\ found[q] \subseteq served /\ RevisionsConsistent(q)
      BY DEF RInv, VerdictSound, FoundWasServed
    <2>2. PICK v : v \in found[q]
      BY <2>1
    <2>3. found[q] = {v}
      BY <2>1, <2>2 DEF RevisionsConsistent
    <2> QED
      BY <2>1, <2>2, <2>3
  <1> QED
    BY <1>1, RInvariant, PTL
=============================================================================
