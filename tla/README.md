# Verification of the text-analysis backend

TLA+ models, model-checking runs and machine-checked proofs about the parts of
this repository whose correctness depends on the order in which requests,
workers, database transactions, broker messages and file operations happen.
Paths below are relative to the repository (`src/` is its root); `TR` stands for
`src/backend/modules/text_research`.

## The system

A FastAPI backend lets researchers build corpora, annotate them, train
classifiers and topic models, predict, run quantitative analyses and ask
questions over indexed documents. Long computations are *analysis runs*: a row
in PostgreSQL, a Celery message, a worker that executes it, files in a
run-scoped namespace, and server-sent events that tell the browser. A second
Celery pipeline ingests documents for retrieval (RAG). Everything else is
request/response work on the database.

### Inventory

| Component | Source | State | Operations | What is hard |
|---|---|---|---|---|
| Run dispatch and claiming | `TR/application/execution_service.py`, `run_lifecycle.py`, `infrastructure/repositories.py` | the run row (status, version, task id, key, namespace), one identity map per session | create, submit, recover, claim, start, progress, complete/fail if active | two commits around a publish, duplicates, retries, stale objects |
| Run cancellation | `TR/application/run_service.py` | the row, the namespace, the broker's revoked ids | cancel | cancel races claim, staging, promotion, completion |
| Run execution | `TR/application/*_service.py` (`execute_*`), `TR/workers.py` | program counter of the worker, its session, staged files, the model row | load, start, check, compute, stage, promote, register, complete, except paths | cooperative cancellation, partial failure |
| Run artifacts | `TR/infrastructure/model_storage.py` | `tmp/` and `published/` trees of a run | stage, promote, clean | files are not transactional |
| Run events | `TR/infrastructure/run_events.py`, `TR/api/run_routes.py`, `frontend/.../useRunEvents.ts` | pending envelopes per transaction, Redis channel, SSE stream, client cache | queue, publish after commit, replay, poll, apply | lost and reordered messages, versions |
| Result reuse | `TR/application/run_dedup.py`, `quantitative_support.py`, `lexical_analysis_service.py` | completed runs and their computation identities | read documents, read units, reuse a twin, compute, enqueue | texts and metadata change between the statements |
| Prediction sets | `TR/application/prediction_service.py`, `prediction_set_service.py`, `infrastructure/repositories.py` | draft/published set, pages stored, the run | freeze, draft, store page, publish, discard | segmentation, annotation and cancel beside the paging |
| Local dispatch | `src/backend/workers/async_dispatch.py` | thread pool, slots, event loop of the process | dispatch, reject, run, release | slots leaked, everyone waiting |
| Model lifecycle | `TR/application/model_lifecycle_service.py` | lifecycle status of trained models | set status, deprecating siblings or not | two promotions of one project, corpus and label set |
| Annotation, adjudication, campaigns | `TR/application/annotation_service.py`, `adjudication_service.py`, `campaign_service.py`, `assignment_planning.py` | tasks, codes, campaigns | assign, save, list, patch a campaign, adjudicate | blinding, NULL campaigns, segmentation under coders |
| Stage cache | `TR/infrastructure/stage_cache.py` | L1, Redis pointer, status and lock, entry directory, object | lookup, lock, compute, store, clean up, invalidate | stampedes, half-written files, lock expiry, stale pointers |
| RAG ingestion | `src/backend/modules/rag/application/document_ingestion_service.py`, `rag/infrastructure/repositories.py` | document status, index revision, chunks | upload, index, reindex, delete | retries, two indexers, deletion while indexing |
| RAG retrieval and answers | `rag/application/retrieval_service.py`, `rag_answer_service.py` | cached results per user | retrieve, fuse, expand, rerank, select, pack, cite, repair, invalidate | a result outlives what it was read from; budgets and ties |
| Corpora, cleaning, datasets, codebooks | `TR/application/corpus_service.py`, `cleaning_service.py`, `dataset_builder_service.py` | units, rows, frozen snapshots | segment, freeze, CRUD | a freeze reads in three statements |
| Corpus synthesis | `TR/application/corpus_synthesis_service.py`, `corpus_scope_service.py`, `hierarchical_reduce.py` | bound revisions, hash, findings, nodes | resolve, hash, verify, map, reduce | re-indexing under the synthesis, packing at a boundary |
| Quantitative and comparative analysis, research assistant | `TR/application/*_analysis_service.py`, `corpus_assistant_service.py` | rows | executed as runs or in the request | numerics, prompts |
| Platform caches | `src/backend/core/cache.py`, `src/backend/lib/*_cache.py` | Redis and in-process entries, futures of embeddings under way | get, set, invalidate, share a flight | best effort: every error is swallowed; cancelled owners |
| Memory | `src/backend/modules/memory` | external store, registry, cache of recalls | remember, recall, forget | recalls write stale answers into the cache |
| Identity and tokens | `src/backend/modules/identity_access` | users, refresh tokens | login, refresh, revoke | rotation races |
| Platform services | `src/backend/modules/platform` | API keys, flags, billing, webhooks | CRUD, deliver | delivery retries |
| AI agents, runs, providers | `src/backend/modules/ai` | run and prompt rows | call a model, record | external services |
| Projects, users, settings, calendar, notifications, audit | `src/backend/modules/*` | rows | CRUD | little |
| NLP, statistics and learning engines | `TR/infrastructure/*.py` | none | agreement, sampling, splits, similarity; classifiers, clustering | ties, quotas, leakage; numerics |
| HTTP layer, middleware, migrations, observability | `src/backend/api`, `alembic`, `observability` | none | parse, serialise, log | none here |
| Frontend | `src/frontend` | query caches, view state | views | only the event client matters here |

How they interact: services call repositories inside the session of their
request or delivery; `submit` publishes through `workers.py` to Celery (or to
the local dispatcher); a worker claims the row and calls back into the same
services; every `update_run` queues an event that is published after the commit;
cancellation talks to the broker, the row and the files of a run whose worker
knows nothing about it except by reading the row.

### What makes each component correct

- Dispatch, claiming, execution: a run is executed at most once, by one session; its
  outcome is final; every claimed run ends.
- Artifacts: a failed run has no files.
- Events: what the browser shows last is the outcome the run settled on, and it never
  shows an outcome that was not committed.
- Ingestion: one active job per document; a document called indexed is; a started job
  ends; a job a client was promised runs.
- Retrieval and answers: an answer comes from what was indexed, a validated one from one
  revision; stale results do not last; deleted documents are not found; the packed context
  fits its budget and repeats nothing; what an answer cites was given to the model.
- Stage cache: no lock is kept or taken from another; every call ends; whatever is left
  behind, the next call works.
- Coding: a campaign holds at most one code of a coder for a unit it gave him; blinded
  codes stay hidden. Datasets: frozen values were held at one moment. Samples are fair and
  dealt out whole; splits do not leak; agreement figures agree with each other.
- Prediction: a published set covers its selection and exists exactly when its run completed.
- Result reuse: a result is of the texts its request read. Similarity: the bounded path
  gives the exact best pairs.
- Models: a promotion that meets no other leaves one model in production.
- Synthesis: no document's finding is lost, the hash is that of the evidence, the reduction
  ends, a document whose retrieval failed is listed as omitted.
- Memory, local dispatch, embedding flights: a forgotten memory fades, an accepted job runs
  and frees its slot, nobody waits for an embedding that failed.

## Modules

| Module | Models |
|---|---|
| `RunLifecycle` | one run: creation, submission, delivery, claim, execution, artifacts, cancellation, crashes |
| `RunContract` | what the lifecycle promises to the rest of the system (abstract specification) |
| `RunEvents` | one run's events from the transaction to the browser |
| `RagIngestion` | one document: upload, index jobs, workers, deletion, clean-up |
| `RagRetrieval` | EXTENDS `RagIngestion`: questions, cached results, validated answers over that document |
| `RagAnswer` | one question after its searches: fusion, expansion, selection, packing, citations, repair |
| `StageCache` | one entry of the layered stage cache |
| `TextUnits` | the units of a corpus and their segmentation; extended by the next two |
| `Coding` | campaigns, tasks, codes and the listings coders see |
| `Prediction` | one prediction run: selection, pages, draft and published set |
| `GoldDataset` | the freeze of a training dataset beside coders, adjudicators and segmentation |
| `Sampling` | rounds of task assignment: allocation, drawing, dealing |
| `Splits` | grouped and nested plans, sweeps and temporal windows over labelled rows, of numbers or texts |
| `Reliability` | Cohen's, Fleiss' and Krippendorff's coefficients over reliability matrices |
| `Similarity` | the bounded top-k path of pairwise Jaccard similarity and the dense one |
| `ResultReuse` | analyses that compute at once, in a worker, or take a result over |
| `ModelLifecycle` | promotion of models by requests that interleave |
| `CorpusSynthesis` | scope, hash, map and hierarchical reduction of one synthesis |
| `MemoryStore` | store, registry and recall cache of one user's memories |
| `LocalDispatch` | background jobs without Celery: pool, slots, event loop |
| `EmbeddingFlight` | callers that share the embedding of a key under way |
| `MCRunLifecycle`, `MCStudy`, `MCParts`, `MCLive` | instances for the model checker |
| `Listing` | the list of a set in an order, and the total of a list: Python's `sorted` and `sum` |
| `ListLemmas` | lemmas about induction, ranks, lists, division and totals |
| `RunLifecycleProofs`, `RunEventsProofs`, `RagRetrievalProofs`, `StageCacheProofs`, `CodingProofs`, `StudyProofs`, `PartsProofs` | the theorems |

Most modules are about one run, one document, one cache entry or one corpus: the code never
locks two of them together. `MCStudy`, `MCParts` and `MCLive` put several parts that share no
state into one run: the initial state chooses the part a behaviour is of, and the
variables of the others stand still, so that the state space is the sum of the parts' and not
their product.

### RunLifecycle

*State.* `row` is the committed row; `lock` the session whose open transaction
holds its row lock; `mem[s]` the `AnalysisRun` object in session `s`'s identity
map; `pc[s]` where `s` is in its handler; `todo[s]` the artifacts it still has to
stage or promote. `msgs`, `sent`, `revoked` are the broker. `tmp`, `pub` are the two
trees of the run's namespace, `model` the `TrainedModel` row. `claims` is history.

*Sessions.* SQLAlchemy returns the object already in the identity map when a
`SELECT` finds its row again; attribute values are repopulated only if they were
expired or the query says `populate_existing`. The sessions of this code are
built with `expire_on_commit=False` (`src/backend/db/session.py:117-121`, `171-175`)
and no query of the run says `populate_existing`. `Reread` is that read: with
`AutoRefresh = FALSE` it gives the object in memory, with `TRUE` the committed row. A
flush writes the attributes whose value changed (`Written`, `Flushed`), which is why a
stale submitter that only sets `celery_task_id` does no harm.

*Actions.* One per database or broker round trip or file operation; the comment of
each action names the code. Steps between two awaits that touch nothing shared are
merged. The commit and the `refresh` of `submit` are one step: the value refreshed
later could only lead to a publication less. `ExecutionStep` stands for all `execute_*`
methods: `op = "training"` is classifier and topic training (stage, check,
promote, register, complete), `op = "plain"` the others (they write results on the
run only). `mode` says whether the run was dispatched by `ExecutionService.submit`,
by `PredictionService.predict` (which publishes directly and stores no task
id), or executed in the request (`run_async=False`).
`ExecutionService.recover_queued_dispatch` is modelled (`RecoverQueuedDispatch`) although no
production code calls it.

*Failures.* `Raise` is an error of the computation or of a file: the handler wipes the namespace
(`AbortWipe`) and records the failure (`Fail`). `RaiseDatabase` is an error of the database, which
aborts the transaction. No `except` handler of `execute_*` rolls back, so from then on its phases
are the broken ones: it may still wipe the files (`abortBroken`), or raise before it does, when
the failed statement was a flush, which expires the run's attributes; then its own first statement
raises (`HandlerRaises`) and the run stays RUNNING. The same happens when `fail_if_active` is the
statement that fails. All safety runs and proofs contain these steps; `Crash` and
`RaiseOutsideTry` are switched by `AllowCrash`.

*Bounds.* `MaxSent` messages are ever put on the broker (a publication, a duplicate or
a retry each count), `MaxVersion` stops the progress loop.

### RunEvents

*State.* `row` is the committed row (status and `run_version`); `base`, `obj`, `queued` are, per
writer session, the run as it was loaded, as it is in the session, and the envelopes its
transaction will publish; `pend` holds snapshots handed to publication tasks, which may fail or
overtake each other (each commit starts tasks of its own, `src/backend/db/session.py:142-155`);
`srv`, `prev`, `inbox` are the server's stream: its phase, the last snapshot it yielded and its
subscription; `wire` what it sent; `es`, `connected`, `cache`, `poll` the browser's connection,
cached run and poll in flight. `had` is history. *Actions* follow `stream_run_events` event by
event (first event, subscription, message, Redis failure, reconciliation with the row) and the
hook `useRunEvents` (`onopen`, `onEvent`, `onerror`). The browser drops events whose `run_version`
is smaller; two writer sessions may commit the same version, and the model keeps that. *Bounds*:
`MaxVersion` updates, `MaxWire` snapshots in flight, `MaxBreaks` lost connections.

### RagIngestion, RagRetrieval and RagAnswer

*State.* `doc`, `job`, `chunks`, `revs` are committed rows, `stored` the uploaded file; `msgs`,
`cleanups` the two queues; requests hold the job they will publish; workers hold the
status they loaded, so that their flushes write what SQLAlchemy would write. The partial
unique index on active jobs is part of `CreateJob` and `Start`. `Fail` commits what the
failed step had flushed, because the exception handlers do not roll back. `DbError` is an
exception after which the handlers cannot write. `accepted` and `abandoned` are history.
`RagRetrieval` adds, per user, the cached result, and per question the result it holds. A
result is the set of revisions its chunks come from. A question looks up the cache,
searches twice (dense and lexical are two statements), stores, validates and answers;
entries expire; indexing and deletion invalidate the keys of the document's owner only.
Its next-state relation interleaves all of `RagIngestion`. Revision lists of frozen scopes
(`index_revision_ids`) are in `CorpusSynthesis`. *Bounds*: `MaxRevision`, `MaxSent`; one job in
the retrieval part of `parts`, whose message may be sent twice.

`RagAnswer` is what the second part of a question does with its ranked lists, which
`RagRetrieval` takes as one step: reciprocal rank fusion in exact fractions, a parent's text
for its children, a rerank that may put the list in any order, the cap per document,
duplicates by content hash and by overlap (a chunk is a set of text spans), packing into the
token budget with a last chunk cut to the room left, and the validation of each claim's
citations with one repair. `MCParts` gives it four chunks that share a parent, a content, a
document and a revision in every way the tests of those steps distinguish.

### StageCache

*State.* `files` is the entry's directory (payload file and `meta.json`, each absent, half
written or whole), `object` the object store, `redis` the pointer, status and lock, `l1` each
process's memory, `plock` each process's lock; a caller has a phase and the `site` of the
lookup it makes. A lookup chooses its pointer and loads the payload in one step, then
deletes in two (pointers and lock; directory), which other callers interleave. Writing a
file is an opening and a closing; a removed directory takes open files with it. The
factory is deterministic, since the key addresses the content. Callers are threads: an
asyncio task cancelled while it polls (`stage_cache.py:526`) keeps its asyncio lock, and is
not an action. Redis errors are modelled where they decide (polling, release). *Bounds*: two
callers, in one process or in two, asking again for ever; `MaxFaults` = 1 crash, expiry,
loss, error or invalidation.

### Coding, Prediction, GoldDataset and TextUnits

A unit is a document, a position and the generation of the segmentation that made it; segmenting a
document replaces its units and, by the foreign keys' cascades, what hangs on them. In `Coding` a
row without a campaign carries a copy number, because NULL never conflicts in a unique constraint;
a save reads whether its row exists and inserts or updates later, at its commit; a listing reads
the codes and the campaigns that decide what is hidden in separate statements. `Prediction`
claims, freezes what is annotated and so left out, drafts, reads (`OFFSET` paging) and stores page
after page, publishes with its terminal write or discards; what its session sees of a cancel is
`SeenStatus` and `SeesCancel`, as in `RunLifecycle`. `GoldDataset` has the three policies of
`_resolve_gold_values` and the three statements of a freeze; `held` is history: what each cell
resolved to at the moments of the freeze. *Bounds*: two coders, two requests, two campaigns, one
document of one unit for coding (two saves at once, or several campaigns one request at a time:
`RacesOrRounds`); two documents of up to two units, one of them segmented again, and pages of two
for prediction; three edits around a freeze.

### The other parts of MCStudy

`ResultReuse` gives each analysis its own two reads and lets the corpus change between any two
steps (two changes); an identity is the operation and the texts, as `_prepare_with_identity`
hashes them. `ModelLifecycle` interleaves two requests at their reads and commits.
`CorpusSynthesis` keeps of a finding the documents it stands for and its size: packing by count
and by tokens, level by level, is the code's. `Splits` covers every assignment of groups and
labels to four rows; scikit-learn's folds are any its contract allows. A value of the field is
named by its place among the texts as Python sorts strings, and `Moment` is the number or date it
tells, if it tells any (`Undated`); `stored` says whether the field holds numbers, texts, or both.
`Place` is what `_orderable_periods` makes of a value: numbers compare as numbers, texts as texts,
and both together do not compare (`Sortable`). `study` runs the plans over the numbers 10, 8 and
9, the texts "10", "8" and "9", and both mixed. `NothingLeaks` asks temporal plans to test later
than they train if the field sorts by time (`SortedByTime`); that it is false of other texts is
the observation on splits below. *Bounds*: two models, two curators, three documents, two changes
of the index.

### MCParts and MCLive

`MCParts` puts `RagRetrieval` and the algorithms into one run. `Sampling` allocates targets to
strata (proportional or equal, with redistribution and caps), draws and deals in rounds, over
every placement of three units, up to the documents' names (`OneNaming`); `Reliability` computes
the three coefficients as fractions on every matrix of two units, three coders and two categories
with gaps (weights are over a common denominator, `Scale`), so that a unit with two ratings meets
one with three; `Similarity` compares the heap and the inverted index with the dense
computation for three items, all token sets over two tokens, `top_k` from 0 to 2 and three least
scores; `EmbeddingFlight` has three callers, spelling variants of one key and a text too long for
the cache. `MCLive` holds the liveness of `RunLifecycle`, `MemoryStore`, `LocalDispatch` and
`CorpusSynthesis`; four jobs for two threads and three places reach rejection.

## Runs

| Run | Shows |
|---|---|
| `safety` | `ClaimedOnce`, `SingleExecutor`, `FailedLeavesNoFiles`, and that background runs implement `RunContract` (`ContractSpec`, without stickiness), with two request sessions, two workers, one cancel, all modes, both kinds, crashes, and, in behaviours of their own, sessions whose reads repopulate (only these notice a cancel and unwind); two messages are enough for a duplicate, a retry or a republication to meet a second worker |
| `live` | `ClaimedRunSettles`, `PublishedRunLeavesQueue` (runs), `ForgottenFades` (memories), `AcceptedJobRuns` (local jobs), `ReductionEnds` (syntheses) |
| `events` | `OutcomeShownWasCommitted`, `OutcomeIsShown`: a worker and a cancel write; three versions are enough for two sessions to use the same one; one snapshot in flight beside those queued lets two publications overtake each other; one broken connection |
| `ingestion` | `OneActiveJob`, `IndexedIsComplete`, `RevisionsStay`, `DeletedIsNotFound`, `StartedJobEnds`: two requests, two workers, two jobs, two messages (a retry meets another job), two revisions, crashes and database errors |
| `stage_cache` | `ProcessLockReleased`, `AloneSucceeds`, `ReleaseKeepsOthers`, `CallsEnd` |
| `study` | `CampaignEvidence`, `PeersHiddenWhileCoding` (coding); `PublishedIsWhole`, `OutcomeHasItsSet` (prediction); `EachGoldHeld` (datasets); `NothingLeaks` (splits); `ServedIsRequested` (reuse); `SoleProduction` (models); `NoDocumentIsLost`, `HashIsOfTheEvidence` (synthesis) |
| `parts` | `FoundWasServed`, `ValidatedIsOneRevision`, `AnswersSettle` (retrieval: owner and member, two revisions, failing searches and cache); `ContextIsSound`, `AnswerIsGrounded` (answers); `AgreementIsSound` (agreement: alpha is what its definition says whichever ratings are missing, and alpha and Fleiss' kappa satisfy their identity on complete data); `SampleIsFair`, `EveryUnitIsDealt` (sampling); `BoundedIsExact` (similarity); `WaitersAreServed` (embeddings) |
| `overwrite`, `failure_unrecorded`, `ingestion_reindex`, `stage_token`, `synthesis_omitted` | the findings below |

`CHECK_DEADLOCK FALSE` stands in the runs in which all work may be done, or stuck with a dead
worker; `StageCache` never stops.

*Fairness.* `RunLifecycle`: weak fairness of each worker's delivery and claim, of the steps of a
started execution and of a started cancel request: a worker process loops over its queue, and a
handler that was entered runs on. Nothing is assumed of requests that users may or may not make,
of errors, or of the broker's own redelivery. Crashes are excluded in `live`: the message is
acknowledged when it is delivered (Celery's default, `src/backend/workers/celery_app.py`) and no
lease exists, so a worker that dies after its claim leaves the run RUNNING for ever. The database
may fail in `live`, but `ClaimedRunSettles` is about the behaviours in which no handler comes to
write in an aborted transaction: in the others the run stays RUNNING, which is what
`failure_unrecorded` shows. `RunEvents`: the stream's loop, the browser's connection and its poll
go on; publication and delivery of a snapshot get no fairness, for they may be lost.
`RagIngestion`: requests answer, workers take messages and run on; the broker need not accept a
message. `StartedJobEnds` excepts the jobs whose worker died or lost its database connection: the
code has no recovery for them. `RagRetrieval`: questions are answered and Redis expires entries;
nothing is assumed of indexing. `StageCache`: threads run on, and deadlines pass however often the
condition they guard becomes true for a moment (strong fairness of the timeouts: they are real
time). `MemoryStore`: a request goes on or is cut short, the cache entry expires. `LocalDispatch`:
threads take jobs and run them, the loop runs coroutines and finishes them. `CorpusSynthesis`: the
reduction goes on; `ReductionEnds` is stated for fan-ins and sizes with which a level can shrink
(`Halving`): see the observations.

## Findings

1. `overwrite`: a worker's terminal write overwrites a committed CANCELLED. The check under
   the row lock looks at the object already in the session; for the same reason
   `ensure_not_cancelled` never sees a cancel committed by another session.
   `RefreshingIsFinal` proves that repopulating reads would remove it.
2. `failure_unrecorded`: no `except` handler of `execute_*` rolls back before `fail_if_active`.
   When what failed is a statement, the transaction is aborted, the handler raises in turn and the
   run stays RUNNING, although a worker's failures are to mark it FAILED
   (`TR/tests/test_synthesis_worker_failures.py:3`); the task's retries do not win the claim
   again.
3. `ingestion_reindex`: when the publication of a job fails, its row stays pending, and every
   later re-index request is answered with it and queues nothing.
4. `stage_token`: a lookup that meets a half-written `meta.json` deletes the lock of the
   caller writing it; both then hold the "exclusive" token.
5. `synthesis_omitted`: a retrieval that fails on the database answers degraded instead of
   raising, and the synthesis reports the document as one without hits, not as omitted.

### Observations

Met while modelling; the models contain the behaviour, and the properties are stated with it
in mind.

*Runs.* A stale cancel can turn a completed run into a cancelled one and deletes the published
files of a COMPLETED run (`run_service.py:171`). A worker that dies after its claim, or an error
between the claim and the `try` of `execute_*`, leaves the run RUNNING; an unreachable broker
leaves it QUEUED, for nothing calls `recover_queued_dispatch`. A segmentation that deletes units a
prediction is storing makes the insert fail on its foreign key, which is one way into the second
finding: the handler's `DELETE` raises in the aborted transaction, and the run stays RUNNING with
its draft. Units are paged with `OFFSET`, which skips some when documents are segmented between
pages. An empty list of filtered documents predicts the whole corpus (`prediction_service.py:103`,
`repositories.py:591`).

*Retrieval.* A member's cached result outlives the deletion of the document
(`retrieval_cache.py:181`; `AnswersSettle` needs the entry's expiry). A caller cancelled while it
embeds leaves its future pending in `_INFLIGHT`, and later callers of the key wait for ever
(`embedding_cache.py:233`; `WaitersAreServed` excepts the futures of cancelled owners); a
cancelled waiter cancels the future others share.

*Synthesis.* `NoDocumentIsLost` follows the documents a node stands for (`source_document_ids`).
The chunks a node above the first level cites are narrowed to those its answer claims, if it
claims any (`corpus_synthesis_service.py:572`); which chunks remain is not modelled. The reduction
does not end when the fan-in is 1, which the setting allows, or when answers exceed half the
prompt budget (`corpus_synthesis_service.py:497`). A synchronous synthesis can report a hash that
is not its evidence's: bindings and chunks are read in two statements.

*Coding and datasets.* Two unscoped saves or assignments at once make duplicate rows with a NULL
campaign, and later reads of one row raise. The newest blind campaign decides even when it is
released (`repositories.py:1083`). `adjudicated_only` counts unanimous codes without an
adjudication; adjudications are not filtered by codebook version; a training silently drops units
deleted since its freeze. A disjoint second round may give a unit to a second annotator, and the
equal mode may leave strata two apart.

*Splits.* The module's docstring and a comment say that temporal values that are no numbers or
ISO dates are dropped with a count, or rejected (`TR/infrastructure/validation_splits.py:18-20`,
`144-147`). `_orderable_periods` keeps every text that is not blank and sorts texts by their
characters (`:152`): "10" sorts before "9", so a plan trains on the later rows and tests on the
earlier ones; a text that tells no time becomes a period and is not counted; numbers beside texts
raise TypeError. `TestsLieLater` states what the docstring says; it does not hold, and
`NothingLeaks` contains it for fields that sort by time only.

*Reuse, models, similarity.* A grouped result is taken over although metadata was edited, since
the identity covers texts only. Two overlapping promotions leave two production models:
`SoleProduction` excepts models another request changed in between, so it says what one promotion
owes, and not that the race is excluded. With a positive least score the index drops pairs of two
units without tokens, whose score is 1.

*Memory and local dispatch.* A forget that a recall overtakes leaves a stale entry until it
expires; an add whose answer is lost leaves an unregistered memory. A `submit` that raises
leaks a slot; jobs of all threads are serialised on one loop.

## Proofs

Each proof module proves its theorems for any sets and bounds that satisfy the named `ASSUME`s of
the modules it extends; the theorem statements name the properties the runs check.

`RunLifecycleProofs`: `TypeCorrect`, `Invariant` (`IInv` is inductive), `ClaimsOnce`,
`ExecutionsExclude`, `FailureCleansUp`, `NoReactivation`, `EarlyCancelIsFinal`, `Refinement`
(`Spec => ContractSpec`; the refinement mapping hides runs executed in the request), and for
background dispatch with `AutoRefresh`, `RefreshingIsFinal`. `IInv` covers the handlers of aborted
transactions as well. It is needed because none of the properties is inductive. `RoleInv` says
which phases a session of each kind can be in; `ObjectInv` what stale objects hold where their
status is written back (a submitter holds QUEUED, so its flush leaves the status alone; a worker
about to start holds RUNNING; a cancel about to commit holds an active status); `OwnerInv` ties
the status to the number of claims and to the one executing session; `FileInv` says which phases
can see files; `LockInv` that a cancel past its check holds the row. The lemmas `SubmitStatus`,
`RunningStatus`, `EndStatus`, `CancelStatus` say what each flush does to the committed status;
`StatusMoves` collects all a step may do to it, and the action properties and the refinement
follow from it.

`RunEventsProofs`: `EventTypes`, `ShownWasCommitted`. A snapshot is followed from the session to
the browser: what a session has queued is progress or the status its object has (`SessionSound`,
since an object with an outcome is updated no more), its commit puts that status into the history,
and from there every place holds statuses of the history only (`StreamSound`).

`RagRetrievalProofs`, first over `RagIngestion`: `TypeCorrect`, `Invariant`, `OneActive`,
`IndexedComplete`, `RevisionsKept`, `DeletionHides`. `IInv` adds to the properties that nothing is
under way before the first upload (`UploadInv`: a first upload inserts its job without looking for
another) and that a clean-up is queued for a deleted document only (`CleanupInv`: nothing else
takes chunks away). `OneActiveJob` counts; `AtMostOneActive` says the same without `Cardinality`.
`DocMoves` collects what any other step may do to the document, from what the flushes of stale
sessions write (`DocTypes`, `JobTypes`); the two action properties follow. Then over
`RagRetrieval`: its step is one of `RagIngestion` or leaves those variables alone
(`IndexRefined`), so `IInv` holds below. `RInvariant` adds that the history has what is current
(`CurrentServed`) and that a valid verdict is about what the question still holds
(`VerdictSound`); `RTypes`, `FoundServed` and `OneRevision` follow.

`StageCacheProofs`: `CacheTypes`, `LocksReleased`, `ReleaseSpares`, `LoneCallsSucceed`. The last
is the deepest: an invariant relates the layers (which pointers a file or object can still back,
which caller has a file open) to the phases of the call that runs alone, through every lookup and
clean-up it can make, whatever was left behind.

`CodingProofs`, three parts.
*Coding*: `CodingTypes`, `CampaignEvidenceHolds`, `PeersHidden`. The evidence invariant needs the
requests under way: a pending save names a unit its coder was given, generations only grow, so a
unit deleted by a segmentation never returns and a late insert is refused.
*The freeze*: `FrozenValuesHeld`. Between the two statements codes are changed or added and go
with their unit only, and so do adjudications (`Edited`); so a cell either had no adjudication
when its codes were read, or has one, over codes that are still there, when the adjudications are.
*Sampling*: `SampleDealt` (`DealingInv`): the units that are dealt in turns stand in a list, and a
unit goes to the annotator of its place modulo their number; counting places modulo that number
shows that the shares differ by at most one, and that a unit that not all annotators get goes to
one of them. `SamplesFair` follows a round from allocation to drawing (`SampleInv`): `EqualShares`
and `ProportionalShares` (largest remainder: the floors sum to at most the total and leave less
than one unit per stratum) say what the two modes compute, `RedistributionFills` follows the
deficit stratum by stratum and turn by turn (`Visits`, `Filling`), and `AllocationIsFair`
concludes that the targets add up to what was asked for, exceed no stratum, are the exact shares
rounded (proportional), or at most two apart unless a stratum is used up (equal). `DrawingInv`
then says of each stratum that what is drawn of it meets its target, or everything the document
cap leaves was drawn; a document lies in one stratum, so a stratum's draw never uses up another's
cap.

`StudyProofs`: `HashOfTheEvidence`, `PromotionIsSole`, `ServedAsRequested`, `SetFollowsRun`, each
from a small invariant of its part that relates what a request has read to what it will write; and
three results about pages and partitions. `PublishedWhole`: the listing is in one order, and as
long as no segmentation disturbs the units, what has been predicted is what precedes the offset
less what was frozen (`SelectionInv`, `PagesInv`), so the published set lists each selected unit
once. `NoDocumentLost`: the nodes of every level cover the documents that were asked for, since
packing puts each node into one batch and an answer stands for its batch (`SynthesisInv`,
`LevelInv`), and there is one node in the end. `LeaksNothing`: folds are unions of whole groups,
so no group is on both sides (`SplitsInv`); a temporal plan trains on smaller places than it tests
(`LaterPlaces`), and a smaller place is an earlier time if the field sorts by time
(`LaterIsTestedLater`). `DatesTestLater` states that for the docstring's own case: if every value
tells a time and texts sort by it, as dates of one form do, `TestsLieLater` holds without a
condition.

`PartsProofs`: `WaitersServed` (`FlightInv`: what a call waits for was registered, and a future is
open only while its owner embeds, or because its owner was cancelled). `AnswersAreGrounded`,
inductive as it stands. `ContextSound` (`RankedInv`): fusion lists what was found, once and in
order of score; expansion, selection and packing keep the order and stay within the budget, by
going through their folds one candidate at a time. `BoundedTopK` (`SimilarityInv`): the heap is
the first *k* of the pairs seen so far; the order of pairs is strict and total because ratios are
compared by cross-multiplication, and a pair without a token in common does not reach a positive
least score. `AgreementSound`: whichever ratings are missing, the entries of the coincidence
matrix add up to the pairs of coders who differ, each weighed (`DifferingIs`, `ObservedIs`), a row
to the labels of its category (`RowIs`), and what chance explains to the square of all ratings
less the squares of the totals (`ExpectedIs`), by swapping sums; `AlphaWithGaps` puts them
together, the cases without a pair and without a difference included. On complete data the sums
come down to the numbers of coders and units (`SumsOfFull`, `FleissOfFull`), and the rest of the
identity is arithmetic on integers (`AgreementIsScaled`; `AgreementIsTotal` where chance explains
everything and the code returns 1).

`ListLemmas`: the prover cannot instantiate an induction theorem with an operator, so induction is
over *sets*: `Inductive` says that a set of naturals with 0 and the successor of each of its
members is all of `Nat`, and each use defines the set of numbers for which its claim holds.
`FoldRuns` does this for `FoldLeft`: it gives the function of intermediate values, from which each
fold of the model is followed. The rest is about ranks (a finite set in a strict order has one
list), division, totals of lists, and sums over finite sets: a sum is what any `Measures` function
gives the whole set (`SumOver`), so each law of sums needs a witness and no induction of its own.
For the same reason sorted lists are `Listing`'s, which says what a sorted list is; `SortSeq` and
`SetToSortSeq` say how to compute one, by recursion or by `CHOOSE` over all lists.

Only model-checked: all liveness, which is out of the prover's reach. Every other property of a
passing run is the property of a theorem.

## Not modelled

The components with status `not_modelled` in `PROJECT.json`, each with its reason: HTTP parsing
and authorisation, single-row writes (identity, projects, users, settings, platform services),
external models and their bookkeeping, numerical libraries, views, migrations, observability. They
are most of the code's lines and have no protocol between steps, which is why the map covers about
a tenth of all lines. Within the modelled components: the content of results (metrics, texts,
embeddings, prompts), authorisation, reruns and comparisons, the stage artifacts of a synthesis,
the thread's scope events, cleaning recipes and codebook edits, the disagreement listing,
extraction and consolidation of memories, log and metric calls.

## Plan

Left, in this order: a run that composes `Prediction` with `RunContract` instead of its own
copy of the run's status; rotation of refresh tokens and webhook retries;
cancelled asyncio tasks in `StageCache`; consolidation of memories racing a forget.
