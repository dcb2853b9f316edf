---------------------------- MODULE RunLifecycle ----------------------------
(***************************************************************************)
(* The life of one AnalysisRun: the request that creates and submits it,   *)
(* the broker messages that ask a worker to execute it, the worker that    *)
(* claims and executes it, the requests that cancel it, and the artifact   *)
(* files an execution stages and publishes.                                *)
(*                                                                         *)
(* Every request and every delivery runs in a database session of its own. *)
(* A session keeps the AnalysisRun object it loaded in its identity map:   *)
(* reading the row again, even with SELECT ... FOR UPDATE, returns that    *)
(* same object with the attribute values loaded before, and a flush writes *)
(* only the attributes whose value differs from the loaded one.  (The      *)
(* application never expires or repopulates these objects: sessions are    *)
(* built with expire_on_commit=False.)  AutoRefresh = FALSE is this        *)
(* behaviour; AutoRefresh = TRUE is a session whose every read repopulates *)
(* the object, which is what the comments in run_lifecycle.py assume.      *)
(***************************************************************************)
EXTENDS Naturals, FiniteSets

CONSTANTS
    Api,          \* request sessions that create or submit the run
    Workers,      \* worker processes: each executes one delivery at a time
    Cancellers,   \* request sessions that cancel the run
    NoSession,    \* nobody holds the row lock
    Artifacts,    \* files an artifact-writing execution publishes
    Modes,        \* ways the run may be dispatched, a subset of AllModes
    Ops,          \* kinds of execution, a subset of AllOps
    AutoRefresh,  \* see above
    AllowCrash,   \* processes may die, executions may raise outside their try
                  \* (the database may fail an execution in any case)
    MaxSent,      \* bound: messages ever put on the broker (publish, retry, duplicate)
    MaxVersion    \* bound: progress updates stop at this run_version

\* submit: ExecutionService.submit; direct: PredictionService.predict queues
\* the task itself; inline: run_async=False executes in the request.
AllModes == {"submit", "direct", "inline"}

\* training: stages and promotes artifacts and registers a model;
\* plain: writes its result on the run only.
AllOps == {"training", "plain"}

Executors == Api \cup Workers
Sessions == Api \cup Workers \cup Cancellers

ASSUME SessionAssumption ==
    /\ Api \cap Workers = {}
    /\ Api \cap Cancellers = {}
    /\ Workers \cap Cancellers = {}
    /\ NoSession \notin Sessions

ASSUME ParameterAssumption ==
    /\ Modes \subseteq AllModes
    /\ Ops \subseteq AllOps
    /\ AutoRefresh \in BOOLEAN
    /\ AllowCrash \in BOOLEAN
    /\ MaxSent \in Nat
    /\ MaxVersion \in Nat

VARIABLES
    row,      \* the committed AnalysisRun row
    lock,     \* the session whose open transaction holds the row lock
    mode, op, \* how the run was created
    pc,       \* where each session is in its handler
    mem,      \* the AnalysisRun object in each session's identity map
    todo,     \* artifacts the executing session has still to stage or promote
    msgs,     \* task messages waiting on the broker (all alike: run_id, user_id)
    sent,     \* messages ever put on the broker
    revoked,  \* a revoke of the run's task id was broadcast to the workers
    tmp,      \* artifacts in the staging directory of the run's namespace
    pub,      \* artifacts in its published directory
    model,    \* the TrainedModel row: none, flushed by an open transaction, committed
    claims    \* history: successful claims

dbVars == <<row, lock>>
kindVars == <<mode, op>>
sessVars == <<pc, mem, todo>>
brokerVars == <<msgs, sent, revoked>>
fileVars == <<tmp, pub, model>>
vars == <<row, lock, mode, op, pc, mem, todo, msgs, sent, revoked, tmp, pub, model, claims>>

-----------------------------------------------------------------------------
(* The row, the status sets and the object-relational mapping *)

Terminal == {"completed", "failed", "cancelled"}
Active == {"queued", "running"}
Statuses == {"none"} \cup Active \cup Terminal

Row == [status : Statuses, version : Nat, task : BOOLEAN, ns : BOOLEAN]
NoRow == [status |-> "none", version |-> 0, task |-> FALSE, ns |-> FALSE]
NewRow == [status |-> "queued", version |-> 1, task |-> FALSE, ns |-> FALSE]

\* What a read of the row gives a session that already holds the object.
Reread(s) == IF AutoRefresh THEN row ELSE mem[s]

\* A flush writes the columns whose value changed since the object was loaded.
Written(loaded, new, current) == IF new # loaded THEN new ELSE current

Flushed(loaded, new) ==
    [status  |-> Written(loaded.status, new.status, row.status),
     version |-> Written(loaded.version, new.version, row.version),
     task    |-> Written(loaded.task, new.task, row.task),
     ns      |-> Written(loaded.ns, new.ns, row.ns)]

\* ResearchRepository.update_run: count the version up from the one in memory
\* and set the status (the other fields are data).
NextVersion(obj) == [obj EXCEPT !.version = @ + 1]
Updated(obj, status) == [NextVersion(obj) EXCEPT !.status = status]

-----------------------------------------------------------------------------
(* Sessions *)

ApiPhases == {"submit", "publish", "store"}

\* What an executor does between winning the claim and ending.  A broken phase
\* is one of a handler whose transaction the database has aborted.
ExecPhases == {"load", "start", "check", "work", "checkSave", "stage",
               "checkPromote", "promote", "register", "finish",
               "unwind", "abort", "failWrite", "abortBroken", "failBroken"}

CancelPhases == {"revoke", "lock", "wipe", "commit"}

Phases == {"idle", "claim"} \cup ApiPhases \cup ExecPhases \cup CancelPhases

Executing(s) == pc[s] \in ExecPhases

\* Phases inside the try block of an execute_* method.
TryPhases == ExecPhases \ {"load", "start", "unwind", "abort", "failWrite",
                           "abortBroken", "failBroken"}

\* Those of them that talk to the database, and those that write to it.
StatementPhases == TryPhases \ {"stage", "promote"}
WritingPhases == {"work", "checkPromote", "register", "finish"}

Goto(s, phase) == pc' = [pc EXCEPT ![s] = phase]

Hold(s, obj) == mem' = [mem EXCEPT ![s] = obj]

\* The handler returns: its session closes and its objects are collected.
End(s) ==
    /\ Goto(s, "idle")
    /\ Hold(s, NoRow)
    /\ todo' = [todo EXCEPT ![s] = {}]

\* An UPDATE or SELECT ... FOR UPDATE waits for the transaction holding the row.
CanLock(s) == lock \in {NoSession, s}

\* Flush the object, given what was loaded, and commit the transaction.
CommitRow(s, loaded, new) ==
    /\ CanLock(s)
    /\ row' = Flushed(loaded, new)
    /\ lock' = NoSession

\* What the transaction of a session that dies, or whose transaction the
\* database aborts, had done to the database is undone.
Rollback(s) ==
    /\ lock' = IF lock = s THEN NoSession ELSE lock
    /\ model' = IF Executing(s) /\ model = "flushed" THEN "none" ELSE model

Init ==
    /\ row = NoRow
    /\ lock = NoSession
    /\ mode \in Modes
    /\ op \in Ops
    /\ mode = "direct" => op = "plain"
    /\ pc = [s \in Sessions |-> "idle"]
    /\ mem = [s \in Sessions |-> NoRow]
    /\ todo = [s \in Sessions |-> {}]
    /\ msgs = 0
    /\ sent = 0
    /\ revoked = FALSE
    /\ tmp = {}
    /\ pub = {}
    /\ model = "none"
    /\ claims = 0

-----------------------------------------------------------------------------
(* Creating and submitting the run *)

\* A service commits the QUEUED run, then submits it, queues its task or
\* executes it in the same session.
CreateRun(a) ==
    /\ row.status = "none"
    /\ row' = NewRow
    /\ Hold(a, NewRow)
    /\ Goto(a, CASE mode = "submit" -> "submit"
                 [] mode = "direct" -> "publish"
                 [] mode = "inline" -> "load")
    /\ UNCHANGED <<lock, kindVars, todo, brokerVars, fileVars, claims>>

\* recover_queued_dispatch: another session submits a QUEUED run that has no
\* task id.  It is offered for runs meant for a worker.
RecoverQueuedDispatch(a) ==
    /\ pc[a] = "idle"
    /\ mode # "inline"
    /\ row.status = "queued"
    /\ ~row.task
    /\ Hold(a, row)
    /\ Goto(a, "submit")
    /\ UNCHANGED <<dbVars, kindVars, todo, brokerVars, fileVars, claims>>

\* submit, up to its first commit and refresh: persist the execution key and
\* the artifact namespace before anything is published.
SubmitCommit(a) ==
    LET named == [mem[a] EXCEPT !.ns = TRUE]
        obj == [named EXCEPT !.status = IF @ \in Active THEN @ ELSE "queued"]
    IN  /\ pc[a] = "submit"
        /\ CommitRow(a, mem[a], obj)
        /\ IF row'.task
             THEN End(a)
             ELSE Goto(a, "publish") /\ Hold(a, row') /\ UNCHANGED todo
        /\ UNCHANGED <<kindVars, brokerVars, fileVars, claims>>

\* queue_research_operation hands the task message to the broker.
Publish(a) ==
    /\ pc[a] = "publish"
    /\ sent < MaxSent
    /\ msgs' = msgs + 1
    /\ sent' = sent + 1
    /\ IF mode = "direct" /\ ~mem[a].ns
         THEN End(a)
         ELSE Goto(a, "store") /\ UNCHANGED <<mem, todo>>
    /\ UNCHANGED <<dbVars, kindVars, revoked, fileVars, claims>>

\* The broker is unreachable: the request fails and the run stays QUEUED.
PublishFails(a) ==
    /\ pc[a] = "publish"
    /\ End(a)
    /\ UNCHANGED <<dbVars, kindVars, brokerVars, fileVars, claims>>

\* submit, last commit: remember the task id of the published message.
StoreTaskId(a) ==
    /\ pc[a] = "store"
    /\ CommitRow(a, mem[a], [mem[a] EXCEPT !.task = TRUE])
    /\ End(a)
    /\ UNCHANGED <<kindVars, brokerVars, fileVars, claims>>

-----------------------------------------------------------------------------
(* The broker (external): at-least-once queues, early acknowledgement *)

\* The message is acknowledged as it is handed to the worker.
Deliver(w) ==
    /\ pc[w] = "idle"
    /\ msgs > 0
    /\ msgs' = msgs - 1
    /\ Goto(w, "claim")
    /\ UNCHANGED <<dbVars, kindVars, mem, todo, sent, revoked, fileVars, claims>>

\* A worker that heard the revoke drops the message.  (A worker started after
\* the broadcast did not hear it and may still deliver.)
DiscardRevoked ==
    /\ revoked
    /\ msgs > 0
    /\ msgs' = msgs - 1
    /\ UNCHANGED <<dbVars, kindVars, sessVars, sent, revoked, fileVars, claims>>

\* The broker delivers a message again.
Duplicate ==
    /\ msgs > 0
    /\ sent < MaxSent
    /\ msgs' = msgs + 1
    /\ sent' = sent + 1
    /\ UNCHANGED <<dbVars, kindVars, sessVars, revoked, fileVars, claims>>

\* A task that raises is published again by autoretry_for, until its retries
\* are used up; nothing retries a request.
Retried(s) ==
    \/ /\ s \in Workers
       /\ sent < MaxSent
       /\ msgs' = msgs + 1
       /\ sent' = sent + 1
    \/ UNCHANGED <<msgs, sent>>

-----------------------------------------------------------------------------
(* Claiming and executing *)

\* What a won claim and a lost one do.
ClaimIf(w, won) ==
    /\ pc[w] = "claim"
    /\ CanLock(w)
    /\ IF won
         THEN /\ row' = Updated(row, "running")
              /\ claims' = claims + 1
              /\ Goto(w, "load")
         ELSE /\ Goto(w, "idle")
              /\ UNCHANGED <<row, claims>>
    /\ UNCHANGED <<lock, kindVars, mem, todo, brokerVars, fileVars>>

\* Mutants: the UPDATE without its status condition, with one that only
\* excludes RUNNING, with one that also wants the task id stored.
ClaimUnconditional(w) == ClaimIf(w, TRUE)
ClaimNotRunning(w) == ClaimIf(w, row.status # "running")
ClaimDispatched(w) == ClaimIf(w, row.status = "queued" /\ row.task)

\* claim_run_for_execution: one conditional UPDATE, then commit.
Claim(w) == ClaimIf(w, row.status = "queued")

LoadAs(s, obj) ==
    /\ pc[s] = "load"
    /\ IF obj.status \in Terminal
         THEN End(s)
         ELSE Hold(s, obj) /\ Goto(s, "start") /\ UNCHANGED todo
    /\ UNCHANGED <<dbVars, kindVars, brokerVars, fileVars, claims>>

\* The first get_run of execute_*.  The object the claim returned is gone, so
\* a worker loads the row; a request still holds the object it created.
LoadRun(s) == LoadAs(s, IF s \in Workers THEN row ELSE Reread(s))

\* update_run(status=RUNNING) and commit.
StartRun(s) ==
    LET obj == Updated(mem[s], "running")
    IN  /\ pc[s] = "start"
        /\ CommitRow(s, mem[s], obj)
        /\ Hold(s, obj)
        /\ Goto(s, "check")
        /\ UNCHANGED <<kindVars, todo, brokerVars, fileVars, claims>>

CheckPhases == {"check", "checkSave", "checkPromote"}

AfterCheck(phase) ==
    CASE phase = "check" -> "work"
      [] phase = "checkSave" /\ op = "training" -> "stage"
      [] phase = "checkSave" /\ op = "plain" -> "finish"
      [] phase = "checkPromote" -> "promote"

CheckedAs(s, obj) ==
    LET pending == pc[s] = "checkPromote" /\ ~mem[s].ns
    IN  /\ pc[s] \in CheckPhases
        /\ pending => CanLock(s)
        /\ lock' = IF pending THEN s ELSE lock
        /\ Hold(s, obj)
        /\ IF obj.status = "cancelled"
             THEN Goto(s, "unwind") /\ UNCHANGED todo
             ELSE /\ Goto(s, AfterCheck(pc[s]))
                  /\ todo' = [todo EXCEPT ![s] =
                                IF op = "training" /\ pc[s] # "check" THEN Artifacts ELSE {}]
        /\ UNCHANGED <<row, kindVars, brokerVars, fileVars, claims>>

\* ensure_not_cancelled.  Its SELECT first flushes what is pending: a namespace
\* set when staging began, on a run submit never gave one, so that this
\* transaction holds the row until the execution commits.
EnsureNotCancelled(s) == CheckedAs(s, Reread(s))

\* One update_run of progress_stage and metrics, and commit.
Progress(s) ==
    LET obj == Updated(mem[s], mem[s].status)
    IN  /\ pc[s] = "work"
        /\ CommitRow(s, mem[s], obj)
        /\ Hold(s, obj)
        /\ \/ mem[s].version < MaxVersion /\ Goto(s, "check")
           \/ Goto(s, "checkSave")
        /\ UNCHANGED <<kindVars, todo, brokerVars, fileVars, claims>>

\* The computation ends without another progress update (corpus synthesis).
ComputeDone(s) ==
    /\ pc[s] = "work"
    /\ op = "plain"
    /\ Goto(s, "checkSave")
    /\ UNCHANGED <<dbVars, kindVars, mem, todo, brokerVars, fileVars, claims>>

\* stage_artifact_with_metadata, one artifact.
StageArtifact(s) ==
    \E a \in todo[s] :
        /\ pc[s] = "stage"
        /\ tmp' = tmp \cup {a}
        /\ todo' = [todo EXCEPT ![s] = @ \ {a}]
        /\ Goto(s, IF todo[s] = {a} THEN "checkPromote" ELSE "stage")
        /\ UNCHANGED <<dbVars, kindVars, mem, brokerVars, pub, model, claims>>

\* promote_staged_artifact, one artifact; after the last, cleanup_run_tmp.
PromoteArtifact(s) ==
    \E a \in todo[s] :
        /\ pc[s] = "promote"
        /\ a \in tmp
        /\ pub' = pub \cup {a}
        /\ tmp' = IF todo[s] = {a} THEN {} ELSE tmp \ {a}
        /\ todo' = [todo EXCEPT ![s] = @ \ {a}]
        /\ Goto(s, IF todo[s] = {a} THEN "register" ELSE "promote")
        /\ UNCHANGED <<dbVars, kindVars, mem, brokerVars, model, claims>>

\* promote_staged_artifact of a file that is gone: FileNotFoundError.
PromoteMissing(s) ==
    /\ pc[s] = "promote"
    /\ ~(todo[s] \subseteq tmp)
    /\ Goto(s, "abort")
    /\ UNCHANGED <<dbVars, kindVars, mem, todo, brokerVars, fileVars, claims>>

\* create_model: the TrainedModel row is flushed, not yet committed.
RegisterModel(s) ==
    /\ pc[s] = "register"
    /\ model' = "flushed"
    /\ Goto(s, "finish")
    /\ UNCHANGED <<dbVars, kindVars, mem, todo, brokerVars, tmp, pub, claims>>

CommitModel == model' = IF model = "flushed" THEN "committed" ELSE model

\* The object as execute_* writes it last: training set its namespace.
Ending(obj, status) ==
    [Updated(obj, status) EXCEPT !.ns = IF op = "training" THEN TRUE ELSE @]

\* update_run_if_active and the commit that follows: the status is checked on
\* the object the locking SELECT returns; when it is terminal only the rest of
\* the transaction (the flushed namespace, the model row) is committed.
EndIfActive(s, status) ==
    /\ CanLock(s)
    /\ lock' = NoSession
    /\ row' = IF Reread(s).status \in Active
              THEN Flushed(Reread(s), Ending(Reread(s), status))
              ELSE [row EXCEPT !.ns = IF lock = s THEN TRUE ELSE @]

\* complete_if_active and commit.
Complete(s) ==
    /\ pc[s] = "finish"
    /\ EndIfActive(s, "completed")
    /\ CommitModel
    /\ End(s)
    /\ UNCHANGED <<kindVars, brokerVars, tmp, pub, claims>>

\* except RunCancelledError: wipe the namespace and commit.
Unwind(s) ==
    /\ pc[s] = "unwind"
    /\ tmp' = {}
    /\ pub' = {}
    /\ CanLock(s)
    /\ lock' = NoSession
    /\ row' = [row EXCEPT !.ns = IF lock = s THEN TRUE ELSE @]
    /\ End(s)
    /\ UNCHANGED <<kindVars, brokerVars, model, claims>>

\* Anything in the try block may raise.
Raise(s) ==
    /\ pc[s] \in TryPhases
    /\ Goto(s, "abort")
    /\ UNCHANGED <<dbVars, kindVars, mem, todo, brokerVars, fileVars, claims>>

\* The database fails a statement of the try block, which aborts the
\* transaction for every statement to come: no handler rolls back before it
\* goes on.  A failed flush moreover expires the objects of the session, so
\* that a handler raises when it first looks at the run, before it wipes
\* anything.  In the handler itself, fail_if_active is the statement that fails.
RaiseDatabase(s) ==
    /\ \/ pc[s] \in StatementPhases /\ Goto(s, "abortBroken")
       \/ pc[s] \in WritingPhases \cup {"failWrite"} /\ Goto(s, "failBroken")
    /\ Rollback(s)
    /\ UNCHANGED <<row, kindVars, mem, todo, brokerVars, tmp, pub, claims>>

\* Mutant: only the staging tree is wiped.
AbortWipeStaging(s) ==
    /\ pc[s] \in {"abort", "abortBroken"}
    /\ tmp' = IF op = "training" THEN {} ELSE tmp
    /\ Goto(s, IF pc[s] = "abort" THEN "failWrite" ELSE "failBroken")
    /\ UNCHANGED <<dbVars, kindVars, mem, todo, brokerVars, pub, model, claims>>

\* except Exception: first cleanup_run_namespace(include_published=True) ...
AbortWipe(s) ==
    /\ pc[s] \in {"abort", "abortBroken"}
    /\ tmp' = IF op = "training" THEN {} ELSE tmp
    /\ pub' = IF op = "training" THEN {} ELSE pub
    /\ Goto(s, IF pc[s] = "abort" THEN "failWrite" ELSE "failBroken")
    /\ UNCHANGED <<dbVars, kindVars, mem, todo, brokerVars, model, claims>>

FailAs(s, ending) ==
    /\ pc[s] = "failWrite"
    /\ ending
    /\ CommitModel
    /\ End(s)
    /\ Retried(s)
    /\ UNCHANGED <<kindVars, revoked, tmp, pub, claims>>

\* Mutants: a failed execution is queued again for its retry; the failure is
\* raised to the task and not recorded.
FailRequeued(s) == FailAs(s, EndIfActive(s, "queued"))
FailUnrecorded(s) == FailAs(s, UNCHANGED row /\ lock' = NoSession)

\* ... then fail_if_active, commit and raise to the task.
Fail(s) == FailAs(s, EndIfActive(s, "failed"))

\* In an aborted transaction the handler's own SELECT ... FOR UPDATE, or the
\* first attribute of an expired object it reads, raises out of the handler:
\* the task fails and the run keeps its status.
HandlerRaises(s) ==
    /\ pc[s] = "failBroken"
    /\ End(s)
    /\ Retried(s)
    /\ UNCHANGED <<dbVars, kindVars, revoked, fileVars, claims>>

\* An error between the delivery and the try block: nothing marks the run.
RaiseOutsideTry(s) ==
    /\ AllowCrash
    /\ pc[s] \in {"claim", "load", "start"}
    /\ End(s)
    /\ Retried(s)
    /\ UNCHANGED <<dbVars, kindVars, revoked, fileVars, claims>>

-----------------------------------------------------------------------------
(* Cancelling: RunService.cancel_run *)

\* Load the run; answer 409 unless it is active.
RequestCancel(c) ==
    /\ pc[c] = "idle"
    /\ row.status \in Active
    /\ Hold(c, row)
    /\ Goto(c, IF row.status = "queued" /\ row.task THEN "revoke" ELSE "lock")
    /\ UNCHANGED <<dbVars, kindVars, todo, brokerVars, fileVars, claims>>

\* Broadcast the revoke of a task not started; a failure is only logged.
Revoke(c) ==
    /\ pc[c] = "revoke"
    /\ revoked' \in {revoked, TRUE}
    /\ Goto(c, "lock")
    /\ UNCHANGED <<dbVars, kindVars, mem, todo, msgs, sent, fileVars, claims>>

\* cancel_if_active: lock the row, look at the object, flush; or answer 409.
LockForCancel(c) ==
    /\ pc[c] = "lock"
    /\ CanLock(c)
    /\ IF Reread(c).status \in Active
         THEN /\ lock' = c
              /\ Hold(c, Reread(c))
              /\ Goto(c, "wipe")
              /\ UNCHANGED todo
         ELSE End(c) /\ UNCHANGED lock
    /\ UNCHANGED <<row, kindVars, brokerVars, fileVars, claims>>

\* cleanup_run_namespace(include_published=True), before the commit.
WipeForCancel(c) ==
    /\ pc[c] = "wipe"
    /\ tmp' = IF mem[c].ns THEN {} ELSE tmp
    /\ pub' = IF mem[c].ns THEN {} ELSE pub
    /\ Goto(c, "commit")
    /\ UNCHANGED <<dbVars, kindVars, mem, todo, brokerVars, model, claims>>

CommitCancel(c) ==
    /\ pc[c] = "commit"
    /\ CommitRow(c, mem[c], Updated(mem[c], "cancelled"))
    /\ End(c)
    /\ UNCHANGED <<kindVars, brokerVars, fileVars, claims>>

-----------------------------------------------------------------------------
(* Crashes *)

\* A process dies; its transaction rolls back, its message is already gone.
Crash(s) ==
    /\ AllowCrash
    /\ pc[s] # "idle"
    /\ End(s)
    /\ Rollback(s)
    /\ UNCHANGED <<row, kindVars, brokerVars, tmp, pub, claims>>

-----------------------------------------------------------------------------

Submission(a) ==
    \/ CreateRun(a) \/ RecoverQueuedDispatch(a) \/ SubmitCommit(a)
    \/ Publish(a) \/ PublishFails(a) \/ StoreTaskId(a)

\* What a claimed or inline execution does next, of its own accord.
ExecutionStep(s) ==
    \/ LoadRun(s) \/ StartRun(s) \/ EnsureNotCancelled(s) \/ Progress(s)
    \/ ComputeDone(s) \/ StageArtifact(s) \/ PromoteArtifact(s)
    \/ PromoteMissing(s) \/ RegisterModel(s) \/ Complete(s) \/ Unwind(s)
    \/ AbortWipe(s) \/ Fail(s) \/ HandlerRaises(s)

Execution(s) ==
    ExecutionStep(s) \/ Raise(s) \/ RaiseDatabase(s) \/ RaiseOutsideTry(s)

\* What a cancel request does once it was made.
CancelStep(c) ==
    Revoke(c) \/ LockForCancel(c) \/ WipeForCancel(c) \/ CommitCancel(c)

Next ==
    \/ \E a \in Api : Submission(a)
    \/ \E w \in Workers : Deliver(w) \/ Claim(w)
    \/ DiscardRevoked \/ Duplicate
    \/ \E s \in Executors : Execution(s)
    \/ \E c \in Cancellers : RequestCancel(c) \/ CancelStep(c)
    \/ \E s \in Sessions : Crash(s)

Spec == Init /\ [][Next]_vars

\* Worker processes and started requests keep running; the broker delivers.
\* No fairness for requests a user may or may not make, nor for errors.
Fairness ==
    /\ \A w \in Workers : WF_vars(Deliver(w)) /\ WF_vars(Claim(w))
    /\ \A s \in Executors : WF_vars(ExecutionStep(s))
    /\ \A c \in Cancellers : WF_vars(CancelStep(c))

FairSpec == Spec /\ Fairness

-----------------------------------------------------------------------------
(* Properties *)

\* Types of the row, of the sessions and of the namespace's files.
TypeOK ==
    /\ row \in Row
    /\ lock \in Sessions \cup {NoSession}
    /\ mode \in Modes
    /\ op \in Ops
    /\ pc \in [Sessions -> Phases]
    /\ mem \in [Sessions -> Row]
    /\ todo \in [Sessions -> SUBSET Artifacts]
    /\ msgs \in Nat
    /\ sent \in Nat
    /\ revoked \in BOOLEAN
    /\ tmp \in SUBSET Artifacts
    /\ pub \in SUBSET Artifacts
    /\ model \in {"none", "flushed", "committed"}
    /\ claims \in Nat

Background == mode # "inline"

\* Duplicated deliveries, task retries, re-submissions and stale sessions
\* together never execute a run twice: a worker wins the claim of
\* claim_run_for_execution at most once in the whole life of the run.
ClaimedOnce == claims <= 1

\* At any moment at most one session is executing the run, and while one is
\* the run is not offered to another worker as QUEUED (background dispatch).
SingleExecutor ==
    /\ \A s, t \in Executors : Executing(s) /\ Executing(t) => s = t
    /\ Background => \A s \in Executors : Executing(s) => row.status # "queued"

\* A run that reached a terminal status is never active again: neither the
\* unguarded update_run(status=RUNNING) of execute_*, nor submit, nor a stale
\* session puts it back to QUEUED or RUNNING (background dispatch).
NeverReactivated ==
    [][Background /\ row.status \in Terminal => row'.status \in Terminal]_vars

\* A run cancelled before any worker claimed it is never executed and stays
\* CANCELLED, whatever messages are still on the broker.
CancelledBeforeClaimIsFinal ==
    [][(Background /\ row.status = "cancelled" /\ claims = 0)
        => (row'.status = "cancelled" /\ claims' = 0)]_vars

\* A FAILED run has left no file behind, staged or published: the exception
\* handlers wipe the namespace before they mark the run, and nothing stages
\* again afterwards.
FailedLeavesNoFiles == row.status = "failed" => tmp = {} /\ pub = {}

-----------------------------------------------------------------------------
(* The inductive invariant behind the safety properties *)

\* Which phases a session of each kind can be in, and in which dispatch mode.
RoleInv ==
    /\ \A s \in Cancellers : pc[s] \in {"idle"} \cup CancelPhases
    /\ \A s \in Workers :
        /\ pc[s] \in {"idle", "claim"} \cup ExecPhases
        /\ pc[s] # "idle" => Background
    /\ \A s \in Api :
        /\ pc[s] \in {"idle"} \cup ApiPhases \cup ExecPhases
        /\ pc[s] \in ApiPhases => Background
        /\ Executing(s) => ~Background
    /\ ~Background => msgs = 0 /\ claims = 0

\* What stale objects hold at the points where their status is written back.
ObjectInv ==
    /\ \A s \in Api : pc[s] = "submit" => mem[s].status = "queued"
    /\ \A s \in Workers : pc[s] = "start" => mem[s].status = "running"
    /\ \A s \in Cancellers : pc[s] \in {"wipe", "commit"} => mem[s].status \in Active

\* How the status, the claim and the executing session go together.
OwnerInv ==
    /\ row.status = "none" => msgs = 0 /\ \A s \in Sessions : pc[s] = "idle"
    /\ claims <= 1
    /\ Background /\ row.status \in {"none", "queued"} => claims = 0
    /\ Background /\ row.status \in {"running", "completed", "failed"} => claims = 1
    /\ Background /\ claims = 0 => \A s \in Executors : ~Executing(s)
    /\ \A s, t \in Executors : Executing(s) /\ Executing(t) => s = t
    /\ row.status \in {"completed", "failed"} => \A s \in Executors : ~Executing(s)

\* Where files can be.
FileInv ==
    /\ op = "plain" => tmp = {} /\ pub = {}
    /\ \A s \in Executors :
        pc[s] \in {"stage", "checkPromote", "promote", "register"} => op = "training"
    /\ \A s \in Executors : pc[s] = "failWrite" => tmp = {} /\ pub = {}
    /\ FailedLeavesNoFiles

\* A cancel that passed its check holds the row, and when sessions refresh what
\* they read the row is still active.
LockInv ==
    \A c \in Cancellers : pc[c] \in {"wipe", "commit"} =>
        /\ lock = c
        /\ AutoRefresh => row.status \in Active

IInv == TypeOK /\ RoleInv /\ ObjectInv /\ OwnerInv /\ FileInv /\ LockInv

-----------------------------------------------------------------------------
(* What the documentation promises, and what holds of it *)

\* The documented rule of complete_if_active, fail_if_active and
\* cancel_if_active: a terminal status is never overwritten by another.
TerminalIsFinal ==
    [][row.status \in Terminal => row'.status = row.status]_vars

\* fail_if_active's reason for the rule: cancellation remains terminal when a
\* worker, on its normal or its exception path, races the cancel.
CancellationIsFinal ==
    [][row.status = "cancelled" => row'.status = "cancelled"]_vars

\* The lifecycle as the rest of the system sees it; a terminal status is only
\* final if sessions refresh what they re-read.  Runs executed in the request
\* never enter it.
Contract == INSTANCE RunContract WITH
                Sticky <- AutoRefresh,
                status <- IF Background THEN row.status ELSE "none",
                executions <- IF Background THEN claims ELSE 0

\* Dispatch, execution and cancellation of background runs, whatever is lost,
\* repeated, stale or crashes in them, implement that contract.
ContractSpec == Contract!Spec

\* What the docstring of test_synthesis_worker_failures.py promises: a worker's
\* failure marks the run FAILED.  A worker that leaves the except block of
\* execute_* leaves a terminal run behind.
WorkerFailureMarksRun ==
    [][\A w \in Workers :
            pc[w] \in {"failWrite", "failBroken"} /\ pc'[w] = "idle"
                => row'.status \in Terminal]_vars

\* A run a worker claimed reaches a terminal status, whatever its computation,
\* its files and the cancels do, provided that processes do not die, that
\* errors are raised inside the try block of execute_*, and that the database
\* has not aborted the transaction in which a handler records the failure: what
\* happens then is WorkerFailureMarksRun's case.
ClaimedRunSettles ==
    [](\A s \in Executors : pc[s] # "failBroken")
        => (row.status = "running" ~> row.status \in Terminal)

\* A QUEUED run whose message is on the broker does not stay QUEUED: it is
\* claimed, or the cancel that revoked its message commits.
PublishedRunLeavesQueue ==
    (Background /\ row.status = "queued" /\ msgs > 0) ~> row.status # "queued"
=============================================================================
