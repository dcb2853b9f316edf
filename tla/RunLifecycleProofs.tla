------------------------- MODULE RunLifecycleProofs -------------------------
(***************************************************************************)
(* Proofs about RunLifecycle, for any sets of sessions and artifacts, any  *)
(* bounds, with and without crashes, and for stale as well as refreshing   *)
(* sessions.                                                               *)
(***************************************************************************)
EXTENDS RunLifecycle, TLAPS

-----------------------------------------------------------------------------
(* Types *)

\* update_run and the terminal writes turn a row into a row.
LEMMA UpdateTypes ==
  ASSUME NEW obj \in Row, NEW status \in Statuses
  PROVE  Updated(obj, status) \in Row /\ Ending(obj, status) \in Row
  <1>1. NextVersion(obj) \in Row
    BY DEF NextVersion, Row
  <1>2. Updated(obj, status) \in Row
    BY <1>1 DEF Updated, Row
  <1>3. Ending(obj, status) \in Row
    BY <1>2 DEF Ending, Row
  <1> QED
    BY <1>2, <1>3

\* A flush of two rows onto the committed row gives a row.
LEMMA FlushType ==
  ASSUME row \in Row, NEW loaded \in Row, NEW new \in Row
  PROVE  Flushed(loaded, new) \in Row
  BY DEF Flushed, Written, Row

\* The empty and the new row.
LEMMA FirstRows == NoRow \in Row /\ NewRow \in Row
  BY DEF NoRow, NewRow, Row, Statuses, Active

\* The end of a handler keeps the session variables well typed.
LEMMA EndTypes ==
  ASSUME TypeOK, NEW s \in Sessions, End(s)
  PROVE  /\ pc' \in [Sessions -> Phases]
         /\ mem' \in [Sessions -> Row]
         /\ todo' \in [Sessions -> SUBSET Artifacts]
  BY FirstRows DEF TypeOK, End, Goto, Hold, Phases

\* A read of the row, fresh or from the identity map, is a row.
LEMMA RereadType ==
  ASSUME TypeOK, NEW s \in Sessions
  PROVE  Reread(s) \in Row
  BY DEF TypeOK, Reread

\* Flush and commit keep the row and the lock well typed.
LEMMA CommitTypes ==
  ASSUME TypeOK, NEW s \in Sessions, NEW loaded \in Row, NEW new \in Row,
         CommitRow(s, loaded, new)
  PROVE  row' \in Row /\ lock' \in Sessions \cup {NoSession}
  BY FlushType DEF TypeOK, CommitRow

\* So does the terminal write.
LEMMA EndIfActiveTypes ==
  ASSUME TypeOK, NEW s \in Sessions, NEW status \in Statuses, EndIfActive(s, status)
  PROVE  row' \in Row /\ lock' \in Sessions \cup {NoSession}
  <1>1. Flushed(Reread(s), Ending(Reread(s), status)) \in Row
    BY UpdateTypes, FlushType, RereadType DEF TypeOK
  <1>2. [row EXCEPT !.ns = IF lock = s THEN TRUE ELSE @] \in Row
    BY DEF TypeOK, Row
  <1> QED
    BY <1>1, <1>2 DEF EndIfActive
\* The initial state is well typed.
LEMMA InitTypes == Init => TypeOK
  <1> SUFFICES ASSUME Init PROVE TypeOK
    OBVIOUS
  <1>1. row \in Row /\ mem \in [Sessions -> Row]
    BY FirstRows DEF Init
  <1>2. pc \in [Sessions -> Phases] /\ todo \in [Sessions -> SUBSET Artifacts]
    BY DEF Init, Phases
  <1> QED
    BY <1>1, <1>2 DEF Init, TypeOK

\* Creating and submitting.
LEMMA SubmissionTypes ==
  ASSUME TypeOK, NEW a \in Api, Submission(a)
  PROVE  TypeOK'
  <1> a \in Sessions
    BY DEF Sessions
  <1>1. CASE CreateRun(a)
    <2>1. pc' \in [Sessions -> Phases]
      <3>1. mode \in {"submit", "direct", "inline"}
        BY ParameterAssumption DEF TypeOK, AllModes
      <3>2. pc'[a] \in {"submit", "publish", "load"}
        BY <1>1, <3>1 DEF TypeOK, CreateRun, Goto
      <3> QED
        BY <1>1, <3>2 DEF TypeOK, CreateRun, Goto, Phases, ApiPhases, ExecPhases
    <2>2. row' \in Row /\ mem' \in [Sessions -> Row]
      BY <1>1, FirstRows DEF TypeOK, CreateRun, Hold
    <2> QED
      BY <1>1, <2>1, <2>2 DEF TypeOK, CreateRun, kindVars, brokerVars, fileVars
  <1>2. CASE RecoverQueuedDispatch(a)
    BY <1>2
    DEF TypeOK, RecoverQueuedDispatch, Hold, Goto, Phases, ApiPhases,
        dbVars, kindVars, brokerVars, fileVars
  <1>3. CASE SubmitCommit(a)
    <2> DEFINE named == [mem[a] EXCEPT !.ns = TRUE]
               obj == [named EXCEPT !.status = IF @ \in Active THEN @ ELSE "queued"]
    <2>1. mem[a] \in Row
      BY DEF TypeOK
    <2>2. named \in Row
      BY <2>1 DEF Row
    <2>3. obj \in Row
      BY <2>2 DEF Row, Statuses, Active
    <2>4. row' \in Row /\ lock' \in Sessions \cup {NoSession}
      BY <1>3, <2>1, <2>3, CommitTypes DEF SubmitCommit
    <2>5. /\ pc' \in [Sessions -> Phases]
          /\ mem' \in [Sessions -> Row]
          /\ todo' \in [Sessions -> SUBSET Artifacts]
      BY <1>3, <2>4, EndTypes
      DEF TypeOK, SubmitCommit, Goto, Hold, Phases, ApiPhases
    <2> QED
      BY <1>3, <2>4, <2>5
      DEF TypeOK, SubmitCommit, kindVars, brokerVars, fileVars
  <1>4. CASE Publish(a)
    BY <1>4, EndTypes
    DEF TypeOK, Publish, Goto, Phases, ApiPhases, dbVars, kindVars, fileVars
  <1>5. CASE PublishFails(a)
    BY <1>5, EndTypes
    DEF TypeOK, PublishFails, dbVars, kindVars, brokerVars, fileVars
  <1>6. CASE StoreTaskId(a)
    <2>1. mem[a] \in Row /\ [mem[a] EXCEPT !.task = TRUE] \in Row
      BY DEF TypeOK, Row
    <2>2. row' \in Row /\ lock' \in Sessions \cup {NoSession}
      BY <1>6, <2>1, CommitTypes DEF StoreTaskId
    <2> QED
      BY <1>6, <2>2, EndTypes
      DEF TypeOK, StoreTaskId, kindVars, brokerVars, fileVars
  <1> QED
    BY <1>1, <1>2, <1>3, <1>4, <1>5, <1>6 DEF Submission

\* Deliveries, claims and the broker.
LEMMA BrokerTypes ==
  ASSUME TypeOK, (\E w \in Workers : Deliver(w) \/ Claim(w)) \/ DiscardRevoked \/ Duplicate
  PROVE  TypeOK'
  <1>1. CASE \E w \in Workers : Deliver(w)
    BY <1>1
    DEF TypeOK, Deliver, Goto, Sessions, Phases, dbVars, kindVars, fileVars
  <1>2. CASE \E w \in Workers : Claim(w)
    <2> PICK w \in Workers : Claim(w)
      BY <1>2
    <2>1. Updated(row, "running") \in Row
      BY UpdateTypes DEF TypeOK, Statuses, Active
    <2> QED
      BY <2>1
      DEF TypeOK, Claim, ClaimIf, Goto, Sessions, Phases, ExecPhases,
          kindVars, brokerVars, fileVars
  <1>3. CASE DiscardRevoked
    BY <1>3 DEF TypeOK, DiscardRevoked, dbVars, kindVars, sessVars, fileVars
  <1>4. CASE Duplicate
    BY <1>4 DEF TypeOK, Duplicate, dbVars, kindVars, sessVars, fileVars
  <1> QED
    BY <1>1, <1>2, <1>3, <1>4

\* An execution.
LEMMA ExecutionTypes ==
  ASSUME TypeOK, NEW s \in Executors, Execution(s)
  PROVE  TypeOK'
  <1> s \in Sessions
    BY DEF Sessions, Executors
  <1>a. mem[s] \in Row /\ Reread(s) \in Row
    BY RereadType DEF TypeOK
  <1>b. {"running", "completed", "failed"} \subseteq Statuses /\ mem[s].status \in Statuses
    BY <1>a DEF Statuses, Active, Terminal, Row
  <1>1. CASE LoadRun(s)
    <2>1. (IF s \in Workers THEN row ELSE Reread(s)) \in Row
      BY <1>a DEF TypeOK
    <2> QED
      BY <1>1, <2>1, EndTypes
      DEF TypeOK, LoadRun, LoadAs, Goto, Hold, Phases, ExecPhases,
          dbVars, kindVars, brokerVars, fileVars
  <1>2. CASE StartRun(s)
    <2>1. Updated(mem[s], "running") \in Row
      BY <1>a, <1>b, UpdateTypes
    <2>2. row' \in Row /\ lock' \in Sessions \cup {NoSession}
      BY <1>2, <1>a, <2>1, CommitTypes DEF StartRun
    <2> QED
      BY <1>2, <2>1, <2>2
      DEF TypeOK, StartRun, Goto, Hold, Phases, ExecPhases, kindVars, brokerVars, fileVars
  <1>3. CASE EnsureNotCancelled(s)
    <2>2. AfterCheck(pc[s]) \in Phases
      BY <1>3, ParameterAssumption
      DEF TypeOK, EnsureNotCancelled, CheckedAs, CheckPhases, AfterCheck, Phases, ExecPhases, AllOps
    <2> QED
      BY <1>3, <1>a, <2>2
      DEF TypeOK, EnsureNotCancelled, CheckedAs, Goto, Hold, Phases, ExecPhases,
          kindVars, brokerVars, fileVars
  <1>4. CASE Progress(s)
    <2>1. Updated(mem[s], mem[s].status) \in Row
      BY <1>a, <1>b, UpdateTypes
    <2>2. row' \in Row /\ lock' \in Sessions \cup {NoSession}
      BY <1>4, <1>a, <2>1, CommitTypes DEF Progress
    <2> QED
      BY <1>4, <2>1, <2>2
      DEF TypeOK, Progress, Goto, Hold, Phases, ExecPhases, kindVars, brokerVars, fileVars
  <1>5. CASE ComputeDone(s)
    BY <1>5
    DEF TypeOK, ComputeDone, Goto, Phases, ExecPhases, dbVars, kindVars, brokerVars, fileVars
  <1>6. CASE StageArtifact(s)
    BY <1>6
    DEF TypeOK, StageArtifact, Goto, Phases, ExecPhases, dbVars, kindVars, brokerVars
  <1>7. CASE PromoteArtifact(s)
    BY <1>7
    DEF TypeOK, PromoteArtifact, Goto, Phases, ExecPhases, dbVars, kindVars, brokerVars
  <1>8. CASE PromoteMissing(s)
    BY <1>8
    DEF TypeOK, PromoteMissing, Goto, Phases, ExecPhases, dbVars, kindVars, brokerVars, fileVars
  <1>9. CASE RegisterModel(s)
    BY <1>9
    DEF TypeOK, RegisterModel, Goto, Phases, ExecPhases, dbVars, kindVars, brokerVars
  <1>10. CASE Complete(s)
    BY <1>10, <1>b, EndTypes, EndIfActiveTypes
    DEF TypeOK, Complete, CommitModel, kindVars, brokerVars
  <1>11. CASE Unwind(s)
    <2>1. [row EXCEPT !.ns = IF lock = s THEN TRUE ELSE @] \in Row
      BY DEF TypeOK, Row
    <2> QED
      BY <1>11, <2>1, EndTypes DEF TypeOK, Unwind, kindVars, brokerVars
  <1>12. CASE Raise(s)
    BY <1>12
    DEF TypeOK, Raise, Goto, Phases, ExecPhases, dbVars, kindVars, brokerVars, fileVars
  <1>13. CASE AbortWipe(s)
    BY <1>13
    DEF TypeOK, AbortWipe, Goto, Phases, ExecPhases, dbVars, kindVars, brokerVars
  <1>14. CASE Fail(s)
    BY <1>14, <1>b, EndTypes, EndIfActiveTypes
    DEF TypeOK, Fail, FailAs, CommitModel, Retried, kindVars
  <1>15. CASE RaiseOutsideTry(s)
    BY <1>15, EndTypes
    DEF TypeOK, RaiseOutsideTry, Retried, dbVars, kindVars, fileVars
  <1>16. CASE RaiseDatabase(s)
    BY <1>16
    DEF TypeOK, RaiseDatabase, Rollback, Goto, Phases, ExecPhases, kindVars, brokerVars
  <1>17. CASE HandlerRaises(s)
    BY <1>17, EndTypes
    DEF TypeOK, HandlerRaises, Retried, dbVars, kindVars, fileVars
  <1> QED
    BY <1>1, <1>2, <1>3, <1>4, <1>5, <1>6, <1>7, <1>8, <1>9, <1>10, <1>11,
       <1>12, <1>13, <1>14, <1>15, <1>16, <1>17 DEF Execution, ExecutionStep

\* Cancel requests.
LEMMA CancelTypes ==
  ASSUME TypeOK, NEW c \in Cancellers, RequestCancel(c) \/ CancelStep(c)
  PROVE  TypeOK'
  <1> c \in Sessions
    BY DEF Sessions
  <1>a. mem[c] \in Row /\ Reread(c) \in Row
    BY RereadType DEF TypeOK
  <1>1. CASE RequestCancel(c)
    BY <1>1
    DEF TypeOK, RequestCancel, Goto, Hold, Phases, CancelPhases,
        dbVars, kindVars, brokerVars, fileVars
  <1>2. CASE Revoke(c)
    BY <1>2
    DEF TypeOK, Revoke, Goto, Phases, CancelPhases, dbVars, kindVars, fileVars
  <1>3. CASE LockForCancel(c)
    BY <1>3, <1>a, EndTypes
    DEF TypeOK, LockForCancel, Goto, Hold, Phases, CancelPhases,
        kindVars, brokerVars, fileVars
  <1>4. CASE WipeForCancel(c)
    BY <1>4
    DEF TypeOK, WipeForCancel, Goto, Phases, CancelPhases, dbVars, kindVars, brokerVars
  <1>5. CASE CommitCancel(c)
    <2>1. Updated(mem[c], "cancelled") \in Row
      BY <1>a, UpdateTypes DEF Statuses, Terminal
    <2> QED
      BY <1>5, <1>a, <2>1, CommitTypes, EndTypes
      DEF TypeOK, CommitCancel, kindVars, brokerVars, fileVars
  <1> QED
    BY <1>1, <1>2, <1>3, <1>4, <1>5 DEF CancelStep

\* Any step.
LEMMA NextTypes ==
  ASSUME TypeOK, [Next]_vars
  PROVE  TypeOK'
  <1>1. CASE \E s \in Sessions : Crash(s)
    BY <1>1, EndTypes DEF TypeOK, Crash, Rollback, kindVars, brokerVars
  <1>2. CASE UNCHANGED vars
    BY <1>2 DEF TypeOK, vars
  <1> QED
    BY <1>1, <1>2, SubmissionTypes, BrokerTypes, ExecutionTypes, CancelTypes DEF Next

\* Type correctness: the row, the sessions, the broker and the namespace stay
\* in their types whatever is interleaved.
THEOREM TypeCorrect == Spec => []TypeOK
  <1>1. Init => TypeOK
    BY InitTypes
  <1>2. TypeOK /\ [Next]_vars => TypeOK'
    BY NextTypes
  <1> QED
    BY <1>1, <1>2, PTL DEF Spec

-----------------------------------------------------------------------------
(* What the writes do to the status of the committed row *)

\* What update_run and the terminal writes do to the status of the object.
LEMMA StatusSet ==
  ASSUME NEW obj \in Row, NEW status \in Statuses
  PROVE  Updated(obj, status).status = status /\ Ending(obj, status).status = status
  <1>1. NextVersion(obj) \in Row
    BY DEF NextVersion, Row
  <1>2. Updated(obj, status) \in Row /\ Updated(obj, status).status = status
    BY <1>1 DEF Updated, Row
  <1>3. Ending(obj, status).status = status
    BY <1>2 DEF Ending, Row
  <1> QED
    BY <1>2, <1>3

\* A flush writes the status when it changed in memory, and only then.
LEMMA FlushStatus ==
  ASSUME NEW loaded \in Row, NEW new \in Row
  PROVE  Flushed(loaded, new).status =
            IF new.status # loaded.status THEN new.status ELSE row.status
  BY DEF Flushed, Written

\* submit writes the status back only if it differs from the QUEUED it loaded.
LEMMA SubmitStatus ==
  ASSUME TypeOK, ObjectInv, NEW a \in Api, SubmitCommit(a) \/ StoreTaskId(a)
  PROVE  row'.status = row.status
  <1>0. mem[a] \in Row
    BY DEF TypeOK, Sessions
  <1>1. CASE SubmitCommit(a)
    <2> DEFINE named == [mem[a] EXCEPT !.ns = TRUE]
               obj == [named EXCEPT !.status = IF @ \in Active THEN @ ELSE "queued"]
    <2>1. mem[a].status = "queued"
      BY <1>1 DEF SubmitCommit, ObjectInv
    <2>2. named \in Row /\ named.status = "queued"
      BY <1>0, <2>1 DEF Row
    <2>3. obj \in Row /\ obj.status = "queued"
      BY <2>2 DEF Row, Active
    <2>4. row' = Flushed(mem[a], obj)
      BY <1>1, Zenon DEF SubmitCommit, CommitRow
    <2> HIDE DEF obj
    <2>5. Flushed(mem[a], obj).status = row.status
      BY <1>0, <2>1, <2>3, FlushStatus
    <2> QED
      BY <2>4, <2>5
  <1>2. CASE StoreTaskId(a)
    <2> DEFINE obj == [mem[a] EXCEPT !.task = TRUE]
    <2>1. obj \in Row /\ obj.status = mem[a].status
      BY <1>0 DEF Row
    <2>2. Flushed(mem[a], obj).status = row.status
      BY <1>0, <2>1, FlushStatus
    <2> QED
      BY <1>2, <2>2 DEF StoreTaskId, CommitRow
  <1> QED
    BY <1>1, <1>2

\* update_run(status=RUNNING) and a progress update.
LEMMA RunningStatus ==
  ASSUME TypeOK, NEW s \in Executors
  PROVE  /\ StartRun(s) => row'.status =
                IF mem[s].status # "running" THEN "running" ELSE row.status
         /\ Progress(s) => row'.status = row.status
  <1>1. mem[s] \in Row /\ mem[s].status \in Statuses /\ "running" \in Statuses
    BY DEF TypeOK, Sessions, Executors, Row, Statuses, Active
  <1>2. \A status \in Statuses :
          Updated(mem[s], status) \in Row /\ Updated(mem[s], status).status = status
    BY <1>1, UpdateTypes, StatusSet
  <1>3. \A status \in Statuses : Flushed(mem[s], Updated(mem[s], status)).status =
          IF status # mem[s].status THEN status ELSE row.status
    BY <1>1, <1>2, FlushStatus
  <1> QED
    BY <1>1, <1>3 DEF StartRun, Progress, CommitRow

\* The terminal write sets the status or leaves the committed one.
LEMMA EndStatus ==
  ASSUME TypeOK, NEW s \in Sessions, NEW status \in Terminal, EndIfActive(s, status)
  PROVE  row'.status = IF Reread(s).status \in Active THEN status ELSE row.status
  <1> DEFINE obj == Reread(s)
  <1>1. status \in Statuses /\ status \notin Active
    BY DEF Terminal, Statuses, Active
  <1>2. obj \in Row
    BY RereadType
  <1>3. Ending(obj, status) \in Row /\ Ending(obj, status).status = status
    BY <1>1, <1>2, StatusSet, UpdateTypes
  <1>4. Flushed(obj, Ending(obj, status)).status =
          IF status # obj.status THEN status ELSE row.status
    BY <1>2, <1>3, FlushStatus
  <1>5. [row EXCEPT !.ns = IF lock = s THEN TRUE ELSE @].status = row.status
    BY DEF TypeOK, Row
  <1>6. CASE obj.status \in Active
    <2>1. obj.status # status
      BY <1>1, <1>6
    <2> QED
      BY <1>4, <1>6, <2>1 DEF EndIfActive
  <1>7. CASE obj.status \notin Active
    BY <1>5, <1>7 DEF EndIfActive
  <1> QED
    BY <1>6, <1>7

\* The end of a cancel: the object it holds was active.
LEMMA CancelStatus ==
  ASSUME TypeOK, ObjectInv, NEW c \in Cancellers, CommitCancel(c)
  PROVE  row'.status = "cancelled"
  <1>1. mem[c] \in Row /\ mem[c].status # "cancelled"
    BY DEF TypeOK, Sessions, CommitCancel, ObjectInv, Active
  <1>2. Updated(mem[c], "cancelled") \in Row
        /\ Updated(mem[c], "cancelled").status = "cancelled"
    BY <1>1, UpdateTypes, StatusSet DEF Statuses, Terminal
  <1> QED
    BY <1>1, <1>2, FlushStatus DEF CommitCancel, CommitRow

-----------------------------------------------------------------------------
(* The inductive invariant *)

\* The invariant without the types, which the lemmas above take care of.
ControlInv == RoleInv /\ ObjectInv /\ OwnerInv /\ FileInv /\ LockInv

\* The initial state satisfies the invariant.
LEMMA InitInv == Init => IInv
  BY InitTypes
  DEF Init, IInv, RoleInv, ObjectInv, OwnerInv, FileInv, LockInv, FailedLeavesNoFiles,
      Sessions, Executors, Executing, NoRow, ExecPhases, ApiPhases, CancelPhases, Background

\* Creating and submitting preserve it.
LEMMA SubmissionInv ==
  ASSUME IInv, NEW a \in Api, Submission(a)
  PROVE  ControlInv'
  <1> USE SessionAssumption
      DEF IInv, TypeOK, Sessions, Executors, Executing, Background, Active, Terminal,
          ExecPhases, ApiPhases, CancelPhases, Goto, Hold, End, CanLock,
          kindVars, dbVars, sessVars, brokerVars, fileVars
  <1>1. CASE CreateRun(a)
    <2>m. mode \in {"submit", "direct", "inline"}
      BY ParameterAssumption DEF AllModes
    <2>a. pc' = [pc EXCEPT ![a] = IF mode = "submit" THEN "submit"
                                  ELSE IF mode = "direct" THEN "publish" ELSE "load"]
      BY <1>1, <2>m DEF CreateRun
    <2>b. /\ row.status = "none"
          /\ row'.status = "queued"
          /\ mem' = [mem EXCEPT ![a] = NewRow]
          /\ NewRow.status = "queued"
          /\ UNCHANGED <<lock, kindVars, todo, brokerVars, fileVars, claims>>
      BY <1>1 DEF CreateRun, NewRow
    <2>1. RoleInv'
      BY <2>m, <2>a, <2>b DEF RoleInv
    <2>2. ObjectInv'
      BY <2>m, <2>a, <2>b DEF ObjectInv
    <2>3. OwnerInv'
      BY <2>m, <2>a, <2>b DEF OwnerInv
    <2>4. FileInv'
      BY <2>m, <2>a, <2>b DEF FileInv, FailedLeavesNoFiles
    <2>5. LockInv'
      BY <2>m, <2>a, <2>b DEF LockInv
    <2> QED
      BY <2>1, <2>2, <2>3, <2>4, <2>5 DEF ControlInv
  <1>2. CASE RecoverQueuedDispatch(a)
    <2>1. RoleInv'
      BY <1>2 DEF RecoverQueuedDispatch, RoleInv
    <2>2. ObjectInv'
      BY <1>2 DEF RecoverQueuedDispatch, ObjectInv
    <2>3. OwnerInv'
      BY <1>2 DEF RecoverQueuedDispatch, OwnerInv
    <2>4. FileInv'
      BY <1>2 DEF RecoverQueuedDispatch, FileInv, FailedLeavesNoFiles
    <2>5. LockInv'
      BY <1>2 DEF RecoverQueuedDispatch, LockInv
    <2> QED
      BY <2>1, <2>2, <2>3, <2>4, <2>5 DEF ControlInv
  <1>3. CASE SubmitCommit(a)
    <2>r. row'.status = row.status
      BY <1>3, SubmitStatus
    <2>1. RoleInv'
      BY <1>3, <2>r DEF SubmitCommit, CommitRow, RoleInv
    <2>2. ObjectInv'
      BY <1>3, <2>r DEF SubmitCommit, CommitRow, ObjectInv
    <2>3. OwnerInv'
      BY <1>3, <2>r DEF SubmitCommit, CommitRow, OwnerInv
    <2>4. FileInv'
      BY <1>3, <2>r DEF SubmitCommit, CommitRow, FileInv, FailedLeavesNoFiles
    <2>5. LockInv'
      BY <1>3, <2>r DEF SubmitCommit, CommitRow, LockInv
    <2> QED
      BY <2>1, <2>2, <2>3, <2>4, <2>5 DEF ControlInv
  <1>4. CASE Publish(a)
    <2>1. RoleInv'
      BY <1>4 DEF Publish, RoleInv
    <2>2. ObjectInv'
      BY <1>4 DEF Publish, ObjectInv
    <2>3. OwnerInv'
      BY <1>4 DEF Publish, OwnerInv
    <2>4. FileInv'
      BY <1>4 DEF Publish, FileInv, FailedLeavesNoFiles
    <2>5. LockInv'
      BY <1>4 DEF Publish, LockInv
    <2> QED
      BY <2>1, <2>2, <2>3, <2>4, <2>5 DEF ControlInv
  <1>5. CASE PublishFails(a)
    <2>1. RoleInv'
      BY <1>5 DEF PublishFails, RoleInv
    <2>2. ObjectInv'
      BY <1>5 DEF PublishFails, ObjectInv
    <2>3. OwnerInv'
      BY <1>5 DEF PublishFails, OwnerInv
    <2>4. FileInv'
      BY <1>5 DEF PublishFails, FileInv, FailedLeavesNoFiles
    <2>5. LockInv'
      BY <1>5 DEF PublishFails, LockInv
    <2> QED
      BY <2>1, <2>2, <2>3, <2>4, <2>5 DEF ControlInv
  <1>6. CASE StoreTaskId(a)
    <2>r. row'.status = row.status
      BY <1>6, SubmitStatus
    <2>1. RoleInv'
      BY <1>6, <2>r DEF StoreTaskId, CommitRow, RoleInv
    <2>2. ObjectInv'
      BY <1>6, <2>r DEF StoreTaskId, CommitRow, ObjectInv
    <2>3. OwnerInv'
      BY <1>6, <2>r DEF StoreTaskId, CommitRow, OwnerInv
    <2>4. FileInv'
      BY <1>6, <2>r DEF StoreTaskId, CommitRow, FileInv, FailedLeavesNoFiles
    <2>5. LockInv'
      BY <1>6, <2>r DEF StoreTaskId, CommitRow, LockInv
    <2> QED
      BY <2>1, <2>2, <2>3, <2>4, <2>5 DEF ControlInv
  <1> QED
    BY <1>1, <1>2, <1>3, <1>4, <1>5, <1>6 DEF Submission

\* So do deliveries and claims.
LEMMA ClaimInv ==
  ASSUME IInv, NEW w \in Workers, Deliver(w) \/ Claim(w)
  PROVE  ControlInv'
  <1> USE SessionAssumption
      DEF IInv, TypeOK, Sessions, Executors, Executing, Background, Active, Terminal,
          ExecPhases, ApiPhases, CancelPhases, Goto, Hold, End, CanLock,
          kindVars, dbVars, sessVars, brokerVars, fileVars
  <1>1. CASE Deliver(w)
    <2>1. RoleInv'
      BY <1>1 DEF Deliver, RoleInv
    <2>2. ObjectInv'
      BY <1>1 DEF Deliver, ObjectInv
    <2>3. OwnerInv'
      BY <1>1 DEF Deliver, OwnerInv
    <2>4. FileInv'
      BY <1>1 DEF Deliver, FileInv, FailedLeavesNoFiles
    <2>5. LockInv'
      BY <1>1 DEF Deliver, LockInv
    <2> QED
      BY <2>1, <2>2, <2>3, <2>4, <2>5 DEF ControlInv
  <1>2. CASE Claim(w)
    <2>r. row'.status = IF row.status = "queued" THEN "running" ELSE row.status
      BY <1>2, StatusSet DEF Claim, ClaimIf, Statuses
    <2>b. Background
      BY <1>2 DEF Claim, ClaimIf, RoleInv
    <2>1. RoleInv'
      BY <1>2, <2>r, <2>b DEF Claim, ClaimIf, RoleInv
    <2>2. ObjectInv'
      BY <1>2, <2>r, <2>b DEF Claim, ClaimIf, ObjectInv
    <2>3. OwnerInv'
      BY <1>2, <2>r, <2>b DEF Claim, ClaimIf, OwnerInv
    <2>4. FileInv'
      BY <1>2, <2>r, <2>b DEF Claim, ClaimIf, FileInv, FailedLeavesNoFiles
    <2>5. LockInv'
      BY <1>2, <2>r, <2>b DEF Claim, ClaimIf, LockInv
    <2> QED
      BY <2>1, <2>2, <2>3, <2>4, <2>5 DEF ControlInv
  <1> QED
    BY <1>1, <1>2

\* So does an execution.
LEMMA ExecutionInv ==
  ASSUME IInv, NEW s \in Executors, Execution(s)
  PROVE  ControlInv'
  <1> USE SessionAssumption
      DEF IInv, TypeOK, Sessions, Executors, Executing, Background, Active, Terminal,
          ExecPhases, ApiPhases, CancelPhases, Goto, Hold, End, CanLock,
          kindVars, dbVars, sessVars, brokerVars, fileVars
  <1>1. CASE LoadRun(s)
    <2>a. s \in Workers /\ row.status \notin Terminal => row.status = "running"
      BY <1>1 DEF LoadRun, LoadAs, RoleInv, OwnerInv, Row, Statuses
    <2>1. RoleInv'
      BY <1>1, <2>a DEF LoadRun, LoadAs, RoleInv
    <2>2. ObjectInv'
      BY <1>1, <2>a DEF LoadRun, LoadAs, ObjectInv
    <2>3. OwnerInv'
      BY <1>1, <2>a DEF LoadRun, LoadAs, OwnerInv
    <2>4. FileInv'
      BY <1>1, <2>a DEF LoadRun, LoadAs, FileInv, FailedLeavesNoFiles
    <2>5. LockInv'
      BY <1>1, <2>a DEF LoadRun, LoadAs, LockInv
    <2> QED
      BY <2>1, <2>2, <2>3, <2>4, <2>5 DEF ControlInv
  <1>2. CASE StartRun(s)
    <2>r. row'.status = IF mem[s].status # "running" THEN "running" ELSE row.status
      BY <1>2, RunningStatus
    <2>1. RoleInv'
      BY <1>2, <2>r DEF StartRun, CommitRow, RoleInv
    <2>2. ObjectInv'
      BY <1>2, <2>r DEF StartRun, CommitRow, ObjectInv
    <2>3. OwnerInv'
      BY <1>2, <2>r DEF StartRun, CommitRow, OwnerInv
    <2>4. FileInv'
      BY <1>2, <2>r DEF StartRun, CommitRow, FileInv, FailedLeavesNoFiles
    <2>5. LockInv'
      BY <1>2, <2>r DEF StartRun, CommitRow, LockInv
    <2> QED
      BY <2>1, <2>2, <2>3, <2>4, <2>5 DEF ControlInv
  <1>3. CASE EnsureNotCancelled(s)
    <2>a. LET next == AfterCheck(pc[s])
          IN  /\ next \in {"work", "stage", "finish", "promote"}
              /\ next = "stage" => op = "training"
              /\ next = "promote" => pc[s] = "checkPromote"
      BY <1>3, ParameterAssumption
      DEF EnsureNotCancelled, CheckedAs, CheckPhases, AfterCheck, AllOps
    <2>b. LET next == IF Reread(s).status = "cancelled" THEN "unwind" ELSE AfterCheck(pc[s])
          IN  pc' = [pc EXCEPT ![s] = next]
      BY <1>3 DEF EnsureNotCancelled, CheckedAs
    <2>c. /\ pc[s] \in CheckPhases
          /\ lock' \in {lock, s}
          /\ lock' # lock => lock \in {NoSession, s}
          /\ mem' = [mem EXCEPT ![s] = Reread(s)]
          /\ UNCHANGED <<row, kindVars, brokerVars, fileVars, claims>>
      BY <1>3 DEF EnsureNotCancelled, CheckedAs
    <2>1. RoleInv'
      BY <2>a, <2>b, <2>c DEF CheckPhases, RoleInv
    <2>2. ObjectInv'
      BY <2>a, <2>b, <2>c DEF CheckPhases, ObjectInv
    <2>3. OwnerInv'
      BY <2>a, <2>b, <2>c DEF CheckPhases, OwnerInv
    <2>4. FileInv'
      BY <2>a, <2>b, <2>c DEF CheckPhases, FileInv, FailedLeavesNoFiles
    <2>5. LockInv'
      BY <2>a, <2>b, <2>c DEF CheckPhases, LockInv
    <2> QED
      BY <2>1, <2>2, <2>3, <2>4, <2>5 DEF ControlInv
  <1>4. CASE Progress(s)
    <2>r. row'.status = row.status
      BY <1>4, RunningStatus
    <2>1. RoleInv'
      BY <1>4, <2>r DEF Progress, CommitRow, RoleInv
    <2>2. ObjectInv'
      BY <1>4, <2>r DEF Progress, CommitRow, ObjectInv
    <2>3. OwnerInv'
      BY <1>4, <2>r DEF Progress, CommitRow, OwnerInv
    <2>4. FileInv'
      BY <1>4, <2>r DEF Progress, CommitRow, FileInv, FailedLeavesNoFiles
    <2>5. LockInv'
      BY <1>4, <2>r DEF Progress, CommitRow, LockInv
    <2> QED
      BY <2>1, <2>2, <2>3, <2>4, <2>5 DEF ControlInv
  <1>5. CASE ComputeDone(s)
    <2>1. RoleInv'
      BY <1>5 DEF ComputeDone, RoleInv
    <2>2. ObjectInv'
      BY <1>5 DEF ComputeDone, ObjectInv
    <2>3. OwnerInv'
      BY <1>5 DEF ComputeDone, OwnerInv
    <2>4. FileInv'
      BY <1>5 DEF ComputeDone, FileInv, FailedLeavesNoFiles
    <2>5. LockInv'
      BY <1>5 DEF ComputeDone, LockInv
    <2> QED
      BY <2>1, <2>2, <2>3, <2>4, <2>5 DEF ControlInv
  <1>6. CASE StageArtifact(s)
    <2>a. /\ op = "training"
          /\ row.status # "failed"
          /\ \A t \in Executors \ {s} : pc[t] # "failWrite"
      BY <1>6 DEF StageArtifact, FileInv, OwnerInv
    <2>1. RoleInv'
      BY <1>6, <2>a DEF StageArtifact, RoleInv
    <2>2. ObjectInv'
      BY <1>6, <2>a DEF StageArtifact, ObjectInv
    <2>3. OwnerInv'
      BY <1>6, <2>a DEF StageArtifact, OwnerInv
    <2>4. FileInv'
      BY <1>6, <2>a DEF StageArtifact, FileInv, FailedLeavesNoFiles
    <2>5. LockInv'
      BY <1>6, <2>a DEF StageArtifact, LockInv
    <2> QED
      BY <2>1, <2>2, <2>3, <2>4, <2>5 DEF ControlInv
  <1>7. CASE PromoteArtifact(s)
    <2>1. RoleInv'
      BY <1>7 DEF PromoteArtifact, RoleInv
    <2>2. ObjectInv'
      BY <1>7 DEF PromoteArtifact, ObjectInv
    <2>3. OwnerInv'
      BY <1>7 DEF PromoteArtifact, OwnerInv
    <2>4. FileInv'
      BY <1>7 DEF PromoteArtifact, FileInv, FailedLeavesNoFiles
    <2>5. LockInv'
      BY <1>7 DEF PromoteArtifact, LockInv
    <2> QED
      BY <2>1, <2>2, <2>3, <2>4, <2>5 DEF ControlInv
  <1>8. CASE PromoteMissing(s)
    <2>1. RoleInv'
      BY <1>8 DEF PromoteMissing, RoleInv
    <2>2. ObjectInv'
      BY <1>8 DEF PromoteMissing, ObjectInv
    <2>3. OwnerInv'
      BY <1>8 DEF PromoteMissing, OwnerInv
    <2>4. FileInv'
      BY <1>8 DEF PromoteMissing, FileInv, FailedLeavesNoFiles
    <2>5. LockInv'
      BY <1>8 DEF PromoteMissing, LockInv
    <2> QED
      BY <2>1, <2>2, <2>3, <2>4, <2>5 DEF ControlInv
  <1>9. CASE RegisterModel(s)
    <2>1. RoleInv'
      BY <1>9 DEF RegisterModel, RoleInv
    <2>2. ObjectInv'
      BY <1>9 DEF RegisterModel, ObjectInv
    <2>3. OwnerInv'
      BY <1>9 DEF RegisterModel, OwnerInv
    <2>4. FileInv'
      BY <1>9 DEF RegisterModel, FileInv, FailedLeavesNoFiles
    <2>5. LockInv'
      BY <1>9 DEF RegisterModel, LockInv
    <2> QED
      BY <2>1, <2>2, <2>3, <2>4, <2>5 DEF ControlInv
  <1>10. CASE Complete(s)
    <2>r. row'.status = IF Reread(s).status \in Active THEN "completed" ELSE row.status
      BY <1>10, EndStatus DEF Complete
    <2>1. RoleInv'
      BY <1>10, <2>r DEF Complete, EndIfActive, RoleInv
    <2>2. ObjectInv'
      BY <1>10, <2>r DEF Complete, EndIfActive, ObjectInv
    <2>3. OwnerInv'
      BY <1>10, <2>r DEF Complete, EndIfActive, OwnerInv
    <2>4. FileInv'
      BY <1>10, <2>r DEF Complete, EndIfActive, FileInv, FailedLeavesNoFiles
    <2>5. LockInv'
      BY <1>10, <2>r DEF Complete, EndIfActive, LockInv
    <2> QED
      BY <2>1, <2>2, <2>3, <2>4, <2>5 DEF ControlInv
  <1>11. CASE Unwind(s)
    <2>1. RoleInv'
      BY <1>11 DEF Unwind, Row, RoleInv
    <2>2. ObjectInv'
      BY <1>11 DEF Unwind, Row, ObjectInv
    <2>3. OwnerInv'
      BY <1>11 DEF Unwind, Row, OwnerInv
    <2>4. FileInv'
      BY <1>11 DEF Unwind, Row, FileInv, FailedLeavesNoFiles
    <2>5. LockInv'
      BY <1>11 DEF Unwind, Row, LockInv
    <2> QED
      BY <2>1, <2>2, <2>3, <2>4, <2>5 DEF ControlInv
  <1>12. CASE Raise(s)
    <2>1. RoleInv'
      BY <1>12 DEF Raise, TryPhases, RoleInv
    <2>2. ObjectInv'
      BY <1>12 DEF Raise, TryPhases, ObjectInv
    <2>3. OwnerInv'
      BY <1>12 DEF Raise, TryPhases, OwnerInv
    <2>4. FileInv'
      BY <1>12 DEF Raise, TryPhases, FileInv, FailedLeavesNoFiles
    <2>5. LockInv'
      BY <1>12 DEF Raise, TryPhases, LockInv
    <2> QED
      BY <2>1, <2>2, <2>3, <2>4, <2>5 DEF ControlInv
  <1>13. CASE AbortWipe(s)
    <2>a. tmp' = {} /\ pub' = {}
      BY <1>13, ParameterAssumption DEF AbortWipe, FileInv, AllOps
    <2>1. RoleInv'
      BY <1>13, <2>a DEF AbortWipe, RoleInv
    <2>2. ObjectInv'
      BY <1>13, <2>a DEF AbortWipe, ObjectInv
    <2>3. OwnerInv'
      BY <1>13, <2>a DEF AbortWipe, OwnerInv
    <2>4. FileInv'
      BY <1>13, <2>a DEF AbortWipe, FileInv, FailedLeavesNoFiles
    <2>5. LockInv'
      BY <1>13, <2>a DEF AbortWipe, LockInv
    <2> QED
      BY <2>1, <2>2, <2>3, <2>4, <2>5 DEF ControlInv
  <1>14. CASE Fail(s)
    <2>r. row'.status = IF Reread(s).status \in Active THEN "failed" ELSE row.status
      BY <1>14, EndStatus DEF Fail, FailAs
    <2>1. RoleInv'
      BY <1>14, <2>r DEF Fail, FailAs, EndIfActive, Retried, RoleInv
    <2>2. ObjectInv'
      BY <1>14, <2>r DEF Fail, FailAs, EndIfActive, Retried, ObjectInv
    <2>3. OwnerInv'
      BY <1>14, <2>r DEF Fail, FailAs, EndIfActive, Retried, OwnerInv
    <2>4. FileInv'
      BY <1>14, <2>r DEF Fail, FailAs, EndIfActive, Retried, FileInv, FailedLeavesNoFiles
    <2>5. LockInv'
      BY <1>14, <2>r DEF Fail, FailAs, EndIfActive, Retried, LockInv
    <2> QED
      BY <2>1, <2>2, <2>3, <2>4, <2>5 DEF ControlInv
  <1>15. CASE RaiseOutsideTry(s)
    <2>1. RoleInv'
      BY <1>15 DEF RaiseOutsideTry, Retried, RoleInv
    <2>2. ObjectInv'
      BY <1>15 DEF RaiseOutsideTry, Retried, ObjectInv
    <2>3. OwnerInv'
      BY <1>15 DEF RaiseOutsideTry, Retried, OwnerInv
    <2>4. FileInv'
      BY <1>15 DEF RaiseOutsideTry, Retried, FileInv, FailedLeavesNoFiles
    <2>5. LockInv'
      BY <1>15 DEF RaiseOutsideTry, Retried, LockInv
    <2> QED
      BY <2>1, <2>2, <2>3, <2>4, <2>5 DEF ControlInv
  <1>16. CASE RaiseDatabase(s)
    <2>1. RoleInv'
      BY <1>16 DEF RaiseDatabase, Rollback, StatementPhases, TryPhases, WritingPhases, RoleInv
    <2>2. ObjectInv'
      BY <1>16 DEF RaiseDatabase, Rollback, StatementPhases, TryPhases, WritingPhases, ObjectInv
    <2>3. OwnerInv'
      BY <1>16 DEF RaiseDatabase, Rollback, StatementPhases, TryPhases, WritingPhases, OwnerInv
    <2>4. FileInv'
      BY <1>16 DEF RaiseDatabase, Rollback, StatementPhases, TryPhases, WritingPhases, FileInv, FailedLeavesNoFiles
    <2>5. LockInv'
      BY <1>16 DEF RaiseDatabase, Rollback, StatementPhases, TryPhases, WritingPhases, LockInv
    <2> QED
      BY <2>1, <2>2, <2>3, <2>4, <2>5 DEF ControlInv
  <1>17. CASE HandlerRaises(s)
    <2>1. RoleInv'
      BY <1>17 DEF HandlerRaises, Retried, RoleInv
    <2>2. ObjectInv'
      BY <1>17 DEF HandlerRaises, Retried, ObjectInv
    <2>3. OwnerInv'
      BY <1>17 DEF HandlerRaises, Retried, OwnerInv
    <2>4. FileInv'
      BY <1>17 DEF HandlerRaises, Retried, FileInv, FailedLeavesNoFiles
    <2>5. LockInv'
      BY <1>17 DEF HandlerRaises, Retried, LockInv
    <2> QED
      BY <2>1, <2>2, <2>3, <2>4, <2>5 DEF ControlInv
  <1> QED
    BY <1>1, <1>2, <1>3, <1>4, <1>5, <1>6, <1>7, <1>8, <1>9, <1>10, <1>11, <1>12,
       <1>13, <1>14, <1>15, <1>16, <1>17 DEF Execution, ExecutionStep

\* So does a cancel request.
LEMMA CancelInv ==
  ASSUME IInv, NEW c \in Cancellers, RequestCancel(c) \/ CancelStep(c)
  PROVE  ControlInv'
  <1> USE SessionAssumption
      DEF IInv, TypeOK, Sessions, Executors, Executing, Background, Active, Terminal,
          ExecPhases, ApiPhases, CancelPhases, Goto, Hold, End, CanLock,
          kindVars, dbVars, sessVars, brokerVars, fileVars
  <1>1. CASE RequestCancel(c)
    <2>1. RoleInv'
      BY <1>1 DEF RequestCancel, RoleInv
    <2>2. ObjectInv'
      BY <1>1 DEF RequestCancel, ObjectInv
    <2>3. OwnerInv'
      BY <1>1 DEF RequestCancel, OwnerInv
    <2>4. FileInv'
      BY <1>1 DEF RequestCancel, FileInv, FailedLeavesNoFiles
    <2>5. LockInv'
      BY <1>1 DEF RequestCancel, LockInv
    <2> QED
      BY <2>1, <2>2, <2>3, <2>4, <2>5 DEF ControlInv
  <1>2. CASE Revoke(c)
    <2>1. RoleInv'
      BY <1>2 DEF Revoke, RoleInv
    <2>2. ObjectInv'
      BY <1>2 DEF Revoke, ObjectInv
    <2>3. OwnerInv'
      BY <1>2 DEF Revoke, OwnerInv
    <2>4. FileInv'
      BY <1>2 DEF Revoke, FileInv, FailedLeavesNoFiles
    <2>5. LockInv'
      BY <1>2 DEF Revoke, LockInv
    <2> QED
      BY <2>1, <2>2, <2>3, <2>4, <2>5 DEF ControlInv
  <1>3. CASE LockForCancel(c)
    <2>1. RoleInv'
      BY <1>3 DEF LockForCancel, Reread, RoleInv
    <2>2. ObjectInv'
      BY <1>3 DEF LockForCancel, Reread, ObjectInv
    <2>3. OwnerInv'
      BY <1>3 DEF LockForCancel, Reread, OwnerInv
    <2>4. FileInv'
      BY <1>3 DEF LockForCancel, Reread, FileInv, FailedLeavesNoFiles
    <2>5. LockInv'
      BY <1>3 DEF LockForCancel, Reread, LockInv
    <2> QED
      BY <2>1, <2>2, <2>3, <2>4, <2>5 DEF ControlInv
  <1>4. CASE WipeForCancel(c)
    <2>1. RoleInv'
      BY <1>4 DEF WipeForCancel, RoleInv
    <2>2. ObjectInv'
      BY <1>4 DEF WipeForCancel, ObjectInv
    <2>3. OwnerInv'
      BY <1>4 DEF WipeForCancel, OwnerInv
    <2>4. FileInv'
      BY <1>4 DEF WipeForCancel, FileInv, FailedLeavesNoFiles
    <2>5. LockInv'
      BY <1>4 DEF WipeForCancel, LockInv
    <2> QED
      BY <2>1, <2>2, <2>3, <2>4, <2>5 DEF ControlInv
  <1>5. CASE CommitCancel(c)
    <2>r. row'.status = "cancelled"
      BY <1>5, CancelStatus
    <2>1. RoleInv'
      BY <1>5, <2>r DEF CommitCancel, CommitRow, RoleInv
    <2>2. ObjectInv'
      BY <1>5, <2>r DEF CommitCancel, CommitRow, ObjectInv
    <2>3. OwnerInv'
      BY <1>5, <2>r DEF CommitCancel, CommitRow, OwnerInv
    <2>4. FileInv'
      BY <1>5, <2>r DEF CommitCancel, CommitRow, FileInv, FailedLeavesNoFiles
    <2>5. LockInv'
      BY <1>5, <2>r DEF CommitCancel, CommitRow, LockInv
    <2> QED
      BY <2>1, <2>2, <2>3, <2>4, <2>5 DEF ControlInv
  <1> QED
    BY <1>1, <1>2, <1>3, <1>4, <1>5 DEF CancelStep

\* So does the death of a process, whose transaction rolls back.
LEMMA CrashInv ==
  ASSUME IInv, NEW s \in Sessions, Crash(s)
  PROVE  ControlInv'
  <1> USE SessionAssumption
      DEF IInv, TypeOK, Sessions, Executors, Executing, Background, Active, Terminal,
          ExecPhases, ApiPhases, CancelPhases, Goto, Hold, End, CanLock,
          kindVars, dbVars, sessVars, brokerVars, fileVars
  <1>1. RoleInv'
    BY DEF Crash, Rollback, RoleInv
  <1>2. ObjectInv'
    BY DEF Crash, Rollback, ObjectInv
  <1>3. OwnerInv'
    BY DEF Crash, Rollback, OwnerInv
  <1>4. FileInv'
    BY DEF Crash, Rollback, FileInv, FailedLeavesNoFiles
  <1>5. LockInv'
    BY DEF Crash, Rollback, LockInv
  <1> QED
    BY <1>1, <1>2, <1>3, <1>4, <1>5 DEF ControlInv

\* So does what the broker does of its own accord.
LEMMA BrokerInv ==
  ASSUME IInv, DiscardRevoked \/ Duplicate
  PROVE  ControlInv'
  <1> USE SessionAssumption
      DEF IInv, TypeOK, Sessions, Executors, Executing, Background, Active, Terminal,
          ExecPhases, ApiPhases, CancelPhases, Goto, Hold, End, CanLock,
          kindVars, dbVars, sessVars, brokerVars, fileVars
  <1>1. RoleInv'
    BY DEF DiscardRevoked, Duplicate, RoleInv
  <1>2. ObjectInv'
    BY DEF DiscardRevoked, Duplicate, ObjectInv
  <1>3. OwnerInv'
    BY DEF DiscardRevoked, Duplicate, OwnerInv
  <1>4. FileInv'
    BY DEF DiscardRevoked, Duplicate, FileInv, FailedLeavesNoFiles
  <1>5. LockInv'
    BY DEF DiscardRevoked, Duplicate, LockInv
  <1> QED
    BY <1>1, <1>2, <1>3, <1>4, <1>5 DEF ControlInv

\* IInv is inductive.
THEOREM Invariant == Spec => []IInv
  <1>1. Init => IInv
    BY InitInv
  <1>2. IInv /\ [Next]_vars => IInv'
    <2> SUFFICES ASSUME IInv, [Next]_vars PROVE IInv'
      OBVIOUS
    <2>1. TypeOK'
      BY NextTypes DEF IInv
    <2>2. ControlInv'
      <3>1. CASE UNCHANGED vars
        BY <3>1
        DEF vars, IInv, ControlInv, RoleInv, ObjectInv, OwnerInv, FileInv, LockInv,
            FailedLeavesNoFiles, Executing, Background
      <3> QED
        BY <3>1, SubmissionInv, ClaimInv, ExecutionInv, CancelInv, CrashInv, BrokerInv
        DEF Next
    <2> QED
      BY <2>1, <2>2 DEF IInv, ControlInv
  <1> QED
    BY <1>1, <1>2, PTL DEF Spec

-----------------------------------------------------------------------------
(* The properties *)

\* No execution, duplicate, retry or stale session makes a second claim succeed.
THEOREM ClaimsOnce == Spec => []ClaimedOnce
  <1>1. IInv => ClaimedOnce
    BY DEF IInv, OwnerInv, ClaimedOnce
  <1> QED
    BY <1>1, Invariant, PTL

\* Two sessions never execute the run at the same time.
THEOREM ExecutionsExclude == Spec => []SingleExecutor
  <1>1. IInv => SingleExecutor
    <2> SUFFICES ASSUME IInv, Background, NEW s \in Executors, Executing(s)
                 PROVE  row.status # "queued"
      BY DEF IInv, OwnerInv, SingleExecutor
    <2>1. claims # 0
      BY DEF IInv, OwnerInv
    <2> QED
      BY <2>1 DEF IInv, OwnerInv
  <1> QED
    BY <1>1, Invariant, PTL

\* A FAILED run has left no file behind.
THEOREM FailureCleansUp == Spec => []FailedLeavesNoFiles
  <1>1. IInv => FailedLeavesNoFiles
    BY DEF IInv, FileInv
  <1> QED
    BY <1>1, Invariant, PTL

\* An execution ends the run.
EndsRun(s) ==
    /\ Executing(s)
    /\ row'.status \in {"completed", "failed"}
    /\ AutoRefresh => row.status \in Active

\* A cancel request ends it.
CancelsRun ==
    /\ row.status # "none"
    /\ row'.status = "cancelled"
    /\ AutoRefresh => row.status \in Active

\* Everything a step may do to the status and the claims of a background run.
StatusMove ==
    \/ row'.status = row.status /\ claims' = claims
    \/ row.status = "none" /\ row'.status = "queued" /\ claims' = claims
    \/ row.status = "queued" /\ row'.status = "running" /\ claims' = claims + 1
    \/ (\E s \in Executors : EndsRun(s)) /\ claims' = claims
    \/ CancelsRun /\ claims' = claims

\* The status seen through an identity map that refreshes is the committed one.
LEMMA EndsActive ==
  ASSUME TypeOK, NEW s \in Executors, NEW status \in {"completed", "failed"},
         Executing(s), EndIfActive(s, status)
  PROVE  row'.status = row.status \/ EndsRun(s)
  <1>1. row'.status = IF Reread(s).status \in Active THEN status ELSE row.status
    BY EndStatus DEF Terminal, Sessions, Executors
  <1>2. AutoRefresh => Reread(s) = row
    BY DEF Reread
  <1> QED
    BY <1>1, <1>2 DEF EndsRun

\* No other step than these changes the status of a background run.
LEMMA StatusMoves ==
  ASSUME IInv, Background, [Next]_vars
  PROVE  StatusMove
  <1> USE DEF dbVars
  <1>1. ASSUME NEW a \in Api, Submission(a) PROVE StatusMove
    <2>1. CASE CreateRun(a)
      BY <2>1 DEF CreateRun, NewRow, StatusMove
    <2>2. CASE SubmitCommit(a)
      <3>1. row'.status = row.status
        BY <2>2, SubmitStatus DEF IInv
      <3> QED
        BY <2>2, <3>1 DEF SubmitCommit, StatusMove
    <2>3. CASE StoreTaskId(a)
      <3>1. row'.status = row.status
        BY <2>3, SubmitStatus DEF IInv
      <3> QED
        BY <2>3, <3>1 DEF StoreTaskId, StatusMove
    <2>4. CASE RecoverQueuedDispatch(a) \/ Publish(a) \/ PublishFails(a)
      BY <2>4 DEF RecoverQueuedDispatch, Publish, PublishFails, StatusMove
    <2> QED
      BY <1>1, <2>1, <2>2, <2>3, <2>4 DEF Submission
  <1>2. ASSUME NEW w \in Workers, Deliver(w) \/ Claim(w) PROVE StatusMove
    <2>1. CASE Deliver(w)
      BY <2>1 DEF Deliver, StatusMove
    <2>2. CASE Claim(w)
      <3>1. Updated(row, "running").status = "running"
        BY StatusSet DEF IInv, TypeOK, Statuses, Active
      <3> QED
        BY <2>2, <3>1 DEF Claim, ClaimIf, StatusMove
    <2> QED
      BY <1>2, <2>1, <2>2
  <1>3. ASSUME NEW s \in Executors, Execution(s) PROVE StatusMove
    <2>1. CASE StartRun(s)
      <3>1. s \in Workers
        BY <2>1 DEF StartRun, IInv, RoleInv, Executors, Executing, ExecPhases
      <3>2. mem[s].status = "running"
        BY <2>1, <3>1 DEF StartRun, IInv, ObjectInv
      <3>3. row'.status = row.status
        BY <2>1, <3>2, RunningStatus DEF IInv
      <3> QED
        BY <2>1, <3>3 DEF StartRun, StatusMove
    <2>2. CASE Progress(s)
      <3>1. row'.status = row.status
        BY <2>2, RunningStatus DEF IInv
      <3> QED
        BY <2>2, <3>1 DEF Progress, StatusMove
    <2>3. CASE Complete(s)
      <3>1. row'.status = row.status \/ EndsRun(s)
        BY <2>3, EndsActive DEF Complete, IInv, Executing, ExecPhases
      <3> QED
        BY <2>3, <3>1 DEF Complete, StatusMove
    <2>4. CASE Fail(s)
      <3>1. row'.status = row.status \/ EndsRun(s)
        BY <2>4, EndsActive DEF Fail, FailAs, IInv, Executing, ExecPhases
      <3> QED
        BY <2>4, <3>1 DEF Fail, FailAs, StatusMove
    <2>5. CASE Unwind(s)
      BY <2>5 DEF Unwind, IInv, TypeOK, Row, StatusMove
    <2>6. CASE LoadRun(s) \/ EnsureNotCancelled(s) \/ ComputeDone(s) \/ StageArtifact(s)
      BY <2>6
      DEF LoadRun, LoadAs, EnsureNotCancelled, CheckedAs, ComputeDone, StageArtifact, StatusMove
    <2>7. CASE PromoteArtifact(s) \/ PromoteMissing(s) \/ RegisterModel(s) \/ AbortWipe(s)
      BY <2>7
      DEF PromoteArtifact, PromoteMissing, RegisterModel, AbortWipe, StatusMove
    <2>8. CASE Raise(s) \/ RaiseDatabase(s) \/ RaiseOutsideTry(s) \/ HandlerRaises(s)
      BY <2>8 DEF Raise, RaiseDatabase, RaiseOutsideTry, HandlerRaises, StatusMove
    <2> QED
      BY <1>3, <2>1, <2>2, <2>3, <2>4, <2>5, <2>6, <2>7, <2>8
      DEF Execution, ExecutionStep
  <1>4. ASSUME NEW c \in Cancellers, RequestCancel(c) \/ CancelStep(c) PROVE StatusMove
    <2>1. CASE CommitCancel(c)
      <3>1. row'.status = "cancelled"
        BY <2>1, CancelStatus DEF IInv
      <3>2. row.status # "none"
        BY <2>1 DEF CommitCancel, IInv, OwnerInv, Sessions
      <3>3. AutoRefresh => row.status \in Active
        BY <2>1 DEF CommitCancel, IInv, LockInv
      <3> QED
        BY <2>1, <3>1, <3>2, <3>3 DEF CommitCancel, StatusMove, CancelsRun
    <2>2. CASE RequestCancel(c) \/ Revoke(c) \/ LockForCancel(c) \/ WipeForCancel(c)
      BY <2>2 DEF RequestCancel, Revoke, LockForCancel, WipeForCancel, StatusMove
    <2> QED
      BY <1>4, <2>1, <2>2 DEF CancelStep
  <1>5. CASE DiscardRevoked \/ Duplicate \/ (\E s \in Sessions : Crash(s))
    BY <1>5 DEF DiscardRevoked, Duplicate, Crash, StatusMove
  <1>6. CASE UNCHANGED vars
    BY <1>6 DEF vars, StatusMove
  <1> QED
    BY <1>1, <1>2, <1>3, <1>4, <1>5, <1>6 DEF Next

\* While an execution is under way the run was claimed exactly once and has
\* neither completed nor failed.
LEMMA ExecutingIsClaimed ==
  ASSUME IInv, Background, NEW s \in Executors, Executing(s)
  PROVE  claims = 1 /\ row.status \in {"running", "cancelled"}
  <1>1. claims = 1
    BY DEF IInv, OwnerInv, TypeOK
  <1>2. row.status \in Statuses
    BY DEF IInv, TypeOK, Row
  <1> QED
    BY <1>1, <1>2 DEF IInv, OwnerInv, Statuses, Active, Terminal

\* A terminal run is never active again.
THEOREM NoReactivation == Spec => NeverReactivated
  <1>1. IInv /\ [Next]_vars =>
          [Background /\ row.status \in Terminal => row'.status \in Terminal]_vars
    BY StatusMoves, ExecutingIsClaimed
    DEF StatusMove, EndsRun, CancelsRun, Terminal
  <1> QED
    BY <1>1, Invariant, PTL DEF Spec, NeverReactivated

\* A run cancelled before it was claimed stays cancelled and is never executed.
THEOREM EarlyCancelIsFinal == Spec => CancelledBeforeClaimIsFinal
  <1>1. IInv /\ [Next]_vars =>
          [(Background /\ row.status = "cancelled" /\ claims = 0)
             => (row'.status = "cancelled" /\ claims' = 0)]_vars
    BY StatusMoves, ExecutingIsClaimed
    DEF StatusMove, EndsRun, CancelsRun
  <1> QED
    BY <1>1, Invariant, PTL DEF Spec, CancelledBeforeClaimIsFinal

\* With sessions that refresh what they re-read, no terminal status is ever
\* overwritten: the rule complete_if_active, fail_if_active and
\* cancel_if_active are written for.
THEOREM RefreshingIsFinal ==
  ASSUME AutoRefresh, Modes \subseteq {"submit", "direct"}
  PROVE  Spec => TerminalIsFinal
  <1>1. IInv => Background
    BY DEF IInv, TypeOK, Background
  <1>2. IInv /\ [Next]_vars =>
          [row.status \in Terminal => row'.status = row.status]_vars
    BY <1>1, StatusMoves DEF StatusMove, EndsRun, CancelsRun, Terminal, Active
  <1> QED
    BY <1>2, Invariant, PTL DEF Spec, TerminalIsFinal

-----------------------------------------------------------------------------
(* The refinement *)

\* How a run is dispatched is decided when it is created.
LEMMA ModeFixed == [Next]_vars => mode' = mode
  <1> SUFFICES ASSUME [Next]_vars PROVE mode' = mode
    OBVIOUS
  <1>1. ASSUME NEW a \in Api, Submission(a) PROVE mode' = mode
    BY <1>1 DEF Submission, CreateRun, SubmitCommit, StoreTaskId,
      RecoverQueuedDispatch, Publish, PublishFails, kindVars
  <1>2. ASSUME NEW w \in Workers, Deliver(w) \/ Claim(w) PROVE mode' = mode
    BY <1>2 DEF Deliver, Claim, ClaimIf, kindVars
  <1>3. CASE DiscardRevoked \/ Duplicate
    BY <1>3 DEF DiscardRevoked, Duplicate, kindVars
  <1>4. ASSUME NEW s \in Executors, Execution(s) PROVE mode' = mode
    BY <1>4 DEF Execution, ExecutionStep, LoadRun, LoadAs, StartRun,
      EnsureNotCancelled, CheckedAs, Progress, ComputeDone, StageArtifact,
      PromoteArtifact, PromoteMissing, RegisterModel, CommitModel, Complete,
      Unwind, Raise, RaiseDatabase, AbortWipe, Fail, FailAs, HandlerRaises,
      RaiseOutsideTry, Retried, kindVars
  <1>5. ASSUME NEW c \in Cancellers, RequestCancel(c) \/ CancelStep(c)
        PROVE  mode' = mode
    BY <1>5 DEF RequestCancel, CancelStep, Revoke, LockForCancel, WipeForCancel,
      CommitCancel, kindVars
  <1>6. ASSUME NEW s \in Sessions, Crash(s) PROVE mode' = mode
    BY <1>6 DEF Crash, kindVars
  <1> QED
    BY <1>1, <1>2, <1>3, <1>4, <1>5, <1>6 DEF Next, vars

\* The first state of a run is the first state of its contract.
LEMMA ContractInit == Init => Contract!Init
  BY DEF Init, NoRow, Contract!Init

\* Every step of a background run is a step of the contract or a stutter.
LEMMA ContractStep ==
  ASSUME IInv, Background, [Next]_vars
  PROVE  [Contract!Next]_(Contract!vars)
  <1> Background'
    BY ModeFixed DEF Background
  <1>t. row.status \in Statuses /\ claims \in Nat /\ claims <= 1
    BY DEF IInv, TypeOK, Row, OwnerInv
  <1>1. CASE row'.status = row.status /\ claims' = claims
    BY <1>1 DEF Contract!vars
  <1>2. CASE row.status = "none" /\ row'.status = "queued" /\ claims' = claims
    BY <1>2 DEF Contract!Next, Contract!Enqueue
  <1>3. CASE row.status = "queued" /\ row'.status = "running" /\ claims' = claims + 1
    <2>1. claims = 0
      BY <1>3 DEF IInv, OwnerInv
    <2> QED
      BY <1>3, <2>1 DEF Contract!Next, Contract!Begin
  <1>4. CASE (\E s \in Executors : EndsRun(s)) /\ claims' = claims
    <2> PICK s \in Executors : EndsRun(s)
      BY <1>4
    <2>1. claims = 1 /\ row.status \in {"running", "cancelled"}
      BY ExecutingIsClaimed DEF EndsRun
    <2>2. CASE row.status = "running"
      BY <1>4, <2>2 DEF EndsRun, Contract!Next, Contract!Finish, Contract!Outcomes
    <2>3. CASE row.status = "cancelled"
      BY <1>4, <2>1, <2>3
      DEF EndsRun, Active, Contract!Next, Contract!Override, Contract!Outcomes
    <2> QED
      BY <2>1, <2>2, <2>3
  <1>5. CASE CancelsRun /\ claims' = claims
    <2>1. CASE row.status \in Active
      BY <1>5, <2>1 DEF CancelsRun, Active, Contract!Next, Contract!Cancel
    <2>2. CASE row.status \in {"completed", "failed"}
      <3>1. claims = 1 /\ ~AutoRefresh
        BY <1>5, <2>2 DEF IInv, OwnerInv, CancelsRun, Active
      <3> QED
        BY <1>5, <2>2, <3>1
        DEF CancelsRun, Contract!Next, Contract!Override, Contract!Outcomes
    <2>3. CASE row.status = "cancelled"
      BY <1>5, <2>3 DEF CancelsRun, Contract!vars
    <2> QED
      BY <1>5, <1>t, <2>1, <2>2, <2>3 DEF CancelsRun, Statuses, Terminal
  <1> QED
    BY <1>1, <1>2, <1>3, <1>4, <1>5, StatusMoves DEF StatusMove

\* Dispatch, execution and cancellation of background runs implement the
\* contract, as built and, with a final terminal status, when sessions refresh.
THEOREM Refinement == Spec => ContractSpec
  <1>1. IInv /\ [Next]_vars => [Contract!Next]_(Contract!vars)
    <2> SUFFICES ASSUME IInv, [Next]_vars PROVE [Contract!Next]_(Contract!vars)
      OBVIOUS
    <2>1. CASE Background
      BY <2>1, ContractStep
    <2>2. CASE ~Background
      <3>1. ~Background'
        BY <2>2, ModeFixed DEF Background
      <3> QED
        BY <2>2, <3>1 DEF Contract!vars
    <2> QED
      BY <2>1, <2>2
  <1> QED
    BY <1>1, ContractInit, Invariant, PTL DEF Spec, ContractSpec, Contract!Spec
=============================================================================
