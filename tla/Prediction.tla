----------------------------- MODULE Prediction -----------------------------
(***************************************************************************)
(* One prediction run of a trained model over the text units of a corpus:  *)
(* the selection it freezes, the draft set it fills page by page and       *)
(* publishes, while coders annotate units, documents are segmented again   *)
(* and the run is cancelled.  Of coding only the set of annotated units is *)
(* kept; dispatch is RunLifecycle's, the claim is its claim.               *)
(***************************************************************************)
EXTENDS TextUnits

CONSTANTS
    PageSize,    \* resolve_batch_size
    AllowErrors  \* predicting may raise, the worker may die

ASSUME PredictionAssumption ==
    /\ PageSize \in Nat \ {0}
    /\ AllowErrors \in BOOLEAN

VARIABLES
    annotated,   \* units with an annotation
    onlyNew,     \* the parameter only_unannotated
    refreshed,   \* whether a session's second read of the run shows what has
                 \* been committed since its first (see RunLifecycle)
    status,      \* the run's committed status
    cancel,      \* the cancel request: none, it has read an active run, done
    pc,          \* where the worker is
    frozen,      \* annotated_unit_ids of the selection snapshot
    offset,      \* of the next page
    page,        \* the units of the page at hand
    set,         \* the prediction set's row: none, draft, published
    rows,        \* the units it has a prediction of
    listed,      \* unit_ids in the set's metadata
    disturbed    \* history: a document was segmented while the worker ran

predictionVars == <<annotated, onlyNew, refreshed, status, cancel, pc, frozen, offset,
                    page, set, rows, listed, disturbed>>
runVars == <<onlyNew, refreshed, cancel>>

Active == {"queued", "running"}
RunStatuses == Active \cup {"completed", "failed", "cancelled"}
Phases == {"idle", "freeze", "draft", "read", "store", "storeLast", "check",
           "complete", "unwind", "lost", "done"}

PredictionInit ==
    /\ UnitsInit
    /\ annotated \in SUBSET units
    /\ onlyNew \in BOOLEAN
    /\ refreshed \in BOOLEAN
    /\ status = "queued"
    /\ cancel = "none"
    /\ pc = "idle"
    /\ frozen = {} /\ offset = 0 /\ page = {}
    /\ set = "none" /\ rows = {} /\ listed = {}
    /\ disturbed = FALSE

\* The corpus listing: by document, then by position.
Before(u, v) == u.doc < v.doc \/ (u.doc = v.doc /\ u.pos < v.pos)
Index(u) == Cardinality({v \in units : Before(v, u)})

\* OFFSET and LIMIT.
PageAt(n) == {u \in units : n <= Index(u) /\ Index(u) < n + PageSize}

-----------------------------------------------------------------------------
(* The worker *)

\* claim_run_for_execution, and the start of execute_prediction.
Claim ==
    /\ pc = "idle"
    /\ status = "queued"
    /\ status' = "running"
    /\ pc' = "freeze"
    /\ UNCHANGED <<unitVars, annotated, runVars, frozen, offset, page, set, rows, listed,
                   disturbed>>

\* ensure_not_cancelled: with an object of its own the session sees no cancel.
SeesCancel == refreshed /\ status = "cancelled"

\* freeze_prediction_selection: the annotated units of this moment, persisted.
Freeze ==
    /\ pc = "freeze"
    /\ IF SeesCancel THEN pc' = "unwind" /\ UNCHANGED frozen
       ELSE pc' = "draft" /\ frozen' = IF onlyNew THEN annotated ELSE {}
    /\ UNCHANGED <<unitVars, annotated, runVars, status, offset, page, set, rows, listed,
                   disturbed>>

\* create_draft_from_run, committed before the first page.
Draft ==
    /\ pc = "draft"
    /\ IF SeesCancel THEN pc' = "unwind" /\ UNCHANGED set
       ELSE pc' = "read" /\ set' = "draft"
    /\ UNCHANGED <<unitVars, annotated, runVars, status, frozen, offset, page, rows, listed,
                   disturbed>>

\* Mutant: the selection is made of what is annotated now.
ReadLivePage ==
    LET found == PageAt(offset)
        last == Cardinality(found) < PageSize
    IN  /\ pc = "read"
        /\ page' = IF onlyNew THEN found \ annotated ELSE found
        /\ offset' = offset + Cardinality(found)
        /\ pc' = IF found # {} /\ SeesCancel THEN "unwind"
                 ELSE IF page' # {} THEN IF last THEN "storeLast" ELSE "store"
                 ELSE IF last THEN "check" ELSE "read"
        /\ UNCHANGED <<unitVars, annotated, runVars, status, frozen, set, rows, listed,
                       disturbed>>

\* iter_text_units_for_corpus: the page after those before; a short one is the
\* last.  Pages of which nothing is selected are passed over.
ReadPage ==
    LET found == PageAt(offset)
        last == Cardinality(found) < PageSize
    IN  /\ pc = "read"
        /\ page' = found \ frozen
        /\ offset' = offset + Cardinality(found)
        /\ pc' = IF found # {} /\ SeesCancel THEN "unwind"
                 ELSE IF page' # {} THEN IF last THEN "storeLast" ELSE "store"
                 ELSE IF last THEN "check" ELSE "read"
        /\ UNCHANGED <<unitVars, annotated, runVars, status, frozen, set, rows, listed,
                       disturbed>>

\* _persist_batch.  A unit deleted since violates a foreign key; the handler's
\* DELETE then meets an aborted transaction, and the run stays as it is.
StorePage ==
    /\ pc \in {"store", "storeLast"}
    /\ IF page \subseteq units
         THEN /\ rows' = rows \cup page
              /\ listed' = listed \cup page
              /\ pc' = IF pc = "store" THEN "read" ELSE "check"
         ELSE pc' = "lost" /\ UNCHANGED <<rows, listed>>
    /\ page' = {}
    /\ UNCHANGED <<unitVars, annotated, runVars, status, frozen, offset, set, disturbed>>

LastCheck ==
    /\ pc = "check"
    /\ pc' = IF SeesCancel THEN "unwind" ELSE "complete"
    /\ UNCHANGED <<unitVars, annotated, runVars, status, frozen, offset, page, set, rows,
                   listed, disturbed>>

\* discard_prediction_set
Discard ==
    /\ set' = "none"
    /\ rows' = {}

\* update_run_if_active looks at the session's object.
SeenStatus == IF refreshed THEN status ELSE "running"

\* Mutant: a completion that is refused leaves the draft.
FinishWithoutDiscard ==
    /\ pc = "complete"
    /\ pc' = "done"
    /\ IF SeenStatus \in Active
         THEN status' = "completed" /\ set' = "published"
         ELSE UNCHANGED <<status, set>>
    /\ UNCHANGED <<unitVars, annotated, runVars, frozen, offset, page, rows, listed, disturbed>>

\* complete_if_active and publish in one transaction, or the draft is discarded.
Finish ==
    /\ pc = "complete"
    /\ pc' = "done"
    /\ IF SeenStatus \in Active
         THEN status' = "completed" /\ set' = "published" /\ UNCHANGED rows
         ELSE Discard /\ UNCHANGED status
    /\ UNCHANGED <<unitVars, annotated, runVars, frozen, offset, page, listed, disturbed>>

\* except RunCancelledError
Unwind ==
    /\ pc = "unwind"
    /\ Discard
    /\ pc' = "done"
    /\ UNCHANGED <<unitVars, annotated, runVars, status, frozen, offset, page, listed, disturbed>>

Working == pc \in {"freeze", "draft", "read", "store", "storeLast", "check", "complete"}

\* except Exception: discard, fail_if_active and commit in one transaction.
Fail ==
    /\ AllowErrors
    /\ Working
    /\ Discard
    /\ status' = IF SeenStatus \in Active THEN "failed" ELSE status
    /\ pc' = "done"
    /\ UNCHANGED <<unitVars, annotated, runVars, frozen, offset, page, listed, disturbed>>

\* The worker dies; nothing takes the claimed run over.
Die ==
    /\ AllowErrors
    /\ Working \/ pc = "unwind"
    /\ pc' = "lost"
    /\ UNCHANGED <<unitVars, annotated, runVars, status, frozen, offset, page, set, rows,
                   listed, disturbed>>

-----------------------------------------------------------------------------
(* What goes on beside it *)

\* cancel_run reads the run ...
RequestCancel ==
    /\ cancel = "none"
    /\ status \in Active
    /\ cancel' = "read"
    /\ UNCHANGED <<unitVars, annotated, onlyNew, refreshed, status, pc, frozen, offset, page,
                   set, rows, listed, disturbed>>

\* ... and marks it, going by what it has read unless it reads again.
CommitCancel ==
    /\ cancel = "read"
    /\ cancel' = "done"
    /\ status' = IF refreshed /\ status \notin Active THEN status ELSE "cancelled"
    /\ UNCHANGED <<unitVars, annotated, onlyNew, refreshed, pc, frozen, offset, page,
                   set, rows, listed, disturbed>>

\* Coding's CommitSave
Annotate(u) ==
    /\ u \notin annotated
    /\ annotated' = annotated \cup {u}
    /\ UNCHANGED <<unitVars, runVars, status, pc, frozen, offset, page, set, rows, listed,
                   disturbed>>

\* Annotations and predictions of deleted units go with them, the lists in the
\* snapshot and in the set's metadata stay.
ResegmentUnderPrediction(d) ==
    /\ SegmentDocument(d)
    /\ annotated' = annotated \cap units'
    /\ rows' = rows \cap units'
    /\ disturbed' = (disturbed \/ pc # "idle")
    /\ UNCHANGED <<runVars, status, pc, frozen, offset, page, set, listed>>

PredictionNext ==
    \/ Claim \/ Freeze \/ Draft \/ ReadPage \/ StorePage \/ LastCheck
    \/ Finish \/ Unwind \/ Fail \/ Die \/ RequestCancel \/ CommitCancel
    \/ \E u \in units : Annotate(u)
    \/ \E d \in Docs : ResegmentUnderPrediction(d)

predictionAllVars == <<unitVars, predictionVars>>

PredictionSpec == PredictionInit /\ [][PredictionNext]_predictionAllVars

-----------------------------------------------------------------------------
(* Properties *)

\* Types of the run, of its set and of the worker's position.
PredictionTypeOK ==
    /\ UnitsTypeOK
    /\ annotated \in SUBSET Unit
    /\ onlyNew \in BOOLEAN
    /\ refreshed \in BOOLEAN
    /\ status \in RunStatuses
    /\ cancel \in {"none", "read", "done"}
    /\ pc \in Phases
    /\ frozen \in SUBSET Unit
    /\ offset \in Nat
    /\ page \in SUBSET Unit
    /\ set \in {"none", "draft", "published"}
    /\ rows \in SUBSET Unit
    /\ listed \in SUBSET Unit
    /\ disturbed \in BOOLEAN

\* A published set has a prediction of every unit but those annotated when the
\* run froze its selection, and of no other, and lists the same: annotations
\* saved meanwhile and page boundaries change nothing.  (While a document is
\* segmented under the run, OFFSET paging does skip units.)
PublishedIsWhole ==
    set = "published" /\ ~disturbed =>
        /\ rows = units \ frozen
        /\ listed = rows
        /\ ~onlyNew => rows = units

\* The set is published when, and only when, its run completes; a failed run
\* has left no prediction, and a draft, which nobody is shown, outlives the
\* worker only if that was lost.
OutcomeHasItsSet ==
    /\ status = "completed" => set = "published"
    /\ status = "failed" => set = "none" /\ rows = {}
    /\ set = "published" => status \in {"completed", "cancelled"} /\ pc = "done"
    /\ set = "draft" => Working \/ pc \in {"unwind", "lost"}
    /\ set = "none" => rows = {}
=============================================================================
