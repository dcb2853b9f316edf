----------------------------- MODULE RunContract -----------------------------
(***************************************************************************)
(* What the run lifecycle promises to everything outside it: a run is      *)
(* enqueued once, begins executing at most once, and ends completed,       *)
(* failed or cancelled.  With Sticky a terminal status is final, which is  *)
(* what run_lifecycle.py says of it; without, a cancellation and the end   *)
(* of the execution may still overwrite each other.                        *)
(***************************************************************************)
EXTENDS Naturals

CONSTANT Sticky   \* a Boolean

VARIABLES status, executions

vars == <<status, executions>>

Outcomes == {"completed", "failed"}
Terminal == Outcomes \cup {"cancelled"}

Init ==
    /\ status = "none"
    /\ executions = 0

\* The service commits the new run.
Enqueue ==
    /\ status = "none"
    /\ status' = "queued"
    /\ UNCHANGED executions

\* One worker, once, takes the queued run.
Begin ==
    /\ status = "queued"
    /\ executions = 0
    /\ status' = "running"
    /\ executions' = 1

\* The execution ends.
Finish ==
    /\ status = "running"
    /\ status' \in Outcomes
    /\ UNCHANGED executions

\* A user cancels the active run.
Cancel ==
    /\ status \in {"queued", "running"}
    /\ status' = "cancelled"
    /\ UNCHANGED executions

\* Of a run that began, a cancellation overwrites the outcome or the outcome
\* the cancellation; an outcome never overwrites the other.
Override ==
    /\ ~Sticky
    /\ executions = 1
    /\ \/ status = "cancelled" /\ status' \in Outcomes
       \/ status \in Outcomes /\ status' = "cancelled"
    /\ UNCHANGED executions

Next == Enqueue \/ Begin \/ Finish \/ Cancel \/ Override

Spec == Init /\ [][Next]_vars
=============================================================================
