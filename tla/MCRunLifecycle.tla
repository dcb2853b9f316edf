--------------------------- MODULE MCRunLifecycle ---------------------------
(***************************************************************************)
(* RunLifecycle, with sessions as they are built and, beside it, with      *)
(* sessions whose reads repopulate: only these notice a cancel on the way. *)
(* A behaviour is of one kind, as its initial state says.                  *)
(***************************************************************************)
EXTENDS RunLifecycle, TLC

VARIABLE refreshing

Refreshed == INSTANCE RunLifecycle WITH AutoRefresh <- TRUE

\* The workers are alike, and so are the requests that cancel.
Symmetry == Permutations(Workers) \cup Permutations(Cancellers)

BothInit == Init /\ refreshing \in BOOLEAN

BothNext ==
    /\ \/ ~refreshing /\ Next
       \/ refreshing /\ Refreshed!Next
    /\ UNCHANGED refreshing

BothSpec == BothInit /\ [][BothNext]_<<vars, refreshing>>
=============================================================================
