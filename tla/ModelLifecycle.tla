---------------------------- MODULE ModelLifecycle ----------------------------
(***************************************************************************)
(* The lifecycle status of the trained models of one project, corpus and   *)
(* label set.  set_status reads the model, then (to promote it and         *)
(* deprecate the others) its siblings, and writes what it has read to be   *)
(* different; two requests interleave at those points.                     *)
(***************************************************************************)
EXTENDS Naturals, FiniteSets

CONSTANTS
    Models,
    Curators,  \* bound: requests at a time
    Targets    \* bound: statuses asked for

LifecycleStatuses == {"candidate", "staging", "production", "deprecated", "archived"}

ASSUME LifecycleAssumption == Targets \subseteq LifecycleStatuses

VARIABLES
    statusOf,  \* of each model, as committed
    ask,       \* what each request is doing, with what it has read
    rivals     \* for each request, models that others gave a status since it
               \* looked at the siblings

lifecycleVars == <<statusOf, ask, rivals>>

NoAsk == [at |-> "rest", model |-> {}, to |-> "candidate", others |-> FALSE,
          was |-> "candidate", siblings |-> {}]

LifecycleInit ==
    /\ statusOf = [m \in Models |-> "candidate"]
    /\ ask = [r \in Curators |-> NoAsk]
    /\ rivals = [r \in Curators |-> {}]

\* get_model_or_404
ReadModel(r, m, to, others) ==
    /\ ask[r] = NoAsk
    /\ ask' = [ask EXCEPT ![r] =
           [at |-> "read", model |-> {m}, to |-> to, others |-> others,
            was |-> statusOf[m], siblings |-> {}]]
    /\ UNCHANGED <<statusOf, rivals>>

\* The query of _deprecate_siblings, when it is asked for.
Siblings(r) ==
    IF ask[r].to = "production" /\ ask[r].others
    THEN {m \in Models \ ask[r].model : statusOf[m] \notin {"deprecated", "archived"}}
    ELSE {}

ReadSiblings(r) ==
    /\ ask[r].at = "read"
    /\ ask' = [ask EXCEPT ![r] =
           [at |-> "looked", model |-> @.model, to |-> @.to, others |-> @.others,
            was |-> @.was, siblings |-> Siblings(r)]]
    /\ rivals' = [rivals EXCEPT ![r] = {}]
    /\ UNCHANGED statusOf

\* Mutant: promoting a model leaves its siblings as they are.
WritesModelOnly(a) ==
    [m \in (IF a.was # a.to THEN a.model ELSE {}) |-> a.to]

\* What the transaction writes: nothing to a model that was read with the status
\* it is to get.
Writes(a) ==
    [m \in a.siblings \cup (IF a.was # a.to THEN a.model ELSE {}) |->
        IF m \in a.model THEN a.to ELSE "deprecated"]

\* The updates, each with its event (left out here), and the commit.
CommitStatus(r) ==
    /\ ask[r].at = "looked"
    /\ LET new == Writes(ask[r])
       IN  /\ statusOf' = [m \in Models |-> IF m \in DOMAIN new THEN new[m] ELSE statusOf[m]]
           /\ rivals' = [q \in Curators |->
                  IF q # r /\ ask[q].at = "looked" THEN rivals[q] \cup DOMAIN new
                  ELSE {}]
    /\ ask' = [ask EXCEPT ![r] = NoAsk]

\* The request fails, or is the victim of a deadlock over the rows.
AbandonStatus(r) ==
    /\ ask[r] # NoAsk
    /\ ask' = [ask EXCEPT ![r] = NoAsk]
    /\ rivals' = [rivals EXCEPT ![r] = {}]
    /\ UNCHANGED statusOf

LifecycleNext ==
    \E r \in Curators :
        \/ \E m \in Models, to \in Targets, others \in BOOLEAN : ReadModel(r, m, to, others)
        \/ ReadSiblings(r)
        \/ CommitStatus(r)
        \/ AbandonStatus(r)

LifecycleSpec == LifecycleInit /\ [][LifecycleNext]_lifecycleVars

-----------------------------------------------------------------------------
(* Properties *)

Promotes(r) == ask[r].to = "production" /\ ask[r].others

\* A promotion that deprecates the others leaves no other model in production
\* but one whose status another request changed while it was under way.
SoleProduction ==
    [][\A r \in Curators :
           Promotes(r) /\ CommitStatus(r) =>
               {m \in Models \ ask[r].model : statusOf'[m] = "production"}
                   \subseteq rivals[r]]_lifecycleVars
=============================================================================
