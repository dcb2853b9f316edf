------------------------------- MODULE Coding -------------------------------
(***************************************************************************)
(* Human coding: campaigns, the tasks they give to coders, the codes       *)
(* coders save and the listings in which they see each other's codes.  One *)
(* label and one codebook version; the value of a code is left out.        *)
(*                                                                         *)
(* campaign_id may be NULL in tasks and codes, and NULL never conflicts in *)
(* a unique constraint: rows without a campaign have a copy number.        *)
(***************************************************************************)
EXTENDS TextUnits

CONSTANTS
    Coders,
    MaxCampaigns, \* bound: campaigns
    Copies,       \* bound: rows alike but for their id, numbered
    MaxRows,      \* bound: rows of a table
    Requests,     \* requests being served at a time
    MaxPatches    \* bound: changes of campaigns

ASSUME CodingAssumption ==
    /\ MaxCampaigns \in Nat
    /\ Copies \subseteq Nat
    /\ MaxPatches \in Nat
    /\ MaxRows \in Nat

Campaigns == 1..MaxCampaigns  \* in the order of creation
NoCampaign == 0               \* NULL

VARIABLES
    campaigns,  \* status, blind_mode, reveal_after = campaign_completed
    patches,    \* changes of campaigns so far
    tasks,      \* rows of research_annotation_tasks
    codes,      \* rows of research_annotations
    req,        \* what each request does and has read
    shown       \* the codes of peers in the listing answered by this step

codingVars == <<campaigns, patches, tasks, codes, req, shown>>

\* "active" stands for draft and archived too, which count for the same.
Statuses == {"active", "completed", "released"}
Campaign == [status : Statuses \cup {"none"}, blind : BOOLEAN, early : BOOLEAN]
NotCreated == [status |-> "none", blind |-> TRUE, early |-> FALSE]

Row == [unit : Unit, coder : Coders, campaign : Campaigns \cup {NoCampaign}, copy : Copies]

Idle == [kind |-> "idle"]

CodingInit ==
    /\ UnitsInit
    /\ campaigns = [k \in Campaigns |-> NotCreated]
    /\ patches = 0
    /\ tasks = {} /\ codes = {}
    /\ req = [r \in Requests |-> Idle]
    /\ shown = {}

Of(rows, u, c) == {x \in rows : x.unit = u /\ x.coder = c}
In(rows, k) == {x \in rows : x.campaign = k}

\* The tables with one row more; a unique constraint stops a second one in a
\* campaign, the caller decides what that means.
NewCopies(rows, u, c, k) ==
    {n \in Copies : /\ Cardinality(rows) < MaxRows
                    /\ \A x \in In(Of(rows, u, c), k) : x.copy < n
                    /\ \A m \in Copies : m < n => \E x \in In(Of(rows, u, c), k) : x.copy = m}

Taken(rows, u, c, k) == k # NoCampaign /\ In(Of(rows, u, c), k) # {}

NewRow(u, c, k, n) == [unit |-> u, coder |-> c, campaign |-> k, copy |-> n]

-----------------------------------------------------------------------------
(* Campaigns and tasks *)

CreateCampaign(k) ==
    /\ campaigns[k].status = "none"
    /\ \A j \in Campaigns : j < k => campaigns[j].status # "none"
    /\ \E b, e \in BOOLEAN :
           campaigns' = [campaigns EXCEPT ![k] = [status |-> "active", blind |-> b, early |-> e]]
    /\ UNCHANGED <<unitVars, patches, tasks, codes, req>>
    /\ shown' = {}

\* patch_campaign: any field, to any value, in any status.
PatchCampaign(k) ==
    /\ campaigns[k].status # "none"
    /\ patches < MaxPatches
    /\ patches' = patches + 1
    /\ \E s \in Statuses, b, e \in BOOLEAN :
           campaigns' = [campaigns EXCEPT ![k] = [status |-> s, blind |-> b, early |-> e]]
    /\ UNCHANGED <<unitVars, tasks, codes, req>>
    /\ shown' = {}

\* assign_tasks, and the assignments of a campaign: ON CONFLICT DO NOTHING.
AssignTask(u, c, k) ==
    /\ u \in units
    /\ k # NoCampaign => campaigns[k].status # "none"
    /\ ~Taken(tasks, u, c, k)
    /\ \E n \in NewCopies(tasks, u, c, k) : tasks' = tasks \cup {NewRow(u, c, k, n)}
    /\ UNCHANGED <<unitVars, campaigns, patches, codes, req>>
    /\ shown' = {}

-----------------------------------------------------------------------------
(* Saving a code *)

\* save_annotations up to the SELECT of its upsert, which raises when it finds
\* two rows.  In a campaign the coder needs a task.
BeginSave(r, u, c, k) ==
    LET found == In(Of(codes, u, c), k)
    IN  /\ req[r] = Idle
        /\ u \in units
        /\ k # NoCampaign => In(Of(tasks, u, c), k) # {}
        /\ Cardinality(found) <= 1
        /\ req' = [req EXCEPT ![r] = [kind |-> "save", unit |-> u, coder |-> c,
                                      campaign |-> k, found |-> found # {}]]
        /\ UNCHANGED <<unitVars, campaigns, patches, tasks, codes>>
        /\ shown' = {}

\* get_task, without its campaign when the save names none: two rows raise.
TaskRows(u, c, k) == IF k = NoCampaign THEN Of(tasks, u, c) ELSE In(Of(tasks, u, c), k)

\* Mutant: the unique constraint does not reach codes of campaigns.
UpsertUnconstrained(q) ==
    IF q.found THEN In(Of(codes, q.unit, q.coder), q.campaign) # {} /\ UNCHANGED codes
    ELSE \E n \in NewCopies(codes, q.unit, q.coder, q.campaign) :
             codes' = codes \cup {NewRow(q.unit, q.coder, q.campaign, n)}

\* The row is updated or inserted; nobody inserted it in the meantime.
UpsertCode(q) ==
    IF q.found THEN In(Of(codes, q.unit, q.coder), q.campaign) # {} /\ UNCHANGED codes
    ELSE /\ ~Taken(codes, q.unit, q.coder, q.campaign)
         /\ \E n \in NewCopies(codes, q.unit, q.coder, q.campaign) :
                codes' = codes \cup {NewRow(q.unit, q.coder, q.campaign, n)}

\* mark_task_complete: the one task there is, or a new one.
CompleteTask(q) ==
    LET rows == TaskRows(q.unit, q.coder, q.campaign)
    IN  /\ Cardinality(rows) <= 1
        /\ IF rows # {} THEN UNCHANGED tasks
           ELSE \E n \in NewCopies(tasks, q.unit, q.coder, q.campaign) :
                    tasks' = tasks \cup {NewRow(q.unit, q.coder, q.campaign, n)}

\* The rest of save_annotations: the unit must still be there (foreign keys).
CommitSave(r) ==
    /\ req[r].kind = "save"
    /\ req[r].unit \in units
    /\ UpsertCode(req[r])
    /\ CompleteTask(req[r]) \/ UNCHANGED tasks
    /\ req' = [req EXCEPT ![r] = Idle]
    /\ UNCHANGED <<unitVars, campaigns, patches>>
    /\ shown' = {}

\* Any of its statements may fail, and then nothing is saved.
RejectRequest(r) ==
    /\ req[r].kind # "idle"
    /\ req' = [req EXCEPT ![r] = Idle]
    /\ UNCHANGED <<unitVars, campaigns, patches, tasks, codes>>
    /\ shown' = {}

-----------------------------------------------------------------------------
(* Seeing the codes of others *)

Hidden(k) ==
    /\ campaigns[k].blind
    /\ campaigns[k].status # "released"
    /\ ~(campaigns[k].early /\ campaigns[k].status = "completed")

\* The listing of one unit or of several reads the codes first (the coder's own
\* are always shown and left out) ...
ReadCodes(r, u, c, many) ==
    /\ req[r] = Idle
    /\ u \in units
    /\ req' = [req EXCEPT ![r] = [kind |-> "list", unit |-> u, coder |-> c, many |-> many,
                                  rows |-> {x \in codes : x.unit = u /\ x.coder # c}]]
    /\ UNCHANGED <<unitVars, campaigns, patches, tasks, codes>>
    /\ shown' = {}

CampaignsOf(u, c) == {t.campaign : t \in Of(tasks, u, c)} \ {NoCampaign}

\* Mutant: the newest campaign of all the coders of the unit decides.
NewestCampaign(u, c) ==
    LET ks == {k \in Campaigns : \E d \in Coders : k \in CampaignsOf(u, d)}
    IN  {k \in ks : \A j \in ks : j <= k}

\* blind_policies_for_units: of the campaigns in which the coder has the unit
\* the newest, but a blind one wins over one that is not.
PolicyCampaign(u, c) ==
    LET ks == CampaignsOf(u, c)
        blind == {k \in ks : campaigns[k].blind}
        from == IF blind = {} THEN ks ELSE blind
    IN  {k \in from : \A j \in from : j <= k}

\* ... and then the policy: blind_policies_for_units, or for one unit
\* blind_policy_for_annotator_unit, which raises when there are two tasks.
ShowCodes(r) ==
    LET q == req[r]
        deciding == IF q.many THEN PolicyCampaign(q.unit, q.coder)
                    ELSE CampaignsOf(q.unit, q.coder)
        hide == \E k \in deciding : Hidden(k)
    IN  /\ q.kind = "list"
        /\ ~q.many => Cardinality(Of(tasks, q.unit, q.coder)) <= 1
        /\ shown' = IF hide THEN {} ELSE q.rows
        /\ req' = [req EXCEPT ![r] = Idle]
        /\ UNCHANGED <<unitVars, campaigns, patches, tasks, codes>>

-----------------------------------------------------------------------------

\* Everything attached to a deleted unit goes with it (ON DELETE CASCADE).
Cascade(rows) == {x \in rows : x.unit \in units'}

Resegment(d) ==
    /\ SegmentDocument(d)
    /\ tasks' = Cascade(tasks)
    /\ codes' = Cascade(codes)
    /\ UNCHANGED <<campaigns, patches, req>>
    /\ shown' = {}

CodingNext ==
    \/ \E k \in Campaigns : CreateCampaign(k) \/ PatchCampaign(k)
    \/ \E u \in units, c \in Coders, k \in Campaigns \cup {NoCampaign} :
           \/ AssignTask(u, c, k)
           \/ \E r \in Requests : BeginSave(r, u, c, k)
    \/ \E r \in Requests, u \in units, c \in Coders, many \in BOOLEAN : ReadCodes(r, u, c, many)
    \/ \E r \in Requests : CommitSave(r) \/ RejectRequest(r) \/ ShowCodes(r)
    \/ \E d \in Docs : Resegment(d)

codingAllVars == <<unitVars, codingVars>>

CodingSpec == CodingInit /\ [][CodingNext]_codingAllVars
-----------------------------------------------------------------------------
(* Properties *)

Save == [kind : {"save"}, unit : Unit, coder : Coders,
         campaign : Campaigns \cup {NoCampaign}, found : BOOLEAN]
List == [kind : {"list"}, unit : Unit, coder : Coders, many : BOOLEAN, rows : SUBSET Row]

\* Types of the tables and of what requests hold.
CodingTypeOK ==
    /\ UnitsTypeOK
    /\ campaigns \in [Campaigns -> Campaign]
    /\ patches \in Nat
    /\ tasks \in SUBSET Row
    /\ codes \in SUBSET Row
    /\ req \in [Requests -> {Idle} \cup Save \cup List]
    /\ shown \in SUBSET Row

\* Whatever is assigned, released or changed while a listing is being answered:
\* a coder who works on a unit in campaigns that are all still blind is shown
\* nobody else's codes of it.
PeersHiddenWhileCoding ==
    [][\A r \in Requests : req'[r] # req[r] =>
           \A x \in shown' :
               LET ks == CampaignsOf(x.unit, req[r].coder)
               IN  ks # {} => \E k \in ks : ~Hidden(k)]_codingAllVars

\* The evidence of a campaign: of each coder at most one code of a unit, of
\* units that exist and that the campaign gave to the coder, however saves race
\* with each other and with segmentation.
CampaignEvidence ==
    /\ \A x \in codes : x.unit \in units
    /\ \A x \in codes : x.campaign # NoCampaign =>
           /\ campaigns[x.campaign].status # "none"
           /\ In(Of(tasks, x.unit, x.coder), x.campaign) # {}
           /\ In(Of(codes, x.unit, x.coder), x.campaign) = {x}
=============================================================================
