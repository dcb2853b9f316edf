----------------------------- MODULE CodingProofs -----------------------------
(***************************************************************************)
(* Proofs about the coding of units, for any documents, coders, campaigns, *)
(* policies and concurrent requests.                                       *)
(*                                                                         *)
(* GoldDataset: the values of a frozen dataset were held together, however *)
(* the cells are resolved.  Between the two statements codes are changed   *)
(* or added but taken away only with their unit, and so are adjudications. *)
(* A cell whose unit is still there either had no adjudication when its    *)
(* codes were read, or has one when the adjudications are, over codes that *)
(* are there too.                                                          *)
(*                                                                         *)
(* Sampling: a sample is as large and as evenly spread as was asked for,   *)
(* and it is dealt out whole and evenly.                                   *)
(***************************************************************************)
EXTENDS Coding, GoldDataset, Sampling, ListLemmas, WellFoundedInduction, TLAPS

\* No unit has a generation that is still to come.
GenerationInv == \A u \in units : u.gen <= generation[u.doc]

\* Tasks are of units that exist and of campaigns that were created.
TaskInv ==
    \A t \in tasks :
        /\ t.unit \in units
        /\ t.campaign # NoCampaign => campaigns[t.campaign].status # "none"

\* What a request read when it began: its unit has existed, so it cannot be one
\* still to be made, and if it is there yet so is the task the save needs; what
\* a listing has read is of its unit.
RequestInv ==
    \A r \in Requests :
        /\ req[r] # Idle => req[r].unit.gen <= generation[req[r].unit.doc]
        /\ req[r] \in Save /\ req[r].campaign # NoCampaign /\ req[r].unit \in units
           => In(Of(tasks, req[r].unit, req[r].coder), req[r].campaign) # {}
        /\ req[r] \in List => \A x \in req[r].rows : x.unit = req[r].unit

CodingInv ==
    /\ CodingTypeOK
    /\ GenerationInv
    /\ TaskInv
    /\ RequestInv
    /\ CampaignEvidence

-----------------------------------------------------------------------------

\* The largest element of a bounded set of numbers.
LEMMA Newest ==
    ASSUME NEW N \in Nat, NEW S \in SUBSET (1..N), S # {}
    PROVE  \E k \in S : \A j \in S : j <= k
<1> DEFINE T == {N - k : k \in S}
<1>1. T \subseteq Nat /\ T # {}
  <2>1. \A k \in S : N - k \in Nat
    OBVIOUS
  <2> QED
    BY <2>1, Zenon
<1>2. PICK m \in T : \A n \in T : ~(<<n, m>> \in OpToRel(<, Nat))
  BY <1>1, NatLessThanWellFounded, WFMin, Zenon
<1>3. \A n \in T : ~(n < m)
  BY <1>1, <1>2 DEF OpToRel
<1>4. PICK k \in S : m = N - k
  BY DEF T
<1>5. \A j \in S : ~(N - j < N - k)
  BY <1>3, <1>4
<1> QED
  BY <1>5

\* The initial states satisfy the invariant.
LEMMA InitInv == CodingInit => CodingInv
<1> SUFFICES ASSUME CodingInit PROVE CodingInv
  OBVIOUS
<1> USE TextUnitsAssumption, CodingAssumption DEF CodingInit
<1> PICK n \in [Docs -> 0..MaxUnits] :
          units = UNION {SegmentedInto(d, n[d], 0) : d \in Docs}
  BY DEF UnitsInit
<1>0. \A u \in units : u \in Unit /\ u.gen = 0
  BY DEF SegmentedInto, Unit
<1>1. UnitsTypeOK
  BY <1>0 DEF UnitsInit, UnitsTypeOK
<1>2. CodingTypeOK
  BY <1>1 DEF CodingTypeOK, NotCreated, Campaign, Statuses
<1>3. GenerationInv
  BY <1>0 DEF UnitsInit, GenerationInv, Unit
<1> QED
  BY <1>2, <1>3 DEF CodingInv, TaskInv, RequestInv, CampaignEvidence, Save, List, Idle

-----------------------------------------------------------------------------
(* Each action preserves the invariant. *)

\* Creating and changing campaigns: none goes back to "none".
LEMMA CampaignStep ==
    ASSUME CodingInv, NEW k \in Campaigns, CreateCampaign(k) \/ PatchCampaign(k)
    PROVE  CodingInv'
<1> USE DEF CodingInv
<1>1. PICK b \in BOOLEAN, e \in BOOLEAN, s \in Statuses :
         campaigns' = [campaigns EXCEPT ![k] = [status |-> s, blind |-> b, early |-> e]]
  BY DEF CreateCampaign, PatchCampaign, Statuses
<1>2. UNCHANGED <<units, generation, tasks, codes, req>> /\ shown' = {} /\ patches' \in Nat
  BY DEF CreateCampaign, PatchCampaign, unitVars, CodingTypeOK
<1>3. /\ campaigns' \in [Campaigns -> Campaign]
      /\ \A j \in Campaigns : campaigns[j].status # "none" => campaigns'[j].status # "none"
  BY <1>1 DEF CodingTypeOK, Campaign, Statuses
<1>4. CodingTypeOK'
  BY <1>2, <1>3 DEF CodingTypeOK, UnitsTypeOK
<1>5. GenerationInv' /\ RequestInv'
  BY <1>2 DEF GenerationInv, RequestInv, In, Of
<1>6. TaskInv'
  BY <1>2, <1>3 DEF TaskInv, CodingTypeOK, Row
<1>7. CampaignEvidence'
  BY <1>2, <1>3 DEF CampaignEvidence, CodingTypeOK, Row, In, Of
<1> QED
  BY <1>4, <1>5, <1>6, <1>7

\* A task is inserted, for a unit that is there and a campaign that was created.
LEMMA AssignStep ==
    ASSUME CodingInv, NEW u \in units, NEW c \in Coders, NEW k \in Campaigns \cup {NoCampaign},
           AssignTask(u, c, k)
    PROVE  CodingInv'
<1> USE DEF CodingInv
<1>1. PICK n \in Copies : tasks' = tasks \cup {NewRow(u, c, k, n)}
  BY DEF AssignTask, NewCopies
<1>2. UNCHANGED <<units, generation, campaigns, patches, codes, req>> /\ shown' = {}
  BY DEF AssignTask, unitVars
<1>3. u \in Unit
  BY DEF CodingTypeOK, UnitsTypeOK
<1>4. NewRow(u, c, k, n) \in Row
  BY <1>3 DEF NewRow, Row
<1>5. CodingTypeOK'
  BY <1>1, <1>2, <1>4 DEF CodingTypeOK, UnitsTypeOK
<1>6. GenerationInv'
  BY <1>2 DEF GenerationInv
<1>7. TaskInv'
  BY <1>1, <1>2 DEF TaskInv, AssignTask, NewRow
<1>8. \A v, d, j : In(Of(tasks, v, d), j) # {} => In(Of(tasks, v, d), j)' # {}
  BY <1>1 DEF In, Of
<1>9. RequestInv'
  BY <1>2, <1>8 DEF RequestInv, In, Of
<1>10. CampaignEvidence'
  BY <1>2, <1>8 DEF CampaignEvidence, In, Of
<1> QED
  BY <1>5, <1>6, <1>7, <1>9, <1>10

\* Beginning a request changes only what that request holds.
LEMMA BeginStep ==
    ASSUME CodingInv, NEW r \in Requests, NEW u \in units, NEW c \in Coders,
           \/ \E k \in Campaigns \cup {NoCampaign} : BeginSave(r, u, c, k)
           \/ \E many \in BOOLEAN : ReadCodes(r, u, c, many)
    PROVE  CodingInv'
<1> USE DEF CodingInv
<1>1. UNCHANGED <<units, generation, campaigns, patches, tasks, codes>> /\ shown' = {}
  BY DEF BeginSave, ReadCodes, unitVars
<1>2. u \in Unit /\ u.gen <= generation[u.doc]
  BY DEF CodingTypeOK, UnitsTypeOK, GenerationInv
<1>3. PICK q : /\ req' = [req EXCEPT ![r] = q]
               /\ q \in Save \cup List
               /\ q.unit = u
               /\ q \in Save /\ q.campaign # NoCampaign => In(Of(tasks, u, q.coder), q.campaign) # {}
               /\ q \in List => \A x \in q.rows : x.unit = u
  <2>1. CASE \E k \in Campaigns \cup {NoCampaign} : BeginSave(r, u, c, k)
    <3>1. PICK k \in Campaigns \cup {NoCampaign} : BeginSave(r, u, c, k)
      BY <2>1
    <3> DEFINE f == In(Of(codes, u, c), k) # {}
               q == [kind |-> "save", unit |-> u, coder |-> c, campaign |-> k, found |-> f]
    <3>2. req' = [req EXCEPT ![r] = q]
      BY <3>1 DEF BeginSave
    <3>3. f \in BOOLEAN
      OBVIOUS
    <3> HIDE DEF f
    <3>4. q \in Save /\ q \notin List
      BY <1>2, <3>3 DEF Save, List
    <3>5. q.unit = u /\ q.coder = c /\ q.campaign = k
      OBVIOUS
    <3>6. k # NoCampaign => In(Of(tasks, u, c), k) # {}
      BY <3>1 DEF BeginSave
    <3> QED
      BY <3>2, <3>4, <3>5, <3>6
  <2>2. CASE \E many \in BOOLEAN : ReadCodes(r, u, c, many)
    <3>1. PICK many \in BOOLEAN : ReadCodes(r, u, c, many)
      BY <2>2
    <3> DEFINE R == {x \in codes : x.unit = u /\ x.coder # c}
               q == [kind |-> "list", unit |-> u, coder |-> c, many |-> many, rows |-> R]
    <3>2. req' = [req EXCEPT ![r] = q]
      BY <3>1 DEF ReadCodes
    <3>3. R \in SUBSET Row /\ \A x \in R : x.unit = u
      BY DEF CodingTypeOK
    <3> HIDE DEF R
    <3>4. q \in List /\ q \notin Save
      BY <1>2, <3>3 DEF Save, List
    <3>5. q.unit = u /\ q.rows = R
      OBVIOUS
    <3> HIDE DEF q
    <3> QED
      BY <3>2, <3>3, <3>4, <3>5
  <2> QED
    BY <2>1, <2>2
<1>4. CodingTypeOK'
  BY <1>1, <1>3 DEF CodingTypeOK, UnitsTypeOK
<1>5. GenerationInv'
  BY <1>1 DEF GenerationInv
<1>6. TaskInv' /\ CampaignEvidence'
  BY <1>1 DEF TaskInv, CampaignEvidence, In, Of
<1>7. RequestInv'
  <2> SUFFICES ASSUME NEW p \in Requests
               PROVE  /\ req'[p] # Idle => req'[p].unit.gen <= generation[req'[p].unit.doc]
                      /\ req'[p] \in Save /\ req'[p].campaign # NoCampaign /\ req'[p].unit \in units
                         => In(Of(tasks, req'[p].unit, req'[p].coder), req'[p].campaign) # {}
                      /\ req'[p] \in List => \A x \in req'[p].rows : x.unit = req'[p].unit
    BY <1>1 DEF RequestInv, In, Of, Save, List, Row
  <2>1. CASE p = r
    <3>1. req'[p] = req'[r] /\ req \in [Requests -> {Idle} \cup Save \cup List]
      BY <2>1 DEF CodingTypeOK
    <3> QED
      BY <1>2, <1>3, <3>1
  <2>2. CASE p # r
    <3>1. req'[p] = req[p]
      BY <1>3, <2>2 DEF CodingTypeOK
    <3> QED
      BY <3>1 DEF RequestInv
  <2> QED
    BY <2>1, <2>2
<1> QED
  BY <1>4, <1>5, <1>6, <1>7

\* A request that ends holds nothing any more; the others hold what they held,
\* and what they rely on is still there when tasks were only added.
LEMMA EndedRequest ==
    ASSUME CodingInv, NEW r \in Requests, req' = [req EXCEPT ![r] = Idle],
           UNCHANGED <<units, generation>>, tasks \subseteq tasks'
    PROVE  /\ req' \in [Requests -> {Idle} \cup Save \cup List]
           /\ RequestInv'
<1>1. req \in [Requests -> {Idle} \cup Save \cup List] /\ RequestInv
  BY DEF CodingInv, CodingTypeOK
<1>2. \A p \in Requests : req'[p] = Idle \/ req'[p] = req[p]
  BY <1>1
<1>3. Idle \notin Save /\ Idle \notin List
  BY DEF Idle, Save, List
<1>4. \A v, d, j : In(Of(tasks, v, d), j) # {} => In(Of(tasks', v, d), j) # {}
  BY DEF In, Of
<1>5. req' \in [Requests -> {Idle} \cup Save \cup List]
  BY <1>1
<1>6. RequestInv'
  <2> SUFFICES ASSUME NEW p \in Requests
               PROVE  /\ req'[p] # Idle => req'[p].unit.gen <= generation[req'[p].unit.doc]
                      /\ req'[p] \in Save /\ req'[p].campaign # NoCampaign /\ req'[p].unit \in units
                         => In(Of(tasks', req'[p].unit, req'[p].coder), req'[p].campaign) # {}
                      /\ req'[p] \in List => \A x \in req'[p].rows : x.unit = req'[p].unit
    BY DEF RequestInv, In, Of, Save, List, Row
  <2>1. CASE req'[p] = Idle
    BY <1>3, <2>1
  <2>2. CASE req'[p] = req[p]
    BY <1>1, <1>4, <2>2 DEF RequestInv
  <2> QED
    BY <1>2, <2>1, <2>2
<1> QED
  BY <1>5, <1>6

\* The evidence after a save: a code that is inserted is the first of its coder
\* in its campaign, and the coder has the task the save was let in for.
LEMMA SaveStep ==
    ASSUME CodingInv, NEW r \in Requests, CommitSave(r)
    PROVE  CodingInv'
<1> USE DEF CodingInv
<1>1. UNCHANGED <<units, generation, campaigns, patches>> /\ shown' = {}
  BY DEF CommitSave, unitVars
<1> DEFINE q == req[r]
<1>2. /\ q \in Save /\ q.unit \in units
      /\ req' = [req EXCEPT ![r] = Idle]
      /\ UpsertCode(q)
      /\ CompleteTask(q) \/ UNCHANGED tasks
  <2>1. q \in {Idle} \cup Save \cup List /\ q.kind = "save"
    BY DEF CommitSave, CodingTypeOK
  <2>2. q \in Save
    BY <2>1 DEF Idle, Save, List
  <2> QED
    BY <2>2 DEF CommitSave
<1>3. q.unit \in Unit /\ q.coder \in Coders /\ q.campaign \in Campaigns \cup {NoCampaign}
  BY <1>2 DEF Save
<1>4. q.campaign # NoCampaign => In(Of(tasks, q.unit, q.coder), q.campaign) # {}
  BY <1>2 DEF RequestInv
<1> HIDE DEF q
<1>5. \/ UNCHANGED tasks
      \/ \E n \in Copies : tasks' = tasks \cup {NewRow(q.unit, q.coder, q.campaign, n)}
  BY <1>2 DEF CompleteTask, NewCopies
<1>6. tasks' \in SUBSET Row /\ tasks \subseteq tasks'
  BY <1>3, <1>5 DEF NewRow, Row, CodingTypeOK
<1>7. \/ UNCHANGED codes
      \/ /\ ~Taken(codes, q.unit, q.coder, q.campaign)
         /\ \E n \in Copies : codes' = codes \cup {NewRow(q.unit, q.coder, q.campaign, n)}
  BY <1>2 DEF UpsertCode, NewCopies
<1>8. codes' \in SUBSET Row
  BY <1>3, <1>7 DEF NewRow, Row, CodingTypeOK
<1>9. q.campaign # NoCampaign => campaigns[q.campaign].status # "none"
  BY <1>4 DEF TaskInv, In, Of
<1>10. TaskInv'
  BY <1>1, <1>2, <1>5, <1>9 DEF TaskInv, NewRow
<1>11. req' \in [Requests -> {Idle} \cup Save \cup List] /\ RequestInv'
  BY <1>1, <1>2, <1>6, EndedRequest
<1>12. CodingTypeOK'
  BY <1>1, <1>6, <1>8, <1>11 DEF CodingTypeOK, UnitsTypeOK
<1>13. GenerationInv'
  BY <1>1 DEF GenerationInv
<1>14. CampaignEvidence'
  <2>1. \A v, d, j : In(Of(tasks, v, d), j) # {} => In(Of(tasks', v, d), j) # {}
    BY <1>6 DEF In, Of
  <2>2. CASE UNCHANGED codes
    BY <1>1, <2>1, <2>2 DEF CampaignEvidence, In, Of
  <2>3. CASE /\ ~Taken(codes, q.unit, q.coder, q.campaign)
             /\ \E n \in Copies : codes' = codes \cup {NewRow(q.unit, q.coder, q.campaign, n)}
    <3>1. PICK n \in Copies : codes' = codes \cup {NewRow(q.unit, q.coder, q.campaign, n)}
      BY <2>3
    <3> DEFINE new == NewRow(q.unit, q.coder, q.campaign, n)
    <3>2. new.unit = q.unit /\ new.coder = q.coder /\ new.campaign = q.campaign
      BY DEF NewRow
    <3>3. q.campaign # NoCampaign => In(Of(codes, q.unit, q.coder), q.campaign) = {}
      BY <2>3 DEF Taken
    <3> HIDE DEF new
    <3>4. codes' = codes \cup {new}
      BY <3>1 DEF new
    <3>5. \A x \in codes' : x.unit \in units
      BY <1>2, <3>2, <3>4 DEF CampaignEvidence
    <3> SUFFICES ASSUME NEW x \in codes', x.campaign # NoCampaign
                 PROVE  /\ campaigns[x.campaign].status # "none"
                        /\ In(Of(tasks', x.unit, x.coder), x.campaign) # {}
                        /\ In(Of(codes', x.unit, x.coder), x.campaign) = {x}
      BY <1>1, <3>5 DEF CampaignEvidence, In, Of
    <3>6. CASE x = new
      <4>1. In(Of(codes', x.unit, x.coder), x.campaign) = {x}
        BY <3>2, <3>3, <3>4, <3>6 DEF In, Of
      <4> QED
        BY <1>4, <1>9, <2>1, <3>2, <3>6, <4>1
    <3>7. CASE x \in codes
      <4>1. In(Of(codes, x.unit, x.coder), x.campaign) = {x}
        BY <3>7 DEF CampaignEvidence
      <4>2. <<x.unit, x.coder, x.campaign>> # <<q.unit, q.coder, q.campaign>>
        BY <3>3, <4>1
      <4>3. In(Of(codes', x.unit, x.coder), x.campaign) = {x}
        BY <3>2, <3>4, <4>1, <4>2 DEF In, Of
      <4> QED
        BY <2>1, <3>7, <4>3 DEF CampaignEvidence
    <3> QED
      BY <3>4, <3>6, <3>7
  <2> QED
    BY <1>7, <2>2, <2>3
<1> QED
  BY <1>10, <1>11, <1>12, <1>13, <1>14

\* Refusing a request and answering a listing change no table.
LEMMA AnswerStep ==
    ASSUME CodingInv, NEW r \in Requests, RejectRequest(r) \/ ShowCodes(r)
    PROVE  CodingInv'
<1> USE DEF CodingInv
<1>1. UNCHANGED <<units, generation, campaigns, patches, tasks, codes>>
  BY DEF RejectRequest, ShowCodes, unitVars
<1>2. req' = [req EXCEPT ![r] = Idle]
  BY DEF RejectRequest, ShowCodes
<1>3. req' \in [Requests -> {Idle} \cup Save \cup List] /\ RequestInv'
  BY <1>1, <1>2, EndedRequest
<1>4. shown' \in SUBSET Row
  <2>1. CASE RejectRequest(r)
    BY <2>1 DEF RejectRequest
  <2>2. CASE ShowCodes(r)
    <3>1. req[r] \in {Idle} \cup Save \cup List /\ req[r].kind = "list"
      BY <2>2 DEF ShowCodes, CodingTypeOK
    <3>2. req[r].rows \in SUBSET Row
      BY <3>1 DEF Idle, Save, List
    <3>3. shown' = {} \/ shown' = req[r].rows
      BY <2>2 DEF ShowCodes
    <3> QED
      BY <3>2, <3>3
  <2> QED
    BY <2>1, <2>2
<1>5. CodingTypeOK'
  BY <1>1, <1>3, <1>4 DEF CodingTypeOK, UnitsTypeOK
<1>6. GenerationInv' /\ TaskInv' /\ CampaignEvidence'
  BY <1>1 DEF GenerationInv, TaskInv, CampaignEvidence, In, Of
<1> QED
  BY <1>3, <1>5, <1>6

\* Units that are made are new to everybody, so what refers to a unit that is
\* there refers to one that was there before.
LEMMA SegmentStep ==
    ASSUME CodingInv, NEW d \in Docs, Resegment(d)
    PROVE  CodingInv'
<1> USE DEF CodingInv
<1>1. /\ UNCHANGED <<campaigns, patches, req>> /\ shown' = {}
      /\ tasks' = {x \in tasks : x.unit \in units'}
      /\ codes' = {x \in codes : x.unit \in units'}
      /\ generation[d] < MaxGeneration
      /\ generation' = [generation EXCEPT ![d] = @ + 1]
  BY DEF Resegment, SegmentDocument, Cascade
<1>2. generation \in [Docs -> 0..MaxGeneration] /\ generation[d] \in Nat
  BY DEF CodingTypeOK, UnitsTypeOK
<1>3. PICK n \in 0..MaxUnits :
         units' = (units \ UnitsOf(d)) \cup SegmentedInto(d, n, generation[d] + 1)
  BY DEF Resegment, SegmentDocument
<1>4. generation' \in [Docs -> 0..MaxGeneration]
  BY <1>1, <1>2, TextUnitsAssumption
<1>5. \A u \in SegmentedInto(d, n, generation[d] + 1) :
         u \in Unit /\ u.doc = d /\ u.gen = generation[d] + 1
  BY <1>1, <1>2, TextUnitsAssumption DEF SegmentedInto, Unit
<1>6. units' \in SUBSET Unit
  BY <1>3, <1>5 DEF CodingTypeOK, UnitsTypeOK
<1>7. \A e \in Docs : generation[e] <= generation'[e] /\ generation[e] \in Nat /\ generation'[e] \in Nat
  BY <1>1, <1>2, <1>4, TextUnitsAssumption
<1>8. generation'[d] = generation[d] + 1
  BY <1>1, <1>2
<1>9. \A u \in units' : u.gen <= generation'[u.doc]
  <2> TAKE u \in units'
  <2>1. CASE u \in units
    <3>1. u \in Unit /\ u.gen \in Nat /\ u.doc \in Docs
      BY <2>1, TextUnitsAssumption DEF CodingTypeOK, UnitsTypeOK, Unit
    <3> QED
      BY <1>7, <2>1, <3>1 DEF GenerationInv
  <2>2. CASE u \in SegmentedInto(d, n, generation[d] + 1)
    BY <1>2, <1>5, <1>8, <2>2
  <2> QED
    BY <1>3, <2>1, <2>2
\* no unit known before comes back
<1>10. \A u \in Unit : u.gen <= generation[u.doc] /\ u \in units' => u \in units
  BY <1>2, <1>3, <1>5 DEF Unit
<1>11. CodingTypeOK'
  BY <1>1, <1>4, <1>6 DEF CodingTypeOK, UnitsTypeOK
<1>12. GenerationInv'
  BY <1>9 DEF GenerationInv
<1>13. TaskInv'
  BY <1>1 DEF TaskInv
<1>14. \A v \in units' : \A c, j : In(Of(tasks', v, c), j) = In(Of(tasks, v, c), j)
                             /\ In(Of(codes', v, c), j) = In(Of(codes, v, c), j)
  BY <1>1 DEF In, Of
<1>15. CampaignEvidence'
  BY <1>1, <1>14 DEF CampaignEvidence, In, Of
<1>16. RequestInv'
  <2> SUFFICES ASSUME NEW r \in Requests
               PROVE  /\ req[r] # Idle => req[r].unit.gen <= generation'[req[r].unit.doc]
                      /\ req[r] \in Save /\ req[r].campaign # NoCampaign /\ req[r].unit \in units'
                         => In(Of(tasks', req[r].unit, req[r].coder), req[r].campaign) # {}
                      /\ req[r] \in List => \A x \in req[r].rows : x.unit = req[r].unit
    BY <1>1 DEF RequestInv, In, Of, Save, List, Row
  <2>1. req[r] \in {Idle} \cup Save \cup List
    BY DEF CodingTypeOK
  <2>2. req[r] # Idle => /\ req[r].unit \in Unit
                         /\ req[r].unit.doc \in Docs
                         /\ req[r].unit.gen \in Nat
                         /\ req[r].unit.gen <= generation[req[r].unit.doc]
    BY <2>1, TextUnitsAssumption DEF Save, List, Unit, RequestInv
  <2>3. req[r] # Idle => req[r].unit.gen <= generation'[req[r].unit.doc]
    BY <1>7, <2>2
  <2>4. req[r] \in Save => req[r] # Idle
    BY DEF Save, Idle
  <2>5. req[r] \in Save /\ req[r].unit \in units' => req[r].unit \in units
    BY <1>10, <2>2, <2>4
  <2> QED
    BY <1>14, <2>3, <2>5 DEF RequestInv
<1> QED
  BY <1>11, <1>12, <1>13, <1>15, <1>16

-----------------------------------------------------------------------------
(* The theorems *)

\* The invariant is inductive.
LEMMA NextInv == CodingInv /\ [CodingNext]_codingAllVars => CodingInv'
<1> SUFFICES ASSUME CodingInv, [CodingNext]_codingAllVars PROVE CodingInv'
  OBVIOUS
<1>1. CASE UNCHANGED codingAllVars
  BY <1>1 DEF codingAllVars, codingVars, unitVars, CodingInv, CodingTypeOK, UnitsTypeOK,
              GenerationInv, TaskInv, RequestInv, CampaignEvidence, In, Of
<1>2. CASE \E k \in Campaigns : CreateCampaign(k) \/ PatchCampaign(k)
  BY <1>2, CampaignStep
<1>3. CASE \E u \in units, c \in Coders, k \in Campaigns \cup {NoCampaign} : AssignTask(u, c, k)
  BY <1>3, AssignStep
<1>4. CASE \E u \in units, c \in Coders, k \in Campaigns \cup {NoCampaign}, r \in Requests :
              BeginSave(r, u, c, k)
  BY <1>4, BeginStep
<1>5. CASE \E r \in Requests, u \in units, c \in Coders, many \in BOOLEAN : ReadCodes(r, u, c, many)
  BY <1>5, BeginStep
<1>6. CASE \E r \in Requests : CommitSave(r)
  BY <1>6, SaveStep
<1>7. CASE \E r \in Requests : RejectRequest(r) \/ ShowCodes(r)
  BY <1>7, AnswerStep
<1>8. CASE \E d \in Docs : Resegment(d)
  BY <1>8, SegmentStep
<1> QED
  BY <1>1, <1>2, <1>3, <1>4, <1>5, <1>6, <1>7, <1>8 DEF CodingNext

\* The invariant holds throughout.
LEMMA AlwaysInv == CodingSpec => []CodingInv
<1> QED
  BY InitInv, NextInv, PTL DEF CodingSpec

\* The tables and the requests keep their types.
THEOREM CodingTypes == CodingSpec => []CodingTypeOK
<1>1. CodingInv => CodingTypeOK
  BY DEF CodingInv
<1> QED
  BY <1>1, AlwaysInv, PTL

\* However saves race with each other and with segmentation, a campaign holds at
\* most one code per coder and unit, of an existing unit it gave to the coder.
THEOREM CampaignEvidenceHolds == CodingSpec => []CampaignEvidence
<1>1. CodingInv => CampaignEvidence
  BY DEF CodingInv
<1> QED
  BY <1>1, AlwaysInv, PTL

\* When all the campaigns in which a coder has the unit are hidden, the campaign
\* that decides is: both endpoints then hide the codes of others.
LEMMA HiddenDecides ==
    ASSUME CodingInv, NEW u \in Unit, NEW c \in Coders,
           CampaignsOf(u, c) # {}, \A k \in CampaignsOf(u, c) : Hidden(k)
    PROVE  /\ \E k \in CampaignsOf(u, c) : Hidden(k)
           /\ \E k \in PolicyCampaign(u, c) : Hidden(k)
<1> DEFINE ks == CampaignsOf(u, c)
           blind == {k \in ks : campaigns[k].blind}
<1>1. ks \in SUBSET (1..MaxCampaigns)
  BY DEF CodingInv, CodingTypeOK, CampaignsOf, Of, Row, Campaigns, NoCampaign
<1>2. blind = ks
  BY DEF Hidden
<1>3. \E k \in ks : \A j \in ks : j <= k
  BY <1>1, Newest, CodingAssumption
<1>4. \E k \in ks : k \in PolicyCampaign(u, c)
  BY <1>2, <1>3 DEF PolicyCampaign
<1> QED
  BY <1>4

\* A coder whose campaigns on a unit are all still blind is shown nobody else's
\* code of it, whatever happens while the listing is being answered.
THEOREM PeersHidden == CodingSpec => PeersHiddenWhileCoding
<1> DEFINE Step ==
      \A r \in Requests : req'[r] # req[r] =>
          \A x \in shown' :
              LET ks == CampaignsOf(x.unit, req[r].coder)
              IN  ks # {} => \E k \in ks : ~Hidden(k)
<1>1. CodingInv /\ [CodingNext]_codingAllVars => [Step]_codingAllVars
  <2> SUFFICES ASSUME CodingInv, CodingNext, NEW r \in Requests, req'[r] # req[r],
                      NEW x \in shown', CampaignsOf(x.unit, req[r].coder) # {},
                      \A k \in CampaignsOf(x.unit, req[r].coder) : Hidden(k)
               PROVE  FALSE
    OBVIOUS
  <2>1. PICK p \in Requests : ShowCodes(p)
    BY DEF CodingNext, CreateCampaign, PatchCampaign, AssignTask, BeginSave, ReadCodes,
           CommitSave, RejectRequest, Resegment
  <2>2. p = r
    <3>1. req' = [req EXCEPT ![p] = Idle] /\ req \in [Requests -> {Idle} \cup Save \cup List]
      BY <2>1 DEF ShowCodes, CodingInv, CodingTypeOK
    <3> QED
      BY <3>1
  <2>3. req[r] \in List
    <3>1. req[r] \in {Idle} \cup Save \cup List /\ req[r].kind = "list"
      BY <2>1, <2>2 DEF ShowCodes, CodingInv, CodingTypeOK
    <3> QED
      BY <3>1 DEF Idle, Save, List
  <2>4. x \in req[r].rows
    BY <2>1, <2>2 DEF ShowCodes
  <2>5. x.unit = req[r].unit /\ req[r].unit \in Unit /\ req[r].coder \in Coders
    BY <2>3, <2>4 DEF CodingInv, RequestInv, List
  <2>6. /\ \E k \in CampaignsOf(req[r].unit, req[r].coder) : Hidden(k)
        /\ \E k \in PolicyCampaign(req[r].unit, req[r].coder) : Hidden(k)
    BY <2>5, HiddenDecides
  <2>7. shown' = {}
    BY <2>1, <2>2, <2>6 DEF ShowCodes
  <2> QED
    BY <2>7
<1> QED
  BY <1>1, AlwaysInv, PTL DEF CodingSpec, PeersHiddenWhileCoding

-----------------------------------------------------------------------------
(* GoldDataset *)

Codes == [coder : GoldCoders, value : Verdicts]

GoldTypes ==
    /\ coded \in [Cells -> Seq(Codes)]
    /\ adjudicated \in [Cells -> Verdicts \cup {NoVerdict}]
    /\ present \subseteq GoldUnits
    /\ frozenUnits \subseteq GoldUnits

\* What a cell resolves to now, and what the history will have of it.
Now(cell) == Resolve(coded[cell], adjudicated[cell])
Soon(cell) == held[cell] \cup {Now(cell)}

\* The codes have been read and the adjudications have not.
CodesRead ==
    freezing = Statements[2] =>
        \A cell \in Cells : cell[1] \in present =>
            /\ readCodes[cell] # <<>> => coded[cell] # <<>>
            /\ adjudicated[cell] = NoVerdict \/ policy.source # "adjudicated_only"
                   => Resolve(readCodes[cell], NoVerdict) \in Soon(cell)

\* Both have been read and the units have not.
BothRead ==
    freezing = "units" =>
        \A u \in present, l \in GoldLabels :
            Gold(u, l) \in Soon(<<u, l>>) \cup {NoVerdict}

GInv == GoldTypes /\ CodesRead /\ BothRead /\ EachGoldHeld

-----------------------------------------------------------------------------

\* Only one policy looks at adjudications.
LEMMA ResolveIgnores ==
    ASSUME policy.source # "adjudicated_only", NEW given, NEW f, NEW g
    PROVE  Resolve(given, f) = Resolve(given, g)
  BY DEF Resolve

\* With a code, that policy takes an adjudication as it is.
LEMMA ResolveAdjudicated ==
    ASSUME policy.source = "adjudicated_only", NEW given, given # <<>>, NEW f, f # NoVerdict
    PROVE  Resolve(given, f) = f
  BY DEF Resolve, Adjudged

\* The freeze has begun when it starts reading, and nothing is frozen.
LEMMA GoldInitInv == GoldInit => GInv
  <1> SUFFICES ASSUME GoldInit PROVE GInv
    OBVIOUS
  <1>1. coded \in [Cells -> Seq(Codes)]
    BY DEF GoldInit
  <1>2. freezing = "annotations"
    BY DEF GoldInit, Statements
  <1> QED
    BY <1>1, <1>2 DEF GoldInit, Empty, GInv, GoldTypes, CodesRead, BothRead, EachGoldHeld, Statements

\* The history has what a cell resolved to in the states of the freeze.
LEMMA HeldGrows ==
    ASSUME GoldNext, freezing \in {Statements[2], "units"}, NEW cell \in Cells
    PROVE  held'[cell] = Soon(cell)
  BY DEF GoldNext, Soon, Now, Statements

\* An edit changes or adds codes; codes and adjudications go with their unit only.
Edited ==
    /\ GoldTypes'
    /\ present' \subseteq present
    /\ \A cell \in Cells : cell[1] \in present' =>
        /\ coded[cell] # <<>> => coded'[cell] # <<>>
        /\ adjudicated'[cell] = NoVerdict => adjudicated[cell] = NoVerdict
    /\ UNCHANGED freezeVars

\* A coder's save changes or adds a code of its cell only.
LEMMA SaveCodeEdits ==
    ASSUME GoldTypes, NEW c \in GoldCoders, NEW cell \in Cells, NEW v \in Verdicts,
           SaveCode(c, cell, v)
    PROVE  Edited
  <1> DEFINE new == [coder |-> c, value |-> v]
  <1> DEFINE mine == {i \in DOMAIN coded[cell] : coded[cell][i].coder = c}
  <1> DEFINE changed == [i \in DOMAIN coded[cell] |-> IF i \in mine THEN new ELSE coded[cell][i]]
  <1>1. new \in Codes /\ coded[cell] \in Seq(Codes)
    BY DEF GoldTypes, Codes
  <1>2. PICK given : /\ given = Append(coded[cell], new) \/ given = changed
                     /\ coded' = [coded EXCEPT ![cell] = given]
    BY DEF SaveCode
  <1>3. given \in Seq(Codes)
    <2>1. changed \in [1..Len(coded[cell]) -> Codes]
      BY <1>1
    <2>2. changed \in Seq(Codes)
      BY <1>1, <2>1
    <2>3. Append(coded[cell], new) \in Seq(Codes)
      BY <1>1
    <2> QED
      BY <1>2, <2>2, <2>3
  <1>4. coded[cell] # <<>> => given # <<>>
    <2>1. Append(coded[cell], new) # <<>>
      BY <1>1
    <2>2. coded[cell] # <<>> => changed # <<>>
      <3>1. SUFFICES ASSUME coded[cell] # <<>> PROVE changed # <<>>
        OBVIOUS
      <3>2. 1 \in DOMAIN coded[cell]
        BY <1>1, <3>1
      <3>3. DOMAIN changed = DOMAIN coded[cell]
        OBVIOUS
      <3>4. DOMAIN <<>> = {}
        OBVIOUS
      <3> QED
        BY <3>2, <3>3, <3>4
    <2> QED
      BY <1>2, <2>1, <2>2
  <1>5. UNCHANGED <<adjudicated, present, freezeVars>>
    BY DEF SaveCode
  <1> HIDE DEF new, mine, changed
  <1> QED
    BY <1>2, <1>3, <1>4, <1>5 DEF GoldTypes, Edited, freezeVars

\* An adjudication, and a segmentation that deletes a unit.
LEMMA OtherEdits ==
    ASSUME GoldTypes,
           \/ \E cell \in Cells, v \in Verdicts : Adjudicate(cell, v)
           \/ \E u \in GoldUnits : DeleteUnit(u)
    PROVE  Edited
  <1>1. ASSUME NEW cell \in Cells, NEW v \in Verdicts, Adjudicate(cell, v) PROVE Edited
    BY <1>1, VerdictAssumption DEF GoldTypes, Edited, Adjudicate, freezeVars
  <1>2. ASSUME NEW u \in GoldUnits, DeleteUnit(u) PROVE Edited
    <2>1. coded' \in [Cells -> Seq(Codes)]
      BY <1>2 DEF GoldTypes, DeleteUnit
    <2>2. \A cell \in Cells : cell[1] # u =>
            coded'[cell] = coded[cell] /\ adjudicated'[cell] = adjudicated[cell]
      BY <1>2 DEF DeleteUnit
    <2>3. adjudicated' \in [Cells -> Verdicts \cup {NoVerdict}]
      BY <1>2 DEF GoldTypes, DeleteUnit
    <2>4. present' = present \ {u} /\ UNCHANGED freezeVars
      BY <1>2 DEF DeleteUnit
    <2> QED
      BY <2>1, <2>2, <2>3, <2>4 DEF GoldTypes, Edited, freezeVars
  <1> QED
    BY <1>1, <1>2

\* Between the two reads of a freeze such edits do no harm.
LEMMA EditInv == ASSUME GInv, GoldNext, Edited PROVE GInv'
  <1>1. policy' = policy /\ freezing' = freezing /\ readCodes' = readCodes
        /\ readFinal' = readFinal /\ frozenUnits' = frozenUnits
    BY DEF Edited, freezeVars
  <1>2. \A given, f : Resolve(given, f)' = Resolve(given, f)
    BY <1>1 DEF Resolve
  <1>3. \A u, l : Gold(u, l)' = Gold(u, l)
    BY <1>1 DEF Gold, Resolve
  <1>4. CodesRead'
    <2> SUFFICES ASSUME freezing = Statements[2], NEW cell \in Cells, cell[1] \in present'
                 PROVE  /\ readCodes[cell] # <<>> => coded'[cell] # <<>>
                        /\ adjudicated'[cell] = NoVerdict \/ policy.source # "adjudicated_only"
                             => Resolve(readCodes[cell], NoVerdict) \in Soon(cell)'
      BY <1>1 DEF CodesRead, Resolve
    <2>1. held'[cell] = Soon(cell)
      BY HeldGrows
    <2>2. Soon(cell) \subseteq Soon(cell)'
      BY <2>1 DEF Soon
    <2> QED
      BY <2>2 DEF GInv, CodesRead, Edited
  <1>5. BothRead'
    <2> SUFFICES ASSUME freezing = "units", NEW u \in present', NEW l \in GoldLabels
                 PROVE  Gold(u, l) \in Soon(<<u, l>>)' \cup {NoVerdict}
      BY <1>1, <1>3 DEF BothRead
    <2>0. u \in present /\ <<u, l>> \in Cells
      BY DEF GInv, GoldTypes, Edited, Cells
    <2>1. held'[<<u, l>>] = Soon(<<u, l>>)
      BY <2>0, HeldGrows
    <2> QED
      BY <2>0, <2>1 DEF GInv, BothRead, Soon
  <1>6. EachGoldHeld'
    <2> SUFFICES ASSUME freezing = "frozen"
                 PROVE  \A u \in frozenUnits, l \in GoldLabels :
                            Gold(u, l) \in held'[<<u, l>>] \ {NoVerdict}
      BY <1>1, <1>3 DEF EachGoldHeld
    <2>1. \A cell \in Cells : held'[cell] = held[cell]
      BY DEF GoldNext
    <2> QED
      BY <2>1 DEF GInv, GoldTypes, EachGoldHeld, Cells
  <1> QED
    BY <1>4, <1>5, <1>6 DEF GInv, Edited

-----------------------------------------------------------------------------

\* The first statement: what is read now resolves to what the cell resolves to
\* now, unless it is adjudicated.
LEMMA ReadAnnotationsInv == ASSUME GInv, GoldNext, ReadAnnotations PROVE GInv'
  <1>1. /\ freezing = Statements[1]
        /\ freezing' = Statements[2]
        /\ readCodes' = coded
        /\ UNCHANGED <<coded, adjudicated, present, policy, frozenUnits>>
    BY DEF ReadAnnotations, Reads, Statements
  <1>2. CodesRead'
    <2> SUFFICES ASSUME NEW cell \in Cells,
                        adjudicated[cell] = NoVerdict \/ policy.source # "adjudicated_only"
                 PROVE  Resolve(coded[cell], NoVerdict) = Now(cell)
      BY <1>1 DEF CodesRead, Soon, Now, Resolve
    <2> QED
      BY ResolveIgnores DEF Now
  <1>3. BothRead' /\ EachGoldHeld'
    BY <1>1 DEF BothRead, EachGoldHeld, Statements
  <1> QED
    BY <1>1, <1>2, <1>3 DEF GInv, GoldTypes

\* The second: an adjudication that is read is over codes that are there now.
LEMMA ReadAdjudicationsInv == ASSUME GInv, GoldNext, ReadAdjudications PROVE GInv'
  <1>1. /\ freezing = Statements[2]
        /\ freezing' = "units"
        /\ readFinal' = adjudicated
        /\ UNCHANGED <<coded, adjudicated, present, policy, readCodes, frozenUnits>>
    BY DEF ReadAdjudications, Reads, Statements
  <1>2. BothRead'
    <2> SUFFICES ASSUME NEW u \in present, NEW l \in GoldLabels,
                        Resolve(readCodes[<<u, l>>], adjudicated[<<u, l>>]) # NoVerdict
                 PROVE  Resolve(readCodes[<<u, l>>], adjudicated[<<u, l>>]) \in held'[<<u, l>>]
      BY <1>1 DEF BothRead, Gold, Soon, Resolve
    <2> DEFINE cell == <<u, l>>
    <2>1. cell \in Cells /\ cell[1] \in present
      BY DEF GInv, GoldTypes, Cells
    <2>2. held'[cell] = Soon(cell)
      BY <1>1, <2>1, HeldGrows
    <2>3. CASE adjudicated[cell] = NoVerdict \/ policy.source # "adjudicated_only"
      <3>1. Resolve(readCodes[cell], adjudicated[cell]) = Resolve(readCodes[cell], NoVerdict)
        BY <2>3, ResolveIgnores
      <3> QED
        BY <1>1, <2>1, <2>2, <2>3, <3>1 DEF GInv, CodesRead
    <2>4. CASE adjudicated[cell] # NoVerdict /\ policy.source = "adjudicated_only"
      <3>1. readCodes[cell] # <<>>
        BY DEF Resolve
      <3>2. coded[cell] # <<>>
        BY <1>1, <2>1, <3>1 DEF GInv, CodesRead
      <3>3. Resolve(readCodes[cell], adjudicated[cell]) = Now(cell)
        BY <2>4, <3>1, <3>2, ResolveAdjudicated DEF Now
      <3> QED
        BY <2>2, <3>3 DEF Soon
    <2> QED
      BY <2>3, <2>4
  <1>3. CodesRead' /\ EachGoldHeld'
    BY <1>1 DEF CodesRead, EachGoldHeld, Statements
  <1> QED
    BY <1>1, <1>2, <1>3 DEF GInv, GoldTypes

\* The third: what is frozen has a value for every label.
LEMMA ReadUnitsInv == ASSUME GInv, GoldNext, ReadUnits PROVE GInv'
  <1>1. /\ freezing = "units"
        /\ freezing' \in {"refused", "frozen"}
        /\ frozenUnits' = {u \in present : \A l \in GoldLabels : Gold(u, l) # NoVerdict}
        /\ UNCHANGED <<coded, adjudicated, present, policy, readCodes, readFinal>>
    BY DEF ReadUnits
  <1>2. \A u, l : Gold(u, l)' = Gold(u, l)
    BY <1>1 DEF Gold, Resolve
  <1>3. EachGoldHeld'
    <2> SUFFICES ASSUME NEW u \in frozenUnits', NEW l \in GoldLabels
                 PROVE  Gold(u, l) \in held'[<<u, l>>] \ {NoVerdict}
      BY <1>2 DEF EachGoldHeld
    <2>1. u \in present /\ Gold(u, l) # NoVerdict /\ <<u, l>> \in Cells
      BY <1>1 DEF GInv, GoldTypes, Cells
    <2>2. held'[<<u, l>>] = Soon(<<u, l>>)
      BY <1>1, <2>1, HeldGrows
    <2> QED
      BY <1>1, <2>1, <2>2 DEF GInv, BothRead
  <1>4. CodesRead' /\ BothRead'
    BY <1>1 DEF CodesRead, BothRead, Statements
  <1> QED
    BY <1>1, <1>3, <1>4 DEF GInv, GoldTypes

\* Every step keeps the invariant.
LEMMA GoldStepInv == GInv /\ [GoldNext]_goldVars => GInv'
  <1> SUFFICES ASSUME GInv, [GoldNext]_goldVars PROVE GInv'
    OBVIOUS
  <1>1. CASE GoldNext
    <2>1. CASE \E cell \in Cells, v \in Verdicts :
                  Adjudicate(cell, v) \/ \E c \in GoldCoders : SaveCode(c, cell, v)
      BY <1>1, <2>1, SaveCodeEdits, OtherEdits, EditInv DEF GInv
    <2>2. CASE \E u \in GoldUnits : DeleteUnit(u)
      BY <1>1, <2>2, OtherEdits, EditInv DEF GInv
    <2> QED
      BY <1>1, <2>1, <2>2, ReadAnnotationsInv, ReadAdjudicationsInv, ReadUnitsInv
      DEF GoldNext, GoldStep
  <1>2. CASE UNCHANGED goldVars
    BY <1>2
    DEF GInv, GoldTypes, CodesRead, BothRead, EachGoldHeld, Soon, Now, Gold, Resolve,
        goldVars, freezeVars
  <1> QED
    BY <1>1, <1>2

\* Whatever is coded, decided or deleted between the statements of a freeze, every
\* frozen value is what the policy made of its cell at one moment of it.
THEOREM FrozenValuesHeld == GoldSpec => []EachGoldHeld
  <1>1. GInv => EachGoldHeld
    BY DEF GInv
  <1> QED
    BY <1>1, GoldInitInv, GoldStepInv, PTL DEF GoldSpec

-----------------------------------------------------------------------------
(* Sampling: how a sample is dealt out *)

-----------------------------------------------------------------------------
\* The places in a list of n units that annotator a is dealt: the first c, and
\* every AnnotatorCount-th of the others.
DealTurn(i, c) == ((i - c - 1) % AnnotatorCount) + 1

Places(n, c, a) == {i \in 1..n : i <= c \/ DealTurn(i, c) = a}

\* A turn is that of an annotator.
LEMMA TurnType ==
    ASSUME NEW n \in Nat, NEW c \in Nat, NEW i \in 1..n
    PROVE  DealTurn(i, c) \in Annotators
<1>1. AnnotatorCount \in Nat \ {0} /\ i - c - 1 \in Int
  BY SamplingAssumption
<1>2. (i - c - 1) % AnnotatorCount \in 0..(AnnotatorCount - 1)
  BY <1>1, DivMod
<1> QED
  BY <1>1, <1>2 DEF DealTurn, Annotators

\* To a place of one annotator corresponds a place of another: in the same round of
\* turns, or in the round before.
LEMMA PlacesMove ==
    ASSUME NEW n \in Nat, NEW c \in Nat, NEW a \in Annotators, NEW b \in Annotators,
           NEW i \in Places(n, c, a), i > c
    PROVE  /\ b <= a => i - (a - b) \in Places(n, c, b) /\ i - (a - b) > c
           /\ a < b /\ i # c + a => /\ i + (b - a) - AnnotatorCount \in Places(n, c, b)
                                   /\ i + (b - a) - AnnotatorCount > c
<1> DEFINE A == AnnotatorCount
           x == i - c - 1
           q == x \div A
<1>1. A \in Nat \ {0} /\ a \in 1..A /\ b \in 1..A
  BY SamplingAssumption DEF Annotators
<1>2. i \in 1..n /\ i \in Int /\ DealTurn(i, c) = a /\ x \in Nat
  BY DEF Places
<1>3. q \in Int /\ x % A \in 0..(A - 1) /\ x = A * q + (x % A) /\ (x % A) = a - 1
  <2>1. DealTurn(i, c) = (x % A) + 1
    BY DEF DealTurn
  <2> HIDE DEF A, x
  <2>2. x \in Int
    BY <1>2
  <2>3. q \in Int /\ x % A \in 0..(A - 1) /\ x = A * q + (x % A)
    BY <1>1, <2>2, DivMod
  <2> QED
    BY <1>1, <1>2, <2>1, <2>3
<1>4. x = A * q + (a - 1)
  BY <1>3
<1> HIDE DEF q
<1>5. q >= 0
  <2> SUFFICES ASSUME q <= -1 PROVE FALSE
    BY <1>3
  <2>1. A * q <= -A
    BY <1>1, <1>3
  <2> QED
    <3> HIDE DEF A
    <3>1. x <= a - 1 - A /\ a <= A /\ x >= 0
      <4> HIDE DEF x
      <4>1. A * q \in Int
        BY <1>1, <1>3
      <4> QED
        BY <1>1, <1>2, <1>4, <2>1, <4>1
    <3> QED
      BY <1>1, <1>2, <3>1
<1>6. A * q >= 0
  BY <1>1, <1>3, <1>5
<1>7. ASSUME NEW p \in Int PROVE DealTurn(A * p + b + c, c) = b
  <2>1. A * p + b + c - c - 1 = A * p + (b - 1) /\ b - 1 \in 0..(A - 1)
    BY <1>1
  <2>2. (A * p + (b - 1)) % A = b - 1
    BY <1>1, <2>1, ModUnique
  <2> QED
    BY <1>1, <2>1, <2>2 DEF DealTurn
<1>8. ASSUME b <= a PROVE i - (a - b) \in Places(n, c, b) /\ i - (a - b) > c
  <2>1. i - (a - b) = A * q + b + c
    BY <1>1, <1>2, <1>3, <1>4
  <2>2. DealTurn(i - (a - b), c) = b
    BY <1>3, <1>7, <2>1
  <2>3. i - (a - b) > c /\ i - (a - b) <= n
    BY <1>1, <1>2, <1>3, <1>6, <1>8, <2>1
  <2> QED
    BY <1>1, <1>2, <2>2, <2>3 DEF Places
<1>9. ASSUME a < b, i # c + a
      PROVE  i + (b - a) - A \in Places(n, c, b) /\ i + (b - a) - A > c
  <2>1. q # 0
    <3> SUFFICES ASSUME q = 0 PROVE FALSE
      OBVIOUS
    <3>1. x = a - 1
      BY <1>1, <1>4
    <3> QED
      BY <1>1, <1>2, <1>9, <3>1 DEF x
  <2>2. A * q >= A
    BY <1>1, <1>3, <1>5, <2>1
  <2>3. i + (b - a) - A = A * (q - 1) + b + c
    BY <1>1, <1>2, <1>3, <1>4
  <2>4. DealTurn(i + (b - a) - A, c) = b
    BY <1>3, <1>7, <2>3
  <2>5. A * (q - 1) >= 0
    BY <1>1, <1>3, <2>2
  <2>6. i + (b - a) - A > c /\ i + (b - a) - A <= n
    BY <1>1, <1>2, <1>3, <1>9, <2>3, <2>5
  <2> QED
    BY <1>1, <1>2, <2>4, <2>6 DEF Places
<1> QED
  BY <1>8, <1>9

\* No annotator has two places more than another.
LEMMA FairTurns ==
    ASSUME NEW n \in Nat, NEW c \in Nat, NEW a \in Annotators, NEW b \in Annotators
    PROVE  Cardinality(Places(n, c, a)) <= Cardinality(Places(n, c, b)) + 1
<1> DEFINE J == Places(n, c, a)
           K == Places(n, c, b)
           F == J \ {c + a}
           Move(i) == IF i <= c THEN i
                      ELSE IF b <= a THEN i - (a - b) ELSE i + (b - a) - AnnotatorCount
           f == [i \in F |-> Move(i)]
<1>0. AnnotatorCount \in Nat /\ a \in Int /\ b \in Int
  BY SamplingAssumption DEF Annotators
<1>1. IsFiniteSet(J) /\ IsFiniteSet(K) /\ J \subseteq 1..n
  <2>1. IsFiniteSet(1..n) /\ J \in SUBSET (1..n) /\ K \in SUBSET (1..n)
    BY FS_Interval DEF Places
  <2> QED
    BY <2>1, FS_Subset
<1>2. ASSUME NEW i \in F PROVE Move(i) \in K /\ (i > c => Move(i) > c)
  <2>1. i \in J /\ i # c + a /\ i \in 1..n
    BY <1>1
  <2>2. CASE i <= c
    BY <2>1, <2>2 DEF Places
  <2>3. CASE i > c
    <3>1. /\ b <= a => i - (a - b) \in K /\ i - (a - b) > c
          /\ a < b => i + (b - a) - AnnotatorCount \in K /\ i + (b - a) - AnnotatorCount > c
      BY <2>1, <2>3, PlacesMove
    <3> HIDE DEF K
    <3> QED
      BY <1>0, <2>1, <2>3, <3>1
  <2> QED
    BY <2>1, <2>2, <2>3
<1>3. ASSUME NEW i \in F, NEW j \in F, Move(i) = Move(j) PROVE i = j
  <2>1. i \in Int /\ j \in Int
    BY <1>1
  <2>2. i <= c <=> j <= c
    <3>1. (i > c => Move(i) > c) /\ (j > c => Move(j) > c)
      BY <1>2
    <3>2. (i <= c => Move(i) = i) /\ (j <= c => Move(j) = j)
      OBVIOUS
    <3> HIDE DEF Move, F
    <3> QED
      BY <1>3, <2>1, <3>1, <3>2
  <2> HIDE DEF F
  <2> QED
    BY <1>0, <1>3, <2>1, <2>2
<1> HIDE DEF Move
<1>4. f \in Injection(F, K)
  <2>1. f \in [F -> K]
    BY <1>2
  <2>2. \A i, j \in F : f[i] = f[j] => i = j
    BY <1>3
  <2> HIDE DEF f
  <2> QED
    BY <2>1, <2>2, Fun_IsInj
<1> HIDE DEF J, K
<1>5. IsFiniteSet(F) /\ Cardinality(F) <= Cardinality(K)
  BY <1>1, <1>4, FS_Injection
<1>6. Cardinality(F) = IF c + a \in J THEN Cardinality(J) - 1 ELSE Cardinality(J)
  BY <1>1, FS_RemoveElement
<1>7. Cardinality(J) \in Nat /\ Cardinality(K) \in Nat
  BY <1>1, FS_CardinalityType
<1> QED
  BY <1>5, <1>6, <1>7 DEF J, K

-----------------------------------------------------------------------------
\* How a sample S is dealt out by d: what EveryUnitIsDealt says of it.
Dealt(hand, S, d) ==
    LET Holders(u) == {a \in Annotators : u \in hand[a]}
        toAll == {u \in S : Holders(u) = Annotators}
    IN  /\ UNION {hand[a] : a \in Annotators} = S
        /\ \A u \in S \ toAll : Cardinality(Holders(u)) = 1
        /\ d.strategy = "overlap" =>
               Cardinality(toAll) >= Smaller(d.overlap, Cardinality(S))
        /\ d.strategy = "disjoint" /\ AnnotatorCount > 1 => toAll = {}
        /\ \A a, b \in Annotators : Cardinality(hand[a]) <= Cardinality(hand[b]) + 1
        /\ d.strategy = "shared" => \A u \in S : Holders(u) = Annotators

\* plan_annotation_assignment deals out the whole sample, fairly.
LEMMA PlanDeals ==
    ASSUME NEW S, IsFiniteSet(S), NEW ids \in SetToSeqs(S), NEW d \in Dealing
    PROVE  Dealt(PlanAssignment(ids, d), S, d)
<1> DEFINE n == Cardinality(S)
           c == IF d.strategy = "shared" THEN Len(ids) ELSE Smaller(d.overlap, Len(ids))
           hand == PlanAssignment(ids, d)
           Holders(u) == {a \in Annotators : u \in hand[a]}
           toAll == {u \in S : Holders(u) = Annotators}
<1>1. n \in Nat
  BY FS_CardinalityType
<1>2. ids \in [1..n -> S] /\ \A i, j \in 1..n : ids[i] = ids[j] => i = j
  BY DEF SetToSeqs, IsInjective
<1>3. \A u \in S : \E i \in 1..n : ids[i] = u
  <2>1. IsFiniteSet(1..n) /\ Cardinality(1..n) = n
    BY <1>1, FS_Interval
  <2>2. ids \in Injection(1..n, S)
    BY <1>2, Fun_IsInj
  <2>3. ids \in Surjection(1..n, S)
    BY <2>1, <2>2, FS_Injection
  <2> QED
    BY <2>3 DEF Surjection
<1>4. Len(ids) = n /\ DOMAIN ids = 1..n
  BY <1>1, <1>2
<1>5. /\ c \in Nat /\ c <= n
      /\ d.strategy = "overlap" => c = Smaller(d.overlap, n)
      /\ d.strategy = "disjoint" => c = 0
      /\ d.strategy = "shared" => c = n
  <2>1. d.overlap \in Nat /\ (d.strategy = "disjoint" => d.overlap = 0)
    BY DEF Dealing
  <2> QED
    BY <1>1, <1>4, <2>1 DEF Smaller
<1>6. AnnotatorCount \in Nat \ {0} /\ Annotators = 1..AnnotatorCount
  BY SamplingAssumption DEF Annotators
<1>7. \A a \in Annotators : hand[a] = {ids[i] : i \in Places(n, c, a)}
  BY <1>4 DEF PlanAssignment, Places, DealTurn
<1> HIDE DEF n, c, hand
<1>8. ASSUME NEW i \in 1..n, NEW a \in Annotators
      PROVE  ids[i] \in hand[a] <=> i <= c \/ DealTurn(i, c) = a
  <2>1. \A j \in Places(n, c, a) : j \in 1..n
    BY DEF Places
  <2>2. ids[i] \in hand[a] <=> i \in Places(n, c, a)
    BY <1>2, <1>7, <2>1
  <2> QED
    BY <2>2 DEF Places
<1>9. \A i \in 1..n : DealTurn(i, c) \in Annotators
  BY <1>1, <1>5, TurnType
<1>10. \A i \in 1..n : i <= c => Holders(ids[i]) = Annotators
  BY <1>8
<1>11. \A i \in 1..n : ~(i <= c) => Holders(ids[i]) = {DealTurn(i, c)}
  BY <1>8, <1>9
<1>12. UNION {hand[a] : a \in Annotators} = S
  <2>1. \A a \in Annotators : hand[a] \subseteq S
    BY <1>2, <1>7 DEF Places
  <2>2. ASSUME NEW u \in S PROVE \E a \in Annotators : u \in hand[a]
    BY <1>3, <1>8, <1>9
  <2> QED
    BY <2>1, <2>2
<1>13. ASSUME NEW u \in S \ toAll PROVE Cardinality(Holders(u)) = 1
  <2>1. PICK i \in 1..n : ids[i] = u
    BY <1>3
  <2>2. Holders(u) = {DealTurn(i, c)}
    BY <1>10, <1>11, <2>1
  <2> HIDE DEF Holders
  <2> QED
    BY <2>2, FS_Singleton
<1>14. ASSUME d.strategy = "overlap" PROVE Cardinality(toAll) >= Smaller(d.overlap, n)
  <2> DEFINE f == [i \in 1..c |-> ids[i]]
  <2>1. \A i \in 1..c : i \in 1..n /\ ids[i] \in toAll
    BY <1>1, <1>2, <1>5, <1>10
  <2>2. f \in [1..c -> toAll] /\ \A i, j \in 1..c : f[i] = f[j] => i = j
    BY <1>2, <2>1
  <2> HIDE DEF toAll, f
  <2>3. f \in Injection(1..c, toAll)
    BY <2>2, Fun_IsInj
  <2>4. IsFiniteSet(toAll)
    <3>1. toAll \in SUBSET S
      BY DEF toAll
    <3> QED
      BY <3>1, FS_Subset
  <2>5. Cardinality(1..c) <= Cardinality(toAll)
    BY <2>3, <2>4, FS_Injection
  <2>6. Cardinality(1..c) = c
    BY <1>5, FS_Interval
  <2>7. Cardinality(toAll) \in Nat
    BY <2>4, FS_CardinalityType
  <2> QED
    BY <1>5, <1>14, <2>5, <2>6, <2>7
<1>15. ASSUME d.strategy = "disjoint", AnnotatorCount > 1 PROVE toAll = {}
  <2>1. c = 0
    BY <1>5, <1>15
  <2>2. ASSUME NEW u \in S PROVE Holders(u) # Annotators
    <3>1. PICK i \in 1..n : ids[i] = u
      BY <1>3
    <3>2. ~(i <= c)
      BY <2>1
    <3>3. Holders(u) = {DealTurn(i, c)}
      BY <1>11, <3>1, <3>2
    <3>4. 1 \in Annotators /\ 2 \in Annotators
      BY <1>6, <1>15
    <3> HIDE DEF Holders
    <3> QED
      BY <3>3, <3>4
  <2> QED
    BY <2>2
<1>16. ASSUME NEW a \in Annotators, NEW b \in Annotators
       PROVE  Cardinality(hand[a]) <= Cardinality(hand[b]) + 1
  <2>1. ASSUME NEW e \in Annotators PROVE Cardinality(hand[e]) = Cardinality(Places(n, c, e))
    <3> DEFINE J == Places(n, c, e)
               f == [i \in J |-> ids[i]]
    <3>1. J \in SUBSET (1..n) /\ IsFiniteSet(1..n)
      BY <1>1, FS_Interval DEF Places
    <3>2. IsFiniteSet(J)
      BY <3>1, FS_Subset
    <3>3. hand[e] = {ids[i] : i \in J}
      BY <1>7
    <3> HIDE DEF J
    <3>4. f \in [J -> hand[e]]
      BY <3>3
    <3>5. \A i, j \in J : f[i] = f[j] => i = j
      BY <1>2, <3>1
    <3>6. \A u \in hand[e] : \E i \in J : f[i] = u
      BY <3>3
    <3> HIDE DEF f
    <3>7. f \in Bijection(J, hand[e])
      BY <3>4, <3>5, <3>6, Fun_IsBij
    <3>8. Cardinality(hand[e]) = Cardinality(J)
      BY <3>2, <3>7, FS_Bijection, Fun_ExistsBij
    <3> QED
      BY <3>8 DEF J
  <2>2. Cardinality(Places(n, c, a)) <= Cardinality(Places(n, c, b)) + 1
    BY <1>1, <1>5, FairTurns
  <2> QED
    BY <2>1, <2>2
<1>17. ASSUME d.strategy = "shared", NEW u \in S PROVE Holders(u) = Annotators
  <2>1. PICK i \in 1..n : ids[i] = u
    BY <1>3
  <2>2. i <= c
    BY <1>1, <1>5, <1>17, <2>1
  <2> HIDE DEF Holders
  <2> QED
    BY <1>10, <2>1, <2>2
<1> QED
  BY <1>12, <1>13, <1>14, <1>15, <1>16, <1>17 DEF Dealt, hand, n

-----------------------------------------------------------------------------
\* What is drawn stays within the units of the corpus, and a finished round has
\* dealt out its sample and recorded the tasks.
DealingInv ==
    /\ step \in {"idle", "draw", "assign"}
    /\ step = "draw" => request \in SampleRequest
    /\ step = "draw" /\ request.level = "unit" => atoms \subseteq CorpusUnits
    /\ step = "draw" => chosen \subseteq atoms
    /\ step = "assign" => sampled \subseteq CorpusUnits
    /\ round \in Nat
    /\ step = "idle" /\ round > 0 =>
           /\ sampled \subseteq CorpusUnits
           /\ Dealt(dealt, sampled, dealing)
           /\ \A u \in CorpusUnits, a \in Annotators : u \in dealt[a] => <<u, a>> \in assigned

\* Before the first round nothing has been dealt.
LEMMA DealingBegins == SamplingInit => DealingInv
  BY DEF SamplingInit, DealingInv

\* Every step keeps that a finished round has dealt out its sample.
LEMMA DealingKept == DealingInv /\ [SamplingNext]_samplingVars => DealingInv'
<1> SUFFICES ASSUME DealingInv, [SamplingNext]_samplingVars PROVE DealingInv'
  OBVIOUS
<1>1. CASE StartRound
  <2>1. request' \in SampleRequest /\ chosen' = {} /\ step' = "draw" /\ round' = round
        /\ atoms' = IF request'.level = "document" THEN {docOf[u] : u \in Candidates}
                    ELSE Candidates
    BY <1>1 DEF StartRound
  <2> QED
    BY <2>1 DEF DealingInv, Candidates
<1>2. CASE DrawStratum
  <2>1. /\ step = "draw" /\ step' = step /\ request' = request /\ atoms' = atoms
        /\ round' = round
    BY <1>2 DEF DrawStratum
  <2>2. PICK C : /\ C \in DrawableFrom(request, {x \in atoms : StratumOfAtom(request, x)
                                                                 = Min(undrawn)},
                                        targets[Min(undrawn)])
                 /\ chosen' = chosen \cup C
    BY <1>2 DEF DrawStratum
  <2>3. C \subseteq atoms
    BY <2>2 DEF DrawableFrom
  <2> QED
    BY <2>1, <2>2, <2>3 DEF DealingInv
<1>3. CASE DeliverSample
  <2>1. step = "draw" /\ step' = "assign" /\ round' = round
    BY <1>3 DEF DeliverSample
  <2>2. sampled' \subseteq CorpusUnits
    <3>1. CASE request.level = "unit"
      BY <1>3, <2>1, <3>1 DEF DeliverSample, DealingInv
    <3>2. CASE request.level # "unit"
      BY <1>3, <3>2 DEF DeliverSample, Candidates
    <3> QED
      BY <3>1, <3>2
  <2> QED
    BY <2>1, <2>2 DEF DealingInv
<1>4. CASE AssignSample
  <2>1. /\ step = "assign" /\ step' = "idle" /\ round' = round + 1 /\ sampled' = sampled
        /\ dealing' \in Dealing
        /\ assigned' = assigned \cup {task \in CorpusUnits \X Annotators :
                                        task[1] \in dealt'[task[2]]}
    BY <1>4 DEF AssignSample
  <2>2. PICK ids \in SetToSeqs(sampled) : dealt' = PlanAssignment(ids, dealing')
    BY <1>4 DEF AssignSample
  <2>3. sampled \subseteq CorpusUnits /\ IsFiniteSet(sampled)
    <3>1. IsFiniteSet(CorpusUnits)
      BY SamplingAssumption, FS_Interval DEF CorpusUnits
    <3>2. sampled \in SUBSET CorpusUnits
      BY <2>1 DEF DealingInv
    <3> QED
      BY <3>1, <3>2, FS_Subset
  <2>4. Dealt(dealt', sampled, dealing')
    BY <2>1, <2>2, <2>3, PlanDeals
  <2>5. Dealt(dealt, sampled, dealing)'
    BY <2>1, <2>4 DEF Dealt, Smaller
  <2>6. \A u \in CorpusUnits, a \in Annotators : u \in dealt'[a] => <<u, a>> \in assigned'
    BY <2>1
  <2> QED
    BY <2>1, <2>3, <2>5, <2>6 DEF DealingInv
<1>5. CASE UNCHANGED samplingVars
  BY <1>5 DEF DealingInv, samplingVars, Dealt, Smaller
<1> QED
  BY <1>1, <1>2, <1>3, <1>4, <1>5 DEF SamplingNext

\* What is dealt and recorded leaves no unit of a shared sample a candidate.
LEMMA DealtIsWhole ==
    ASSUME DealingInv
    PROVE  EveryUnitIsDealt
<1> SUFFICES ASSUME step = "idle", round > 0 PROVE EveryUnitIsDealt
  BY DEF EveryUnitIsDealt
<1>1. /\ sampled \subseteq CorpusUnits
      /\ Dealt(dealt, sampled, dealing)
      /\ \A u \in CorpusUnits, a \in Annotators : u \in dealt[a] => <<u, a>> \in assigned
  BY DEF DealingInv
<1>2. ASSUME dealing.strategy = "shared" PROVE sampled \cap Candidates = {}
  <2>1. \A u \in sampled, a \in Annotators : u \in dealt[a]
    BY <1>1, <1>2 DEF Dealt
  <2> QED
    BY <1>1, <2>1 DEF Candidates
<1> QED
  BY <1>1, <1>2 DEF Dealt, EveryUnitIsDealt

\* After every round each sampled unit has gone to all annotators or to one, as
\* many to all as asked for, and the annotators' shares differ by at most one.
THEOREM SampleDealt == SamplingSpec => []EveryUnitIsDealt
<1>1. SamplingSpec => []DealingInv
  BY DealingBegins, DealingKept, PTL DEF SamplingSpec
<1>2. DealingInv => EveryUnitIsDealt
  BY DealtIsWhole
<1> QED
  BY <1>1, <1>2, PTL

-----------------------------------------------------------------------------
(* Sampling: how a sample is allocated *)

\* Strata of the given sizes, and a target they can meet.
Strataful(sizes, n, all, target) ==
    /\ n \in Nat \ {0}
    /\ sizes \in [1..n -> Nat \ {0}]
    /\ all = TotalOf(sizes) /\ all \in Nat \ {0}
    /\ target \in 0..all

\* w is the exact share target * z of all, rounded.
LEMMA Rounding ==
    ASSUME NEW all \in Nat \ {0}, NEW target \in Nat, target <= all, NEW z \in Nat,
           NEW d \in Nat, NEW e \in 0..(all - 1), target * z = all * d + e,
           NEW w \in Nat, w = d \/ (w = d + 1 /\ e > 0)
    PROVE  /\ w <= z
           /\ w * all < target * z + all
           /\ target * z < w * all + all
<1>1. z * target <= z * all
  BY ProductWithin
<1>2. z * target = target * z /\ z * all = all * z
  OBVIOUS
<1>3. all * d \in Int /\ all * z \in Int /\ target * z \in Int /\ e \in Int
  OBVIOUS
<1>4. all * d <= all * z /\ (e > 0 => all * d < all * z)
  BY <1>1, <1>2, <1>3
<1>5. d <= z /\ (e > 0 => d < z)
  BY <1>4
<1>6. w <= z
  BY <1>5
<1>7. (d + 1) * all = all * d + all /\ d * all = all * d
  OBVIOUS
<1>8. w * all = all * d \/ (w * all = all * d + all /\ e > 0)
  BY <1>7
<1>9. w * all \in Int /\ 0 <= e /\ e < all /\ all \in Int
  OBVIOUS
<1>10. w * all < target * z + all
  BY <1>3, <1>8, <1>9
<1>11. target * z < w * all + all
  BY <1>3, <1>8, <1>9
<1> QED
  BY <1>6, <1>10, <1>11

\* Equal first shares add up to the target and differ by at most one.
LEMMA EqualShares ==
    ASSUME NEW n, NEW sizes, NEW all, NEW target, Strataful(sizes, n, all, target),
           NEW raw, raw = RawShares(sizes, target, "equal")
    PROVE  /\ raw \in [1..n -> Nat]
           /\ TotalOf(raw) = target
           /\ \A i, j \in 1..n : raw[i] <= raw[j] + 1
<1> DEFINE q == target \div n
           r == target % n
           one == [i \in 1..n |-> IF i \in 1..r THEN 1 ELSE 0]
           base == [i \in 1..n |-> q]
<1>1. n \in Nat \ {0} /\ n \in Nat /\ target \in Nat /\ Len(sizes) = n
  BY DEF Strataful
<1>2. q \in Nat /\ r \in 0..(n - 1) /\ target = n * q + r
  BY <1>1, Quotient
<1>3. raw = [i \in 1..n |-> q + (IF i <= r THEN 1 ELSE 0)]
  BY <1>1 DEF RawShares
<1> HIDE DEF q, r
<1>4. r \in Nat /\ 1..r \in SUBSET (1..n)
  BY <1>1, <1>2
<1>5. \A i \in 1..n : i <= r <=> i \in 1..r
  BY <1>4
<1>6. raw \in [1..n -> Nat] /\ \A i \in 1..n : raw[i] = base[i] + one[i]
  <2>1. \A i \in 1..n : q + (IF i <= r THEN 1 ELSE 0) \in Nat
    BY <1>2
  <2>2. raw \in [1..n -> Nat]
    BY <1>3, <2>1
  <2>3. \A i \in 1..n : raw[i] = base[i] + one[i]
    BY <1>3, <1>5
  <2> QED
    BY <2>2, <2>3
<1>7. base \in [1..n -> Int] /\ one \in [1..n -> Int] /\ raw \in [1..n -> Int]
  BY <1>2, <1>6
<1>8. TotalOf(one) = r
  <2>1. \A i \in 1..n : one[i] = IF i \in 1..r THEN 1 ELSE 0
    OBVIOUS
  <2>2. Cardinality(1..r) = r
    BY <1>4, FS_Interval
  <2> HIDE DEF one
  <2>3. TotalOf(one) = Cardinality(1..r)
    BY <1>1, <1>4, <1>7, <2>1, TotalCounts
  <2> QED
    BY <2>2, <2>3
<1>9. TotalOf(base) = n * q
  <2>1. \A i \in 1..n : base[i] = q
    OBVIOUS
  <2> HIDE DEF base
  <2> QED
    BY <1>1, <1>2, <1>7, <2>1, TotalConstant
<1>10. \A i, j \in 1..n : raw[i] <= raw[j] + 1
  <2>1. \A i \in 1..n : raw[i] = q \/ raw[i] = q + 1
    <3>1. \A i \in 1..n : raw[i] = q + (IF i <= r THEN 1 ELSE 0)
      BY <1>3
    <3>2. q + 0 = q
      BY <1>2
    <3> QED
      BY <3>1, <3>2
  <2> QED
    BY <1>2, <2>1
<1> HIDE DEF one, base
<1>11. TotalOf(raw) = n * q + r
  <2>1. n \in Nat /\ \A i \in 1..n : raw[i] = base[i] + one[i]
    BY <1>1, <1>6
  <2>2. TotalOf(raw) = TotalOf(base) + TotalOf(one)
    BY <1>7, <2>1, TotalAdd
  <2> QED
    BY <1>8, <1>9, <2>2
<1> QED
  BY <1>2, <1>6, <1>10, <1>11

\* The exact shares of the target, rounded up or down to make up the target.
Rounded(raw, sizes, n, all, target) ==
    /\ raw \in [1..n -> Nat]
    /\ TotalOf(raw) = target
    /\ \A i \in 1..n : /\ raw[i] <= sizes[i]
                       /\ raw[i] * all < target * sizes[i] + all
                       /\ target * sizes[i] < raw[i] * all + all

\* Proportional first shares, by the largest remainder, are the exact ones rounded.
LEMMA ProportionalShares ==
    ASSUME NEW n, NEW sizes, NEW all, NEW target, Strataful(sizes, n, all, target),
           NEW raw, raw = RawShares(sizes, target, "proportional")
    PROVE  Rounded(raw, sizes, n, all, target)
<1> DEFINE down == [i \in 1..n |-> (target * sizes[i]) \div all]
           rest == [i \in 1..n |-> (target * sizes[i]) % all]
           over == target - TotalOf(down)
           Ahead(i) == {j \in 1..n : rest[j] > rest[i] \/ (rest[j] = rest[i] /\ j < i)}
           chosenFor == {i \in 1..n : Cardinality(Ahead(i)) < over}
           one == [i \in 1..n |-> IF i \in chosenFor THEN 1 ELSE 0]
           pos == {i \in 1..n : rest[i] > 0}
<1>1. /\ n \in Nat \ {0} /\ target \in Nat /\ Len(sizes) = n /\ sizes \in [1..n -> Nat]
      /\ \A i \in 1..n : sizes[i] \in Nat /\ sizes[i] > 0
      /\ all \in Nat \ {0} /\ all = TotalOf(sizes) /\ target <= all
  BY DEF Strataful
<1>2. ASSUME NEW i \in 1..n
      PROVE  /\ down[i] \in Nat /\ rest[i] \in 0..(all - 1)
             /\ target * sizes[i] = all * down[i] + rest[i]
  <2> DEFINE x == target * sizes[i]
  <2>1. x \in Nat
    BY <1>1
  <2>2. down[i] = x \div all /\ rest[i] = x % all
    OBVIOUS
  <2> HIDE DEF x
  <2>3. x \div all \in Nat /\ x % all \in 0..(all - 1) /\ x = all * (x \div all) + (x % all)
    BY <1>1, <2>1, Quotient
  <2> HIDE DEF down, rest
  <2> QED
    BY <2>2, <2>3 DEF x
<1>3. raw = [i \in 1..n |-> down[i] + (IF Cardinality(Ahead(i)) < over THEN 1 ELSE 0)]
  <2>1. raw = [i \in 1..n |-> ((target * sizes[i]) \div all)
                 + (IF Cardinality({j \in 1..n :
                         (target * sizes[j]) % all > (target * sizes[i]) % all
                         \/ ((target * sizes[j]) % all = (target * sizes[i]) % all /\ j < i)})
                       < target - TotalOf([k \in 1..n |-> (target * sizes[k]) \div all])
                    THEN 1 ELSE 0)]
    BY <1>1 DEF RawShares
  <2>2. \A i \in 1..n : Ahead(i) = {j \in 1..n :
                         (target * sizes[j]) % all > (target * sizes[i]) % all
                         \/ ((target * sizes[j]) % all = (target * sizes[i]) % all /\ j < i)}
    OBVIOUS
  <2> QED
    BY <2>1, <2>2
<1>4. down \in [1..n -> Int] /\ rest \in [1..n -> Int]
  <2>1. /\ down = [i \in 1..n |-> down[i]] /\ rest = [i \in 1..n |-> rest[i]]
    OBVIOUS
  <2> HIDE DEF down, rest
  <2>2. \A i \in 1..n : down[i] \in Int /\ rest[i] \in Int
    BY <1>1, <1>2
  <2> QED
    BY <2>1, <2>2
<1> HIDE DEF down, rest
<1>5. over \in Int /\ TotalOf(down) \in Int /\ TotalOf(rest) = all * over /\ TotalOf(rest) >= 0
  <2> DEFINE exact == [i \in 1..n |-> target * sizes[i]]
             scaled == [i \in 1..n |-> all * down[i]]
  <2>1. exact \in [1..n -> Int] /\ \A i \in 1..n : exact[i] = target * sizes[i]
    BY <1>1
  <2>2. scaled \in [1..n -> Int] /\ \A i \in 1..n : scaled[i] = all * down[i]
    BY <1>1, <1>2
  <2>3. \A i \in 1..n : exact[i] = scaled[i] + rest[i]
    BY <1>2, <2>1, <2>2
  <2> HIDE DEF exact, scaled
  <2>4. sizes \in [1..n -> Int] /\ target \in Int /\ all \in Int /\ n \in Nat
    BY <1>1
  <2>5. TotalOf(exact) = target * all
    <3>1. TotalOf(exact) = target * TotalOf(sizes)
      BY <2>1, <2>4, TotalScale
    <3> QED
      BY <1>1, <3>1
  <2>6. TotalOf(scaled) = all * TotalOf(down) /\ TotalOf(down) \in Int
    BY <1>4, <2>2, <2>4, TotalScale
  <2>7. TotalOf(exact) = TotalOf(scaled) + TotalOf(rest) /\ TotalOf(rest) \in Int
    BY <1>4, <2>1, <2>2, <2>3, <2>4, TotalAdd
  <2>8. TotalOf(rest) \in Nat
    <3>1. \A i \in 1..n : rest[i] >= 0
      BY <1>1, <1>2
    <3> QED
      BY <1>4, <2>4, <3>1, TotalCovers
  <2>9. all * over = target * all - all * TotalOf(down)
    <3> DEFINE y == TotalOf(down)
    <3>1. y \in Int /\ over = target - y
      BY <2>6
    <3> HIDE DEF y, over
    <3>2. all * (target - y) = target * all - all * y
      BY <2>4, <3>1
    <3> QED
      BY <3>1, <3>2 DEF y
  <2>10. over \in Int
    BY <1>1, <2>6
  <2> HIDE DEF over
  <2>11. all * TotalOf(down) \in Int /\ target * all \in Int
    BY <2>4, <2>6
  <2> QED
    BY <2>5, <2>6, <2>7, <2>8, <2>9, <2>10, <2>11
<1> HIDE DEF over
<1>6. /\ IsFiniteSet(pos) /\ pos \in SUBSET (1..n)
      /\ Cardinality(pos) \in Nat /\ Cardinality(pos) <= n
  <2>1. IsFiniteSet(1..n) /\ Cardinality(1..n) = n /\ pos \in SUBSET (1..n)
    BY <1>1, FS_Interval
  <2> QED
    BY <2>1, FS_Subset, FS_CardinalityType
<1>7. TotalOf(rest) <= (all - 1) * Cardinality(pos)
  <2> DEFINE ind == [i \in 1..n |-> IF i \in pos THEN 1 ELSE 0]
             most == [i \in 1..n |-> (all - 1) * ind[i]]
  <2>1. ind \in [1..n -> Int] /\ \A i \in 1..n : ind[i] = IF i \in pos THEN 1 ELSE 0
    OBVIOUS
  <2>2. \A i \in 1..n : (i \in pos => (all - 1) * ind[i] = all - 1)
                     /\ (i \notin pos => (all - 1) * ind[i] = 0)
    BY <1>1, <2>1
  <2>3. most \in [1..n -> Int] /\ \A i \in 1..n : most[i] = (all - 1) * ind[i]
    BY <1>1, <2>1
  <2>4. \A i \in 1..n : rest[i] <= most[i]
    <3> SUFFICES ASSUME NEW i \in 1..n PROVE rest[i] <= most[i]
      OBVIOUS
    <3>1. rest[i] \in 0..(all - 1) /\ (i \notin pos => rest[i] <= 0)
      BY <1>2
    <3> HIDE DEF most, ind, pos
    <3> QED
      BY <1>1, <2>2, <2>3, <3>1
  <2> HIDE DEF ind, most
  <2>5. TotalOf(ind) = Cardinality(pos)
    BY <1>1, <1>6, <2>1, TotalCounts
  <2>6. all - 1 \in Int /\ n \in Nat
    BY <1>1
  <2>7. TotalOf(most) = (all - 1) * TotalOf(ind)
    BY <2>1, <2>3, <2>6, TotalScale
  <2>8. TotalOf(rest) <= TotalOf(most)
    BY <1>4, <2>3, <2>4, <2>6, TotalWithin
  <2> QED
    BY <2>5, <2>7, <2>8
<1>8. over >= 0 /\ (over > 0 => over < Cardinality(pos)) /\ over <= n
  <2> DEFINE p == Cardinality(pos)
  <2>1. p \in Nat /\ p <= n /\ all * over <= (all - 1) * p /\ all * over >= 0
    BY <1>5, <1>6, <1>7
  <2> HIDE DEF p
  <2>2. over >= 0
    <3> SUFFICES ASSUME over <= -1 PROVE FALSE
      BY <1>5
    <3>1. all * over <= -all
      BY <1>1, <1>5
    <3> QED
      BY <1>1, <1>5, <2>1, <3>1
  <2>3. over > 0 => over < p
    <3> SUFFICES ASSUME over > 0, p <= over PROVE FALSE
      BY <1>5, <2>1
    <3>1. (all - 1) * p <= (all - 1) * over
      <4>1. all - 1 \in Nat /\ over \in Nat
        BY <1>1, <1>5
      <4> QED
        BY <2>1, <4>1, ProductWithin
    <3>2. (all - 1) * over = all * over - over
      BY <1>1, <1>5
    <3>3. all * over \in Int /\ (all - 1) * p \in Int
      BY <1>1, <1>5, <2>1
    <3> QED
      BY <1>5, <2>1, <3>1, <3>2, <3>3
  <2> QED
    BY <1>1, <1>5, <2>1, <2>2, <2>3 DEF p
<1>9. Cardinality(chosenFor) = over /\ chosenFor \in SUBSET (1..n)
  <2> DEFINE R == {p \in (1..n) \X (1..n) :
                     rest[p[1]] > rest[p[2]] \/ (rest[p[1]] = rest[p[2]] /\ p[1] < p[2])}
             S == 1..n
  <2>1. IsFiniteSet(S) /\ Cardinality(S) = n
    BY <1>1, FS_Interval
  <2>2. StrictOrder(R, S)
    <3>1. \A i \in S : rest[i] \in Int /\ i \in Int
      BY <1>4
    <3>2. \A i, j \in S : <<i, j>> \in R <=> rest[i] > rest[j] \/ (rest[i] = rest[j] /\ i < j)
      OBVIOUS
    <3> HIDE DEF R, S
    <3>3. \A i, j \in S : i # j => <<i, j>> \in R \/ <<j, i>> \in R
      BY <3>1, <3>2
    <3>4. \A i, j, k \in S : <<i, j>> \in R /\ <<j, k>> \in R => <<i, k>> \in R
      BY <3>1, <3>2
    <3>5. \A i \in S : <<i, i>> \notin R
      BY <3>1, <3>2
    <3> QED
      BY <3>3, <3>4, <3>5 DEF StrictOrder
  <2>3. \A i \in S : RankOf(R, S)[i] = Cardinality(Ahead(i))
    <3> SUFFICES ASSUME NEW i \in S PROVE RankOf(R, S)[i] = Cardinality(Ahead(i))
      OBVIOUS
    <3>1. {j \in S : <<j, i>> \in R} = Ahead(i)
      OBVIOUS
    <3> QED
      BY <3>1 DEF RankOf
  <2>4. \A i \in S : Cardinality(Ahead(i)) \in Nat
    <3> SUFFICES ASSUME NEW i \in S PROVE Cardinality(Ahead(i)) \in Nat
      OBVIOUS
    <3>1. Ahead(i) \in SUBSET S
      OBVIOUS
    <3> QED
      BY <2>1, <3>1, FS_Subset, FS_CardinalityType
  <2> HIDE DEF R, Ahead
  <2>5. chosenFor = {i \in S : 0 <= RankOf(R, S)[i] /\ RankOf(R, S)[i] < over}
    BY <2>3, <2>4
  <2>6. over \in Nat /\ 0 <= over /\ over <= Cardinality(S)
    BY <1>5, <1>8, <2>1
  <2> HIDE DEF S
  <2>7. Cardinality({i \in S : 0 <= RankOf(R, S)[i] /\ RankOf(R, S)[i] < over}) = over - 0
    BY <2>1, <2>2, <2>6, RankedBetween
  <2>8. over - 0 = over
    BY <2>6
  <2> QED
    BY <2>5, <2>7, <2>8
<1>10. ASSUME NEW i \in chosenFor PROVE rest[i] > 0
  <2> SUFFICES ASSUME rest[i] = 0 PROVE FALSE
    BY <1>1, <1>2
  <2>1. pos \subseteq Ahead(i) /\ Ahead(i) \in SUBSET (1..n)
    OBVIOUS
  <2>2. IsFiniteSet(1..n)
    BY <1>1, FS_Interval
  <2>3. IsFiniteSet(Ahead(i))
    BY <2>1, <2>2, FS_Subset
  <2>4. Cardinality(pos) <= Cardinality(Ahead(i)) /\ Cardinality(Ahead(i)) \in Nat
    BY <2>1, <2>3, FS_Subset, FS_CardinalityType
  <2>5. Cardinality(Ahead(i)) < over
    OBVIOUS
  <2> HIDE DEF pos, Ahead
  <2> QED
    BY <1>5, <1>6, <1>8, <2>4, <2>5
<1>11. one \in [1..n -> Int] /\ \A i \in 1..n : one[i] = IF i \in chosenFor THEN 1 ELSE 0
  <2> HIDE DEF chosenFor
  <2> QED
    OBVIOUS
<1>12. \A i \in 1..n : raw[i] = down[i] + one[i]
  BY <1>3
<1>13. raw = [i \in 1..n |-> raw[i]]
  BY <1>3
<1> HIDE DEF one, chosenFor
<1>14. raw \in [1..n -> Nat]
  <2>1. \A i \in 1..n : raw[i] \in Nat
    BY <1>2, <1>11, <1>12
  <2> QED
    BY <1>13, <2>1
<1>15. TotalOf(raw) = target
  <2>1. n \in Nat /\ raw \in [1..n -> Int]
    BY <1>1, <1>14
  <2>2. TotalOf(one) = over
    BY <1>9, <1>11, <2>1, TotalCounts
  <2>3. TotalOf(raw) = TotalOf(down) + TotalOf(one)
    <3>1. down \in [1..n -> Int] /\ one \in [1..n -> Int]
      BY <1>4, <1>11
    <3> QED
      BY <1>12, <2>1, <3>1, TotalAdd
  <2> QED
    BY <1>1, <1>5, <2>2, <2>3 DEF over
<1>16. ASSUME NEW i \in 1..n
       PROVE  /\ raw[i] <= sizes[i]
              /\ raw[i] * all < target * sizes[i] + all
              /\ target * sizes[i] < raw[i] * all + all
  <2> DEFINE d == down[i]
             e == rest[i]
             z == sizes[i]
             w == raw[i]
  <2>1. /\ d \in Nat /\ e \in 0..(all - 1) /\ target * z = all * d + e
        /\ z \in Nat /\ w \in Nat
    BY <1>1, <1>2, <1>14
  <2>2. w = d \/ (w = d + 1 /\ e > 0)
    <3>1. w = d + one[i] /\ one[i] = IF i \in chosenFor THEN 1 ELSE 0
      BY <1>11, <1>12
    <3>2. i \in chosenFor => e > 0
      BY <1>10
    <3> HIDE DEF d, e, w
    <3> QED
      BY <2>1, <3>1, <3>2
  <2> HIDE DEF d, e, z, w
  <2>3. w <= z /\ w * all < target * z + all /\ target * z < w * all + all
    BY <1>1, <2>1, <2>2, Rounding
  <2> QED
    BY <2>3 DEF z, w
<1> QED
  BY <1>14, <1>15, <1>16 DEF Rounded

\* How often stratum i has had its turn after t turns.
Visits(n, i, t) == (t \div n) + (IF i <= t % n THEN 1 ELSE 0)

\* Each turn is of one stratum, and no stratum is two turns ahead of another.
LEMMA VisitsCount ==
    ASSUME NEW n \in Nat \ {0}, NEW t \in Nat, NEW i \in 1..n
    PROVE  /\ Visits(n, i, t) \in Nat /\ Visits(n, i, 0) = 0
           /\ \A j \in 1..n : Visits(n, j, t) <= Visits(n, i, t) + 1
           /\ Visits(n, i, t + 1) = Visits(n, i, t) + (IF i = (t % n) + 1 THEN 1 ELSE 0)
<1> DEFINE q == t \div n
           r == t % n
<1>1. q \in Nat /\ r \in 0..(n - 1) /\ t = n * q + r
  BY Quotient
<1>2. Visits(n, i, t) = q + (IF i <= r THEN 1 ELSE 0)
      /\ \A j \in 1..n : Visits(n, j, t) = q + (IF j <= r THEN 1 ELSE 0)
  BY DEF Visits
<1> HIDE DEF q, r
<1>3. Visits(n, i, 0) = 0
  <2>1. n * 0 + 0 = 0 /\ 0 \in 0..(n - 1)
    OBVIOUS
  <2>2. 0 % n = 0 /\ 0 \div n = 0
    BY <2>1, ModUnique
  <2> QED
    BY <2>2 DEF Visits
<1>4. CASE r < n - 1
  <2>1. t + 1 = n * q + (r + 1) /\ r + 1 \in 0..(n - 1)
    BY <1>1, <1>4
  <2>2. (t + 1) % n = r + 1 /\ (t + 1) \div n = q
    BY <1>1, <2>1, ModUnique
  <2>3. Visits(n, i, t + 1) = q + (IF i <= r + 1 THEN 1 ELSE 0)
    BY <2>2 DEF Visits
  <2>4. Visits(n, i, t + 1) = Visits(n, i, t) + (IF i = r + 1 THEN 1 ELSE 0)
    BY <1>1, <1>2, <2>3
  <2>5. Visits(n, i, t) \in Nat /\ \A j \in 1..n : Visits(n, j, t) <= Visits(n, i, t) + 1
    BY <1>1, <1>2
  <2> QED
    BY <1>3, <2>4, <2>5 DEF r
<1>5. CASE ~(r < n - 1)
  <2>1. r = n - 1
    BY <1>1, <1>5
  <2>2. t + 1 = n * (q + 1) + 0 /\ 0 \in 0..(n - 1) /\ q + 1 \in Int
    BY <1>1, <2>1
  <2>3. (t + 1) % n = 0 /\ (t + 1) \div n = q + 1
    BY <2>2, ModUnique
  <2>4. Visits(n, i, t + 1) = q + 1
    BY <1>1, <2>3 DEF Visits
  <2>5. Visits(n, i, t + 1) = Visits(n, i, t) + (IF i = r + 1 THEN 1 ELSE 0)
    BY <1>1, <1>2, <2>1, <2>4
  <2>6. Visits(n, i, t) \in Nat /\ \A j \in 1..n : Visits(n, j, t) <= Visits(n, i, t) + 1
    BY <1>1, <1>2
  <2> QED
    BY <1>3, <2>5, <2>6 DEF r
<1> QED
  BY <1>4, <1>5

\* After the last turn every stratum has had one more than there was missing.
LEMMA TurnsSuffice ==
    ASSUME NEW n \in Nat \ {0}, NEW m \in Nat, NEW i \in 1..n
    PROVE  Visits(n, i, m * n + n + 1) >= m + 1
<1> DEFINE t == m * n + n + 1
           q == t \div n
           r == t % n
<1>1. t \in Nat /\ t = n * (m + 1) + 1
  OBVIOUS
<1> HIDE DEF t
<1>2. q \in Nat /\ r \in 0..(n - 1) /\ t = n * q + r
  BY <1>1, Quotient
<1>3. Visits(n, i, t) = q + (IF i <= r THEN 1 ELSE 0)
  BY DEF Visits
<1> HIDE DEF q, r
<1>4. q >= m + 1
  <2> SUFFICES ASSUME q <= m PROVE FALSE
    BY <1>2
  <2>1. n * q <= n * m /\ n * q \in Int /\ n * m \in Int
    BY <1>2, ProductWithin
  <2>2. n * (m + 1) = n * m + n
    OBVIOUS
  <2> QED
    BY <1>1, <1>2, <2>1, <2>2
<1>5. Visits(n, i, t) >= m + 1
  BY <1>2, <1>3, <1>4
<1> QED
  BY <1>5 DEF t

\* While something is missing, what a stratum has given is what its turns allowed.
Filling(a, sizes, capped, total, n, t) ==
    /\ \A i \in 1..n : capped[i] <= a.shares[i] /\ a.shares[i] <= sizes[i]
    /\ TotalOf(a.shares) + a.missing = total
    /\ a.missing > 0 =>
           \A i \in 1..n : a.shares[i] = Smaller(sizes[i], capped[i] + Visits(n, i, t))
    /\ \A i, j \in 1..n : a.shares[i] < sizes[i] =>
           a.shares[j] - capped[j] <= a.shares[i] - capped[i] + 1

\* What is still missing, and the shares so far.
GivenBy(n) == [missing : Nat, shares : [1..n -> Nat]]

\* A turn keeps the types.
LEMMA GiveStays ==
    ASSUME NEW n \in Nat \ {0}, NEW sizes, Len(sizes) = n, NEW a \in GivenBy(n), NEW t \in Nat \ {0}
    PROVE  GiveInTurn(sizes, a, t) \in GivenBy(n)
<1> DEFINE i == ((t - 1) % n) + 1
<1>1. i \in 1..n
  <2>1. t - 1 \in Nat
    OBVIOUS
  <2>2. (t - 1) % n \in 0..(n - 1)
    BY <2>1, Quotient
  <2> QED
    BY <2>2
<1>2. a.missing \in Nat /\ a.shares \in [1..n -> Nat]
  BY DEF GivenBy
<1>3. GiveInTurn(sizes, a, t) =
        IF a.missing > 0 /\ a.shares[i] < sizes[i]
        THEN [missing |-> a.missing - 1, shares |-> [a.shares EXCEPT ![i] = @ + 1]]
        ELSE a
  BY DEF GiveInTurn
<1> HIDE DEF i
<1>4. [a.shares EXCEPT ![i] = @ + 1] \in [1..n -> Nat]
  BY <1>1, <1>2
<1>5. a.missing > 0 => a.missing - 1 \in Nat
  BY <1>2
<1> QED
  BY <1>3, <1>4, <1>5 DEF GivenBy

\* One who can still give has given all but a turn of what any other has.
LEMMA AtMostATurnBehind ==
    ASSUME NEW s \in Nat, NEW c \in Nat, NEW v \in Nat, NEW x, x = Smaller(s, c + v), x < s,
           NEW r \in Nat, NEW d \in Nat, NEW w \in Nat, NEW y, y = Smaller(r, d + w),
           w <= v + 1
    PROVE  y - d <= x - c + 1
<1>1. x = c + v /\ y <= d + w /\ y \in Nat
  BY DEF Smaller
<1> QED
  BY <1>1

\* A turn keeps that the shares fill up in turn.
LEMMA GiveFills ==
    ASSUME NEW n \in Nat \ {0}, NEW sizes \in [1..n -> Nat], NEW capped \in [1..n -> Nat],
           NEW total \in Nat, NEW a \in GivenBy(n), NEW t \in Nat,
           Filling(a, sizes, capped, total, n, t)
    PROVE  Filling(GiveInTurn(sizes, a, t + 1), sizes, capped, total, n, t + 1)
<1> DEFINE e == (t % n) + 1
           b == GiveInTurn(sizes, a, t + 1)
<1>1. Len(sizes) = n /\ n \in Nat /\ a.missing \in Nat /\ a.shares \in [1..n -> Nat]
  BY DEF GivenBy
<1>2. e \in 1..n
  <2>1. t % n \in 0..(n - 1)
    BY Quotient
  <2> QED
    BY <2>1
<1>3. b = IF a.missing > 0 /\ a.shares[e] < sizes[e]
          THEN [missing |-> a.missing - 1, shares |-> [a.shares EXCEPT ![e] = @ + 1]]
          ELSE a
  <2>1. (t + 1) - 1 = t
    OBVIOUS
  <2> QED
    BY <1>1, <2>1 DEF GiveInTurn
<1>4. \A i \in 1..n : /\ Visits(n, i, t) \in Nat /\ Visits(n, i, t + 1) \in Nat
                      /\ Visits(n, i, t + 1) = Visits(n, i, t) + (IF i = e THEN 1 ELSE 0)
                      /\ \A j \in 1..n : Visits(n, j, t + 1) <= Visits(n, i, t + 1) + 1
  <2>1. t + 1 \in Nat
    OBVIOUS
  <2> QED
    BY <2>1, VisitsCount
<1> HIDE DEF e, b
<1>5. CASE a.missing = 0
  <2>1. b = a
    BY <1>3, <1>5
  <2>2. Filling(a, sizes, capped, total, n, t + 1)
    <3>1. ~(a.missing > 0)
      BY <1>5
    <3>2. /\ \A i \in 1..n : capped[i] <= a.shares[i] /\ a.shares[i] <= sizes[i]
          /\ TotalOf(a.shares) + a.missing = total
          /\ \A i, j \in 1..n : a.shares[i] < sizes[i] =>
                 a.shares[j] - capped[j] <= a.shares[i] - capped[i] + 1
      BY Zenon DEF Filling
    <3> QED
      BY <3>1, <3>2, Zenon DEF Filling
  <2> QED
    BY <2>1, <2>2 DEF b
<1>6. CASE a.missing > 0
  <2>1. /\ \A i \in 1..n : a.shares[i] = Smaller(sizes[i], capped[i] + Visits(n, i, t))
        /\ \A i \in 1..n : capped[i] <= a.shares[i] /\ a.shares[i] <= sizes[i]
        /\ TotalOf(a.shares) + a.missing = total
    BY <1>6 DEF Filling
  <2>2. /\ \A i \in 1..n : i # e => b.shares[i] = a.shares[i]
        /\ b.shares[e] = IF a.shares[e] < sizes[e] THEN a.shares[e] + 1 ELSE a.shares[e]
    BY <1>1, <1>2, <1>3, <1>6
  <2>3. \A i \in 1..n : sizes[i] \in Nat /\ capped[i] \in Nat /\ a.shares[i] \in Nat
    BY <1>1
  <2>4. ASSUME NEW i \in 1..n
        PROVE  b.shares[i] = Smaller(sizes[i], capped[i] + Visits(n, i, t + 1))
    <3>1. CASE i = e
      <4>1. Visits(n, i, t + 1) = Visits(n, i, t) + 1 /\ Visits(n, i, t) \in Nat
        BY <1>4, <3>1
      <4>2. a.shares[i] = Smaller(sizes[i], capped[i] + Visits(n, i, t))
        BY <2>1
      <4>3. b.shares[i] = IF a.shares[i] < sizes[i] THEN a.shares[i] + 1 ELSE a.shares[i]
        BY <2>2, <3>1
      <4> QED
        BY <2>3, <4>1, <4>2, <4>3 DEF Smaller
    <3>2. CASE i # e
      <4>1. Visits(n, i, t + 1) = Visits(n, i, t)
        BY <1>4, <3>2
      <4> QED
        BY <2>1, <2>2, <3>2, <4>1
    <3> QED
      BY <3>1, <3>2
  <2>5. ASSUME NEW i \in 1..n PROVE capped[i] <= b.shares[i] /\ b.shares[i] <= sizes[i]
    <3>1. b.shares[i] = a.shares[i] \/ (a.shares[i] < sizes[i] /\ b.shares[i] = a.shares[i] + 1)
      BY <2>2
    <3> QED
      BY <2>1, <2>3, <3>1
  <2>6. ASSUME NEW i \in 1..n, NEW j \in 1..n, b.shares[i] < sizes[i]
        PROVE  b.shares[j] - capped[j] <= b.shares[i] - capped[i] + 1
    <3>1. /\ b.shares[i] = Smaller(sizes[i], capped[i] + Visits(n, i, t + 1))
          /\ b.shares[j] = Smaller(sizes[j], capped[j] + Visits(n, j, t + 1))
      BY <2>4
    <3>2. /\ Visits(n, i, t + 1) \in Nat /\ Visits(n, j, t + 1) \in Nat
          /\ Visits(n, j, t + 1) <= Visits(n, i, t + 1) + 1
      BY <1>4
    <3>3. /\ sizes[i] \in Nat /\ sizes[j] \in Nat /\ capped[i] \in Nat /\ capped[j] \in Nat
      BY <2>3
    <3> QED
      BY <2>6, <3>1, <3>2, <3>3, AtMostATurnBehind
  <2>7. TotalOf(b.shares) + b.missing = total
    <3>1. CASE a.shares[e] < sizes[e]
      <4> DEFINE one == [i \in 1..n |-> IF i \in {e} THEN 1 ELSE 0]
      <4>1. b.missing = a.missing - 1 /\ b.shares \in [1..n -> Int]
        BY <1>1, <1>2, <1>3, <1>6, <3>1
      <4>2. one \in [1..n -> Int] /\ \A i \in 1..n : one[i] = IF i \in {e} THEN 1 ELSE 0
        OBVIOUS
      <4>3. \A i \in 1..n : b.shares[i] = a.shares[i] + one[i]
        BY <2>2, <2>3, <3>1, <4>2
      <4>4. a.shares \in [1..n -> Int] /\ {e} \in SUBSET (1..n)
        BY <1>1, <1>2
      <4> HIDE DEF one
      <4>5. TotalOf(one) = 1
        <5>1. TotalOf(one) = Cardinality({e})
          BY <1>1, <4>2, <4>4, TotalCounts
        <5> QED
          BY <5>1, FS_Singleton
      <4> DEFINE f == a.shares
                 h == b.shares
                 x == a.missing
                 y == b.missing
      <4>6. f \in [1..n -> Int] /\ h \in [1..n -> Int] /\ n \in Nat
        BY <1>1, <4>1, <4>4
      <4>7. \A i \in 1..n : h[i] = f[i] + one[i]
        BY <4>3
      <4>9. x \in Int /\ y = x - 1 /\ TotalOf(f) + x = total
        BY <1>1, <2>1, <4>1
      <4>10. one \in [1..n -> Int]
        BY <4>2
      <4> HIDE DEF f, h, x, y
      <4>11. TotalOf(h) = TotalOf(f) + TotalOf(one) /\ TotalOf(f) \in Int
        BY <4>6, <4>7, <4>10, TotalAdd
      <4>8. TotalOf(h) + y = total
        BY <4>5, <4>9, <4>11
      <4> QED
        BY <4>8 DEF h, y
    <3>2. CASE ~(a.shares[e] < sizes[e])
      BY <1>3, <2>1, <3>2
    <3> QED
      BY <3>1, <3>2
  <2> QED
    BY <2>4, <2>5, <2>6, <2>7 DEF Filling, b
<1> QED
  BY <1>1, <1>5, <1>6

\* The T turns, one after another.
Redistributes(n, sizes, capped, m, T) ==
    \E run \in [0..T -> GivenBy(n)] :
        /\ run[0] = [missing |-> m, shares |-> capped]
        /\ \A k \in 1..T : run[k] = GiveInTurn(sizes, run[k - 1], k)
        /\ Redistribute(capped, sizes, m) = run[T].shares

\* The fold of Redistribute goes through the turns one after another.
LEMMA RedistributeGoes ==
    ASSUME NEW n \in Nat \ {0}, NEW sizes, Len(sizes) = n, NEW capped \in [1..n -> Nat],
           NEW m \in Nat, NEW T, T = m * n + n + 1
    PROVE  Redistributes(n, sizes, capped, m, T)
<1> DEFINE A == GivenBy(n)
           base == [missing |-> m, shares |-> capped]
           turns == [t \in 1..T |-> t]
           move == [p \in (1..T) \X A |-> GiveInTurn(sizes, p[2], p[1])]
           Goes(it) == it = [s \in SUBSET DOMAIN turns |->
                               IF s = {} THEN base
                               ELSE LET x == Max(s)
                                    IN  GiveInTurn(sizes, it[s \ {x}], turns[x])]
           going == CHOOSE it : Goes(it)
<1>1. /\ T \in Nat /\ DOMAIN turns = 1..T /\ \A t \in 1..T : turns[t] = t /\ t \in Nat \ {0}
      /\ base \in A
  <2>1. m * n \in Nat
    OBVIOUS
  <2> QED
    BY <2>1 DEF GivenBy
<1>2. move \in [(1..T) \X A -> A]
  <2>1. \A p \in (1..T) \X A : GiveInTurn(sizes, p[2], p[1]) \in A
    <3> SUFFICES ASSUME NEW t \in 1..T, NEW a \in A PROVE GiveInTurn(sizes, a, t) \in A
      OBVIOUS
    <3>1. t \in Nat \ {0}
      BY <1>1
    <3> QED
      BY <3>1, GiveStays
  <2> HIDE DEF A
  <2> QED
    BY <2>1
<1>3. Redistribute(capped, sizes, m) = going[1..T].shares
  BY <1>1 DEF Redistribute, FoldLeft, MapThenFoldSet
<1> HIDE DEF move, A, base, turns
<1>4. \E it : Goes(it)
  <2>1. PICK it \in [SUBSET (1..T) -> A] : FoldsOver(it, T, base, move)
    BY <1>1, <1>2, FoldExists
  <2>2. ASSUME NEW s \in SUBSET (1..T), s # {}
        PROVE  move[<<Max(s), it[s \ {Max(s)}]>>]
                 = GiveInTurn(sizes, it[s \ {Max(s)}], turns[Max(s)])
    <3>1. Max(s) \in 1..T
      BY <1>1, <2>2, LargestExists
    <3>2. it[s \ {Max(s)}] \in A
      OBVIOUS
    <3> QED
      BY <1>1, <3>1, <3>2 DEF move
  <2>3. \A s \in SUBSET (1..T) :
          it[s] = IF s = {} THEN base
                  ELSE GiveInTurn(sizes, it[s \ {Max(s)}], turns[Max(s)])
    BY <2>1, <2>2 DEF FoldsOver
  <2>4. it = [s \in SUBSET (1..T) |-> it[s]]
    BY <2>1
  <2>5. Goes(it)
    BY <1>1, <2>3, <2>4
  <2> QED
    BY <2>5
<1>5. Goes(going)
  <2> HIDE DEF Goes
  <2> QED
    BY <1>4
<1> HIDE DEF going
<1>6. going[{}] = base
  <2>1. {} \in SUBSET DOMAIN turns
    OBVIOUS
  <2> QED
    BY <1>5, <2>1
<1>7. ASSUME NEW s \in SUBSET (1..T), s # {}, going[s \ {Max(s)}] \in A
      PROVE  going[s] = move[<<Max(s), going[s \ {Max(s)}]>>]
  <2>1. Max(s) \in 1..T
    BY <1>1, <1>7, LargestExists
  <2>2. move[<<Max(s), going[s \ {Max(s)}]>>]
          = GiveInTurn(sizes, going[s \ {Max(s)}], turns[Max(s)])
    BY <1>1, <1>7, <2>1 DEF move
  <2>3. s \in SUBSET DOMAIN turns
    BY <1>1
  <2>4. going[s] = GiveInTurn(sizes, going[s \ {Max(s)}], turns[Max(s)])
    BY <1>5, <1>7, <2>3
  <2> QED
    BY <2>2, <2>4
<1>8. FoldsWithin(going, T, A, base, move)
  BY <1>6, <1>7 DEF FoldsWithin
<1>9. GoesThrough(going, T, A, base, move)
  BY <1>1, <1>2, <1>8, FoldRuns
<1>10. PICK run \in [0..T -> A] :
          /\ run[0] = base
          /\ \A k \in 1..T : run[k] = move[<<k, run[k - 1]>>]
          /\ going[1..T] = run[T]
  BY <1>9 DEF GoesThrough
<1>11. ASSUME NEW k \in 1..T PROVE run[k] = GiveInTurn(sizes, run[k - 1], k)
  <2>1. k - 1 \in 0..T /\ run[k - 1] \in A
    BY <1>1
  <2> QED
    BY <1>10, <2>1 DEF move
<1> QED
  BY <1>3, <1>10, <1>11 DEF Redistributes, A, base

\* m more have been given, one at a time in turn by those that could.
Filled(shares, sizes, capped, n, m) ==
    /\ shares \in [1..n -> Nat]
    /\ \A i \in 1..n : capped[i] <= shares[i] /\ shares[i] <= sizes[i]
    /\ TotalOf(shares) = TotalOf(capped) + m
    /\ \A i, j \in 1..n : shares[i] < sizes[i] =>
           shares[j] - capped[j] <= shares[i] - capped[i] + 1

\* What could not be given by some strata is given by the others.
LEMMA RedistributionFills ==
    ASSUME NEW n \in Nat \ {0}, NEW sizes \in [1..n -> Nat], NEW capped \in [1..n -> Nat],
           \A i \in 1..n : capped[i] <= sizes[i],
           NEW m \in Nat, TotalOf(capped) + m <= TotalOf(sizes),
           NEW shares, shares = Redistribute(capped, sizes, m)
    PROVE  Filled(shares, sizes, capped, n, m)
<1> DEFINE T == m * n + n + 1
           total == TotalOf(capped) + m
<1>1. /\ n \in Nat /\ Len(sizes) = n /\ T \in Nat
      /\ sizes \in [1..n -> Int] /\ capped \in [1..n -> Int]
  <2>1. m * n \in Nat
    OBVIOUS
  <2>2. T \in Nat
    BY <2>1
  <2>3. sizes \in [1..n -> Int] /\ capped \in [1..n -> Int]
    OBVIOUS
  <2>4. n \in Nat /\ Len(sizes) = n
    OBVIOUS
  <2> HIDE DEF T
  <2> QED
    BY <2>2, <2>3, <2>4
<1>2. TotalOf(capped) \in Nat /\ total \in Nat
  <2>1. \A i \in 1..n : capped[i] >= 0
    OBVIOUS
  <2>2. TotalOf(capped) \in Nat
    BY <1>1, <2>1, TotalCovers
  <2> QED
    BY <2>2
<1> HIDE DEF total
<1>3. PICK run \in [0..T -> GivenBy(n)] :
          /\ run[0] = [missing |-> m, shares |-> capped]
          /\ \A k \in 1..T : run[k] = GiveInTurn(sizes, run[k - 1], k)
          /\ shares = run[T].shares
  <2>1. T = m * n + n + 1
    OBVIOUS
  <2> HIDE DEF T
  <2>2. Len(sizes) = n
    BY <1>1
  <2>3. Redistributes(n, sizes, capped, m, T)
    BY <2>1, <2>2, RedistributeGoes
  <2> QED
    BY <2>3 DEF Redistributes
<1> HIDE DEF T
<1> DEFINE S == {k \in Nat : k <= T => Filling(run[k], sizes, capped, total, n, k)}
<1>4. 0 \in S
  <2>1. \A i \in 1..n : Visits(n, i, 0) = 0
    BY VisitsCount
  <2>2. run[0].missing = m /\ run[0].shares = capped
    BY <1>3
  <2>3. \A i \in 1..n : capped[i] \in Nat /\ sizes[i] \in Nat /\ capped[i] <= sizes[i]
    OBVIOUS
  <2>4. \A i \in 1..n : capped[i] = Smaller(sizes[i], capped[i] + Visits(n, i, 0))
    BY <2>1, <2>3 DEF Smaller
  <2>5. \A i, j \in 1..n : capped[j] - capped[j] <= capped[i] - capped[i] + 1
    BY <2>3
  <2> QED
    BY <2>2, <2>3, <2>4, <2>5 DEF Filling, total
<1>5. ASSUME NEW k \in Nat, k \in S PROVE k + 1 \in S
  <2> SUFFICES ASSUME k + 1 <= T PROVE Filling(run[k + 1], sizes, capped, total, n, k + 1)
    BY DEF S
  <2>1. k + 1 \in 1..T /\ (k + 1) - 1 = k /\ k \in 0..T /\ k <= T
    BY <1>1
  <2>2. Filling(run[k], sizes, capped, total, n, k)
    BY <1>5, <2>1 DEF S
  <2>3. run[k + 1] = GiveInTurn(sizes, run[k], k + 1) /\ run[k] \in GivenBy(n)
    BY <1>3, <2>1
  <2> HIDE DEF total
  <2>4. Filling(GiveInTurn(sizes, run[k], k + 1), sizes, capped, total, n, k + 1)
    BY <1>2, <2>2, <2>3, GiveFills
  <2> QED
    BY <2>3, <2>4
<1> HIDE DEF total
<1>6. Filling(run[T], sizes, capped, total, n, T)
  <2>1. T \in S
    <3> HIDE DEF S
    <3> QED
      BY <1>1, <1>4, <1>5, Inductive
  <2> QED
    BY <1>1, <2>1 DEF S
<1> DEFINE left == run[T].missing
<1>7. run[T] \in GivenBy(n) /\ shares \in [1..n -> Nat] /\ left \in Nat
  <2>1. run[T] \in GivenBy(n)
    BY <1>1
  <2> QED
    BY <1>3, <2>1 DEF GivenBy
<1>8. /\ \A i \in 1..n : capped[i] <= shares[i] /\ shares[i] <= sizes[i]
      /\ TotalOf(shares) + left = total
      /\ left > 0 => \A i \in 1..n : shares[i] = Smaller(sizes[i], capped[i] + Visits(n, i, T))
      /\ \A i, j \in 1..n : shares[i] < sizes[i] =>
             shares[j] - capped[j] <= shares[i] - capped[i] + 1
  BY <1>3, <1>6 DEF Filling
<1> HIDE DEF left, S
<1>9. shares \in [1..n -> Int] /\ \A i \in 1..n : shares[i] \in Nat /\ sizes[i] \in Nat /\ capped[i] \in Nat
  BY <1>7
<1>10. /\ TotalOf(shares) \in Int /\ TotalOf(sizes) \in Int
       /\ TotalOf(shares) - TotalOf(capped) \in Int
       /\ \A i \in 1..n : TotalOf(shares) - TotalOf(capped) >= shares[i] - capped[i]
  <2>1. shares \in [1..n -> Int] /\ sizes \in [1..n -> Int] /\ capped \in [1..n -> Int] /\ n \in Nat
    BY <1>1, <1>9
  <2>2. \A i \in 1..n : capped[i] <= shares[i]
    BY <1>8
  <2>3. \A i \in 1..n : shares[i] <= sizes[i]
    BY <1>8
  <2>4. /\ TotalOf(capped) \in Int /\ TotalOf(shares) \in Int
        /\ \A i \in 1..n : TotalOf(shares) - TotalOf(capped) >= shares[i] - capped[i]
    BY <2>1, <2>2, TotalWithin
  <2>5. TotalOf(sizes) \in Int
    BY <2>1, <2>3, TotalWithin
  <2> QED
    BY <2>4, <2>5
<1>11. left = 0
  <2> SUFFICES ASSUME left > 0 PROVE FALSE
    BY <1>7
  <2>1. ASSUME \A i \in 1..n : sizes[i] <= shares[i] PROVE FALSE
    <3>1. TotalOf(sizes) <= TotalOf(shares)
      BY <1>1, <1>9, <2>1, TotalWithin
    <3> QED
      BY <1>2, <1>7, <1>8, <1>10, <3>1 DEF total
  <2>2. PICK i \in 1..n : shares[i] < sizes[i]
    BY <1>9, <2>1
  <2>3. Visits(n, i, T) >= m + 1
    BY TurnsSuffice DEF T
  <2>4. shares[i] = capped[i] + Visits(n, i, T) /\ Visits(n, i, T) \in Nat
    <3>1. Visits(n, i, T) \in Nat
      BY <1>1, VisitsCount
    <3> QED
      BY <1>8, <1>9, <2>2, <3>1 DEF Smaller
  <2>5. TotalOf(shares) - TotalOf(capped) >= m + 1
    <3>1. shares[i] - capped[i] = Visits(n, i, T)
      BY <1>9, <2>4
    <3>2. TotalOf(shares) - TotalOf(capped) >= shares[i] - capped[i]
      BY <1>10
    <3> QED
      BY <1>10, <2>3, <2>4, <3>1, <3>2
  <2> QED
    BY <1>2, <1>7, <1>8, <1>10, <2>5 DEF total
<1>12. TotalOf(shares) = TotalOf(capped) + m
  BY <1>8, <1>10, <1>11 DEF total
<1> QED
  BY <1>7, <1>8, <1>12 DEF Filled

\* What the allocation of total to strata of the given sizes promises.
FairShares(shares, sizes, n, total, mode) ==
    LET all == TotalOf(sizes)
        asked == Smaller(total, all)
    IN  /\ shares \in [1..n -> Nat]
        /\ \A i \in 1..n : shares[i] <= sizes[i]
        /\ TotalOf(shares) = asked
        /\ mode = "proportional" =>
               \A i \in 1..n : /\ shares[i] * all < asked * sizes[i] + all
                               /\ asked * sizes[i] < shares[i] * all + all
        /\ mode = "equal" =>
               \A i, j \in 1..n : shares[i] < sizes[i] => shares[j] <= shares[i] + 2

\* Allocate is fair.
LEMMA AllocationIsFair ==
    ASSUME NEW n \in Nat \ {0}, NEW sizes \in [1..n -> Nat \ {0}], NEW total \in Nat,
           NEW mode \in {"proportional", "equal"}
    PROVE  /\ TotalOf(sizes) \in Nat \ {0}
           /\ FairShares(Allocate(sizes, total, mode), sizes, n, total, mode)
<1> DEFINE all == TotalOf(sizes)
           asked == Smaller(total, all)
           raw == RawShares(sizes, asked, mode)
           capped == [i \in 1..n |-> Smaller(raw[i], sizes[i])]
           m == asked - TotalOf(capped)
           shares == Allocate(sizes, total, mode)
<1>1. n \in Nat /\ sizes \in [1..n -> Int] /\ sizes \in [1..n -> Nat] /\ DOMAIN sizes = 1..n
      /\ \A i \in 1..n : sizes[i] \in Nat /\ sizes[i] > 0
  OBVIOUS
<1>2. all \in Nat \ {0}
  <2>1. \A i \in 1..n : sizes[i] >= 0
    BY <1>1
  <2>2. all \in Nat /\ \A i \in 1..n : all >= sizes[i]
    BY <1>1, <2>1, TotalCovers
  <2>3. 1 \in 1..n
    OBVIOUS
  <2>4. all >= sizes[1] /\ sizes[1] \in Nat /\ sizes[1] > 0
    BY <1>1, <2>2, <2>3
  <2> HIDE DEF all
  <2> QED
    BY <2>2, <2>4
<1>3. shares = Redistribute(capped, sizes, m)
  BY <1>1 DEF Allocate
<1> HIDE DEF shares
<1>4. asked \in Nat /\ asked \in 0..all /\ asked <= all
  <2> HIDE DEF all
  <2> QED
    BY <1>2 DEF Smaller
<1>5. Strataful(sizes, n, all, asked)
  BY <1>2, <1>4 DEF Strataful
<1> HIDE DEF all, asked
<1>6. /\ raw \in [1..n -> Nat]
      /\ TotalOf(raw) = asked
      /\ mode = "equal" => \A i, j \in 1..n : raw[i] <= raw[j] + 1
      /\ mode = "proportional" =>
             \A i \in 1..n : /\ raw[i] <= sizes[i]
                             /\ raw[i] * all < asked * sizes[i] + all
                             /\ asked * sizes[i] < raw[i] * all + all
  <2>1. CASE mode = "equal"
    <3>1. raw = RawShares(sizes, asked, "equal")
      BY <2>1
    <3> HIDE DEF raw
    <3>2. raw \in [1..n -> Nat] /\ TotalOf(raw) = asked /\ \A i, j \in 1..n : raw[i] <= raw[j] + 1
      BY <1>5, <3>1, EqualShares
    <3> QED
      BY <2>1, <3>2
  <2>2. CASE mode = "proportional"
    <3>1. raw = RawShares(sizes, asked, "proportional")
      BY <2>2
    <3> HIDE DEF raw
    <3>2. Rounded(raw, sizes, n, all, asked)
      BY <1>5, <3>1, ProportionalShares
    <3> QED
      BY <2>2, <3>2 DEF Rounded
  <2> QED
    BY <2>1, <2>2
<1> HIDE DEF raw
<1>7. \A i \in 1..n : /\ raw[i] \in Nat /\ capped[i] \in Nat
                      /\ capped[i] <= raw[i] /\ capped[i] <= sizes[i]
                      /\ capped[i] = raw[i] \/ capped[i] = sizes[i]
  <2> SUFFICES ASSUME NEW i \in 1..n
               PROVE  /\ raw[i] \in Nat /\ capped[i] \in Nat
                      /\ capped[i] <= raw[i] /\ capped[i] <= sizes[i]
                      /\ capped[i] = raw[i] \/ capped[i] = sizes[i]
    OBVIOUS
  <2>1. raw[i] \in Nat /\ sizes[i] \in Nat
    BY <1>1, <1>6
  <2>2. capped[i] = Smaller(raw[i], sizes[i])
    OBVIOUS
  <2> HIDE DEF capped
  <2> QED
    BY <2>1, <2>2 DEF Smaller
<1>8. capped \in [1..n -> Nat]
  <2>1. capped = [i \in 1..n |-> capped[i]]
    OBVIOUS
  <2> HIDE DEF capped
  <2> QED
    BY <1>7, <2>1
<1> HIDE DEF capped
<1>9. capped \in [1..n -> Int] /\ raw \in [1..n -> Int]
  BY <1>6, <1>8
<1>10. TotalOf(capped) \in Int /\ TotalOf(capped) <= asked
  <2>1. \A i \in 1..n : capped[i] <= raw[i]
    BY <1>7
  <2>2. TotalOf(capped) \in Int /\ TotalOf(capped) <= TotalOf(raw)
    BY <1>1, <1>9, <2>1, TotalWithin
  <2> QED
    BY <1>6, <2>2
<1>11. m \in Nat /\ TotalOf(capped) + m = asked
  BY <1>4, <1>10
<1> HIDE DEF m
<1>12. /\ shares \in [1..n -> Nat]
       /\ \A i \in 1..n : capped[i] <= shares[i] /\ shares[i] <= sizes[i]
       /\ TotalOf(shares) = TotalOf(capped) + m
       /\ \A i, j \in 1..n : shares[i] < sizes[i] =>
              shares[j] - capped[j] <= shares[i] - capped[i] + 1
  <2>1. TotalOf(capped) + m <= TotalOf(sizes)
    BY <1>2, <1>4, <1>11 DEF all
  <2>2. \A i \in 1..n : capped[i] <= sizes[i]
    BY <1>7
  <2>3. Filled(shares, sizes, capped, n, m)
    BY <1>1, <1>3, <1>8, <1>11, <2>1, <2>2, RedistributionFills
  <2> QED
    BY <2>3 DEF Filled
<1>13. \A i \in 1..n : shares[i] \in Nat
  BY <1>12
<1>14. ASSUME mode = "proportional", NEW i \in 1..n
       PROVE  /\ shares[i] * all < asked * sizes[i] + all
              /\ asked * sizes[i] < shares[i] * all + all
  <2>1. \A j \in 1..n : raw[j] <= capped[j]
    <3> SUFFICES ASSUME NEW j \in 1..n PROVE raw[j] <= capped[j]
      OBVIOUS
    <3>1. raw[j] <= sizes[j]
      BY <1>6, <1>14
    <3> QED
      BY <1>1, <1>7, <3>1
  <2>2. TotalOf(raw) <= TotalOf(capped)
    BY <1>1, <1>9, <2>1, TotalWithin
  <2>3. TotalOf(shares) <= TotalOf(capped)
    BY <1>6, <1>10, <1>11, <1>12, <2>2
  <2>4. \A j \in 1..n : capped[j] <= shares[j]
    BY <1>12
  <2>5. shares \in [1..n -> Int]
    BY <1>12
  <2>6. TotalOf(shares) \in Int /\ TotalOf(shares) - TotalOf(capped) >= shares[i] - capped[i]
    BY <1>1, <1>9, <2>4, <2>5, TotalWithin
  <2>7. shares[i] = raw[i]
    <3> DEFINE a == shares[i]
               b == capped[i]
               A == TotalOf(shares)
               B == TotalOf(capped)
    <3>0. a \in Int /\ b \in Int /\ A \in Int /\ B \in Int /\ A <= B /\ A - B >= a - b
      BY <1>7, <1>10, <1>13, <2>3, <2>6
    <3> HIDE DEF a, b, A, B
    <3>0a. a <= b
      BY <3>0
    <3>1. shares[i] <= capped[i]
      BY <3>0a DEF a, b
    <3> QED
      BY <1>7, <1>12, <1>13, <2>1, <3>1
  <2> QED
    BY <1>6, <1>14, <2>7
<1>15. ASSUME mode = "equal", NEW i \in 1..n, NEW j \in 1..n, shares[i] < sizes[i]
       PROVE  shares[j] <= shares[i] + 2
  <2>1. shares[j] - capped[j] <= shares[i] - capped[i] + 1 /\ raw[j] <= raw[i] + 1
        /\ capped[i] <= shares[i]
    BY <1>6, <1>12, <1>15
  <2>2. capped[i] = raw[i]
    BY <1>1, <1>7, <1>13, <1>15, <2>1
  <2>3. /\ shares[i] \in Nat /\ shares[j] \in Nat /\ raw[i] \in Nat /\ raw[j] \in Nat
        /\ capped[j] \in Nat /\ capped[j] <= raw[j]
    BY <1>7, <1>13
  <2> DEFINE a == shares[i]
             b == shares[j]
             c == raw[i]
             d == raw[j]
             e == capped[j]
  <2>4. /\ a \in Nat /\ b \in Nat /\ c \in Nat /\ d \in Nat /\ e \in Nat
        /\ e <= d /\ d <= c + 1 /\ b - e <= a - c + 1
    BY <2>1, <2>2, <2>3
  <2> HIDE DEF a, b, c, d, e
  <2>5. b <= a + 2
    BY <2>4
  <2> QED
    BY <2>5 DEF a, b
<1>16. TotalOf(shares) = asked /\ \A i \in 1..n : shares[i] <= sizes[i]
  BY <1>11, <1>12
<1> QED
  BY <1>2, <1>12, <1>14, <1>15, <1>16 DEF FairShares, all, asked, shares

-----------------------------------------------------------------------------
\* The sizes of the strata of A, where at[x] is the stratum of x.
Counted(sizes, n, keys, A, at) ==
    /\ IsFiniteSet(A) /\ n \in Nat /\ sizes \in [1..n -> Int]
    /\ \A i, j \in 1..n : keys[i] = keys[j] => i = j
    /\ \A x \in A : \E i \in 1..n : keys[i] = at[x]
    /\ \A i \in 1..n : sizes[i] = Cardinality({x \in A : at[x] = keys[i]})

\* They add up to all of A.
LEMMA StrataCover ==
    ASSUME NEW A, NEW n, NEW keys, NEW at, NEW sizes, Counted(sizes, n, keys, A, at)
    PROVE  TotalOf(sizes) = Cardinality(A)
<1>0. /\ IsFiniteSet(A) /\ n \in Nat /\ sizes \in [1..n -> Int]
      /\ \A i, j \in 1..n : keys[i] = keys[j] => i = j
      /\ \A x \in A : \E i \in 1..n : keys[i] = at[x]
      /\ \A i \in 1..n : sizes[i] = Cardinality({x \in A : at[x] = keys[i]})
  BY DEF Counted
<1> DEFINE Upto(k) == {x \in A : \E i \in 1..k : keys[i] = at[x]}
           Only(k) == {x \in A : at[x] = keys[k]}
           run == [k \in 0..n |-> Cardinality(Upto(k))]
<1>1. \A k \in 0..n : IsFiniteSet(Upto(k)) /\ Cardinality(Upto(k)) \in Nat
  <2> SUFFICES ASSUME NEW k \in 0..n PROVE IsFiniteSet(Upto(k)) /\ Cardinality(Upto(k)) \in Nat
    OBVIOUS
  <2>1. Upto(k) \in SUBSET A
    OBVIOUS
  <2> HIDE DEF Upto
  <2> QED
    BY <1>0, <2>1, FS_Subset, FS_CardinalityType
<1>2. Upto(0) = {} /\ Upto(n) = A
  <2>1. 1..0 = {}
    OBVIOUS
  <2> QED
    BY <1>0, <2>1
<1>3. ASSUME NEW k \in 1..n
      PROVE  Cardinality(Upto(k)) = Cardinality(Upto(k - 1)) + sizes[k]
  <2>1. k - 1 \in 0..n /\ 1..k = 1..(k - 1) \cup {k}
    BY <1>0
  <2>2. Upto(k) = Upto(k - 1) \cup Only(k)
    BY <2>1
  <2>3. Upto(k - 1) \cap Only(k) = {}
    <3>1. \A i \in 1..(k - 1) : i \in 1..n /\ i # k
      BY <1>0
    <3> QED
      BY <1>0, <3>1
  <2>4. Only(k) \in SUBSET A
    OBVIOUS
  <2>5. sizes[k] = Cardinality(Only(k))
    BY <1>0
  <2> HIDE DEF Upto, Only
  <2>6. IsFiniteSet(Only(k)) /\ Cardinality(Only(k)) \in Nat
    BY <1>0, <2>4, FS_Subset, FS_CardinalityType
  <2>7. IsFiniteSet(Upto(k - 1)) /\ Cardinality(Upto(k - 1)) \in Nat
    BY <1>1, <2>1
  <2>8. Cardinality(Upto(k)) = Cardinality(Upto(k - 1)) + Cardinality(Only(k)) - Cardinality({})
    BY <2>2, <2>3, <2>6, <2>7, FS_Union
  <2> QED
    BY <2>5, <2>6, <2>7, <2>8, FS_EmptySet
<1> HIDE DEF Upto
<1>4. Sums(run, sizes, n)
  <2>1. run \in [0..n -> Int]
    BY <1>1
  <2>0. Cardinality(Upto(0)) = 0
    <3>1. Upto(0) = {}
      BY <1>2
    <3>2. Cardinality({}) = 0
      BY FS_EmptySet
    <3> QED
      BY <3>1, <3>2
  <2>0a. 0 \in 0..n
    BY <1>0
  <2>2. run[0] = 0
    BY <2>0, <2>0a
  <2>3. \A k \in 1..n : k - 1 \in 0..n /\ k \in 0..n
    BY <1>0
  <2> QED
    BY <1>3, <2>1, <2>2, <2>3 DEF Sums
<1>5. TotalOf(sizes) = run[n]
  <2> HIDE DEF run
  <2> QED
    BY <1>0, <1>4, TotalIs
<1> QED
  BY <1>0, <1>2, <1>5

\* Shares laid out over all the strata: the others have none.
LEMMA SharesSpread ==
    ASSUME NEW n \in Nat, NEW m \in Nat, NEW keys \in [1..n -> 1..m],
           \A i, j \in 1..n : i < j => keys[i] < keys[j],
           NEW shares \in [1..n -> Int], NEW spread \in [1..m -> Int],
           \A i \in 1..n : spread[keys[i]] = shares[i],
           \A s \in 1..m : (\A i \in 1..n : keys[i] # s) => spread[s] = 0
    PROVE  TotalOf(spread) = TotalOf(shares)
<1>1. PICK r : Sums(r, shares, n) /\ TotalOf(shares) = r[n]
  BY TotalRuns
<1> DEFINE Upto(s) == {i \in 1..n : keys[i] <= s}
           c(s) == Cardinality(Upto(s))
           run == [s \in 0..m |-> r[c(s)]]
<1>2. \A i \in 1..n : keys[i] \in 1..m /\ keys[i] \in Int
  OBVIOUS
<1>3. \A k \in 0..n : Cardinality(1..k) = k
  <2> SUFFICES ASSUME NEW k \in 0..n PROVE Cardinality(1..k) = k
    OBVIOUS
  <2>1. 1 \in Int /\ k \in Int /\ (1 > k <=> k = 0)
    OBVIOUS
  <2> QED
    BY <2>1, FS_Interval
<1>4. \A s \in 0..m : c(s) \in 0..n
  <2> SUFFICES ASSUME NEW s \in 0..m PROVE c(s) \in 0..n
    OBVIOUS
  <2>1. Upto(s) \in SUBSET (1..n) /\ IsFiniteSet(1..n) /\ Cardinality(1..n) = n
    BY <1>3, FS_Interval
  <2> HIDE DEF Upto
  <2>2. c(s) \in Nat /\ c(s) <= n
    BY <2>1, FS_Subset, FS_CardinalityType
  <2> QED
    BY <2>2
<1>5. c(0) = 0
  <2>1. Upto(0) = {}
    BY <1>2
  <2> HIDE DEF Upto
  <2> QED
    BY <2>1, FS_EmptySet
<1>6. c(m) = n
  <2>1. Upto(m) = 1..n
    BY <1>2
  <2> HIDE DEF Upto
  <2> QED
    BY <1>3, <2>1
<1>7. ASSUME NEW s \in 1..m PROVE run[s] = run[s - 1] + spread[s]
  <2>1. s - 1 \in 0..m /\ s \in 0..m /\ s \in Int
    OBVIOUS
  <2>2. CASE \A i \in 1..n : keys[i] # s
    <3>1. Upto(s) = Upto(s - 1)
      BY <1>2, <2>1, <2>2
    <3>2. spread[s] = 0
      BY <2>2
    <3>3. run[s] = run[s - 1]
      BY <2>1, <3>1
    <3>4. run[s - 1] \in Int
      BY <1>1, <1>4, <2>1 DEF Sums
    <3> HIDE DEF run
    <3> QED
      BY <3>2, <3>3, <3>4
  <2>3. CASE \E i \in 1..n : keys[i] = s
    <3>1. PICK k \in 1..n : keys[k] = s
      BY <2>3
    <3>2. \A i \in 1..n : (i < k <=> keys[i] < s) /\ (i <= k <=> keys[i] <= s)
      <4> SUFFICES ASSUME NEW i \in 1..n
                   PROVE  (i < k <=> keys[i] < s) /\ (i <= k <=> keys[i] <= s)
        OBVIOUS
      <4>1. i < k \/ i = k \/ k < i
        OBVIOUS
      <4>2. (i < k => keys[i] < s) /\ (k < i => s < keys[i]) /\ (i = k => keys[i] = s)
        BY <3>1
      <4>3. keys[i] \in Int
        BY <1>2
      <4> QED
        BY <2>1, <4>1, <4>2, <4>3
    <3>3. Upto(s) = 1..k
      BY <3>2
    <3>4. Upto(s - 1) = 1..(k - 1)
      BY <1>2, <2>1, <3>2
    <3>5. k \in 0..n /\ k - 1 \in 0..n
      OBVIOUS
    <3>6. c(s) = k /\ c(s - 1) = k - 1
      BY <1>3, <3>3, <3>4, <3>5
    <3>7. spread[s] = shares[k] /\ r[k] = r[k - 1] + shares[k]
      BY <1>1, <3>1 DEF Sums
    <3> HIDE DEF c
    <3> QED
      BY <2>1, <3>6, <3>7
  <2> QED
    BY <2>2, <2>3
<1> HIDE DEF c
<1>8. Sums(run, spread, m)
  <2>1. run \in [0..m -> Int]
    BY <1>1, <1>4 DEF Sums
  <2>2. run[0] = 0
    BY <1>1, <1>5 DEF Sums
  <2> HIDE DEF run
  <2> QED
    BY <1>7, <2>1, <2>2 DEF Sums
<1>9. TotalOf(spread) = run[m]
  <2> HIDE DEF run
  <2> QED
    BY <1>8, TotalIs
<1> QED
  BY <1>1, <1>6, <1>9

\* The atoms of stratum s.
Within(A, at, s) == {x \in A : at[x] = s}

\* The strata that have atoms, in order.
Keyed(keys, n, A, at) ==
    /\ n \in Nat \ {0}
    /\ keys \in [1..n -> Strata]
    /\ Range(keys) = {keys[i] : i \in 1..n}
    /\ \A i, j \in 1..n : i < j => keys[i] < keys[j]
    /\ \A i, j \in 1..n : keys[i] = keys[j] => i = j
    /\ \A i \in 1..n : Within(A, at, keys[i]) # {}
    /\ \A s \in Strata : Within(A, at, s) # {} => \E i \in 1..n : keys[i] = s

\* at gives each of the atoms of A, of which there are some, its stratum.
Placed(A, at) == IsFiniteSet(A) /\ A # {} /\ at \in [A -> Strata]

\* Their list, as StartRound makes it.
KeysOf(A, at) == Ascending({s \in Strata : Within(A, at, s) # {}})

\* It lists them all, each once, in order.
LEMMA StrataKeyed ==
    ASSUME NEW A, NEW at, Placed(A, at)
    PROVE  \E n : Keyed(KeysOf(A, at), n, A, at) /\ DOMAIN KeysOf(A, at) = 1..n
<1>0. IsFiniteSet(A) /\ A # {} /\ at \in [A -> Strata]
  BY DEF Placed
<1> DEFINE K == {s \in Strata : Within(A, at, s) # {}}
           n == Cardinality(K)
           keys == KeysOf(A, at)
<1>1. StratumCount \in Nat /\ Strata = 1..StratumCount /\ Strata \in SUBSET Int
  BY SamplingAssumption DEF Strata
<1>2. IsFiniteSet(K) /\ K \in SUBSET Int /\ K \in SUBSET Strata
  <2>1. IsFiniteSet(Strata)
    BY <1>1, FS_Interval
  <2>2. K \in SUBSET Strata
    OBVIOUS
  <2> HIDE DEF K
  <2> QED
    BY <1>1, <2>1, <2>2, FS_Subset
<1>3. K # {}
  <2>1. PICK x \in A : TRUE
    BY <1>0
  <2>2. at[x] \in Strata /\ x \in Within(A, at, at[x])
    BY <1>0 DEF Within
  <2> QED
    BY <2>2
<1>4. keys = Ascending(K)
  BY DEF KeysOf
<1>5. \A s \in Strata : s \in K <=> Within(A, at, s) # {}
  OBVIOUS
<1> HIDE DEF K, keys
<1>6. n \in Nat \ {0}
  BY <1>2, <1>3, FS_CardinalityType, FS_EmptySet
<1>7. /\ keys \in Bijection(1..n, K)
      /\ \A i, j \in 1..n : i < j => keys[i] < keys[j]
  BY <1>2, <1>4, AscendingLists
<1> HIDE DEF n
<1>8. /\ keys \in [1..n -> K] /\ DOMAIN keys = 1..n
      /\ \A i \in 1..n : keys[i] \in K
      /\ \A i, j \in 1..n : keys[i] = keys[j] => i = j
      /\ \A s \in K : \E i \in 1..n : keys[i] = s
  BY <1>7 DEF Bijection, Injection, Surjection, IsInjective
<1>9. keys \in [1..n -> Strata]
  BY <1>2, <1>8
<1>10. Range(keys) = {keys[i] : i \in 1..n}
  BY <1>8 DEF Range
<1> QED
  BY <1>2, <1>5, <1>6, <1>7, <1>8, <1>9, <1>10 DEF Keyed, keys

\* The shares of the strata with atoms, laid out over all of them.
Laid(t, keys, shares) ==
    t = [s \in Strata |-> IF s \in Range(keys)
                          THEN shares[CHOOSE i \in DOMAIN keys : keys[i] = s] ELSE 0]

\* Nothing of the shares is lost in this.
Whole(t, keys, n, shares) ==
    /\ t \in [Strata -> Nat]
    /\ \A i \in 1..n : t[keys[i]] = shares[i]
    /\ \A s \in Strata : (\A i \in 1..n : keys[i] # s) => t[s] = 0
    /\ TotalOf(t) = TotalOf(shares)

\* Laying out the shares keeps them, and their total.
LEMMA LaidOut ==
    ASSUME NEW A, NEW at, NEW n, NEW keys, Keyed(keys, n, A, at),
           NEW shares, shares \in [1..n -> Nat], NEW t, Laid(t, keys, shares)
    PROVE  Whole(t, keys, n, shares)
<1>1. /\ n \in Nat \ {0} /\ n \in Nat
      /\ keys \in [1..n -> Strata]
      /\ Range(keys) = {keys[i] : i \in 1..n}
      /\ \A i, j \in 1..n : i < j => keys[i] < keys[j]
      /\ \A i, j \in 1..n : keys[i] = keys[j] => i = j
  BY DEF Keyed
<1>2. \A i \in 1..n : keys[i] \in Strata /\ keys[i] \in Range(keys) /\ shares[i] \in Nat
  BY <1>1
<1>3. t = [s \in Strata |-> IF s \in Range(keys)
                            THEN shares[CHOOSE i \in DOMAIN keys : keys[i] = s] ELSE 0]
  BY DEF Laid
<1>4. ASSUME NEW i \in 1..n PROVE t[keys[i]] = shares[i]
  <2>1. (CHOOSE j \in DOMAIN keys : keys[j] = keys[i]) = i
    BY <1>1
  <2> QED
    BY <1>2, <1>3, <2>1
<1>5. ASSUME NEW s \in Strata, \A i \in 1..n : keys[i] # s PROVE t[s] = 0
  <2>1. s \notin Range(keys)
    BY <1>1, <1>5
  <2> QED
    BY <1>3, <2>1
<1>6. t \in [Strata -> Nat]
  <2>1. \A s \in Strata : t[s] \in Nat
    <3> SUFFICES ASSUME NEW s \in Strata PROVE t[s] \in Nat
      OBVIOUS
    <3>1. CASE \A i \in 1..n : keys[i] # s
      BY <1>5, <3>1
    <3>2. CASE \E i \in 1..n : keys[i] = s
      BY <1>2, <1>4, <3>2
    <3> QED
      BY <3>1, <3>2
  <2>2. t = [s \in Strata |-> t[s]]
    BY <1>3
  <2> QED
    BY <2>1, <2>2
<1>7. TotalOf(t) = TotalOf(shares)
  <2>1. StratumCount \in Nat /\ Strata = 1..StratumCount
    BY SamplingAssumption DEF Strata
  <2> DEFINE m == StratumCount
  <2>2. /\ n \in Nat /\ m \in Nat
        /\ t \in [1..m -> Int] /\ keys \in [1..n -> 1..m] /\ shares \in [1..n -> Int]
    BY <1>1, <1>6, <2>1
  <2>3. \A i \in 1..n : t[keys[i]] = shares[i]
    BY <1>4
  <2>4. \A s \in 1..m : (\A i \in 1..n : keys[i] # s) => t[s] = 0
    BY <1>5, <2>1
  <2>5. \A i, j \in 1..n : i < j => keys[i] < keys[j]
    BY <1>1
  <2> HIDE DEF m
  <2> QED
    BY <2>2, <2>3, <2>4, <2>5, SharesSpread
<1> QED
  BY <1>4, <1>5, <1>6, <1>7 DEF Whole

\* What the targets of a sample of A promise, at giving the strata of its atoms.
FairTargets(t, A, at, total, mode) ==
    LET all == Cardinality(A)
        asked == Smaller(total, all)
        Size(s) == Cardinality(Within(A, at, s))
    IN  /\ t \in [Strata -> Nat]
        /\ TotalOf(t) = asked
        /\ \A s \in Strata : t[s] <= Size(s)
        /\ mode = "proportional" =>
               \A s \in Strata : /\ t[s] * all < asked * Size(s) + all
                                 /\ asked * Size(s) < t[s] * all + all
        /\ mode = "equal" =>
               \A s, u \in Strata : Size(u) # 0 /\ t[s] < Size(s) => t[u] <= t[s] + 2

\* The sizes of the strata that have atoms.
Sized(sizes, keys, n, A, at) ==
    sizes = [i \in 1..n |-> Cardinality(Within(A, at, keys[i]))]

\* What the sizes of the strata are, and that they are those of all the atoms.
SizesAddUp(sizes, keys, n, A, at) ==
    /\ sizes \in [1..n -> Nat \ {0}]
    /\ \A i \in 1..n : sizes[i] = Cardinality(Within(A, at, keys[i]))
    /\ TotalOf(sizes) = Cardinality(A)

\* The strata that have atoms have all of them.
LEMMA SizesCover ==
    ASSUME NEW A, NEW at, Placed(A, at), NEW n, NEW keys, Keyed(keys, n, A, at),
           NEW sizes, Sized(sizes, keys, n, A, at)
    PROVE  SizesAddUp(sizes, keys, n, A, at)
<1>0. IsFiniteSet(A) /\ at \in [A -> Strata]
      /\ sizes = [i \in 1..n |-> Cardinality(Within(A, at, keys[i]))]
  BY DEF Placed, Sized
<1>1. /\ n \in Nat
      /\ keys \in [1..n -> Strata]
      /\ \A i, j \in 1..n : keys[i] = keys[j] => i = j
      /\ \A i \in 1..n : Within(A, at, keys[i]) # {}
      /\ \A s \in Strata : Within(A, at, s) # {} => \E i \in 1..n : keys[i] = s
  BY DEF Keyed
<1>2. \A i \in 1..n : Cardinality(Within(A, at, keys[i])) \in Nat \ {0}
  <2> SUFFICES ASSUME NEW i \in 1..n
               PROVE  Cardinality(Within(A, at, keys[i])) \in Nat \ {0}
    OBVIOUS
  <2> DEFINE W == Within(A, at, keys[i])
  <2>1. W \in SUBSET A
    BY DEF Within
  <2>2. W # {}
    BY <1>1
  <2> HIDE DEF W
  <2>3. IsFiniteSet(W)
    BY <1>0, <2>1, FS_Subset
  <2>4. Cardinality(W) \in Nat /\ Cardinality(W) # 0
    BY <2>2, <2>3, FS_CardinalityType, FS_EmptySet
  <2> QED
    BY <2>4 DEF W
<1>3. /\ sizes \in [1..n -> Nat \ {0}]
      /\ \A i \in 1..n : sizes[i] = Cardinality(Within(A, at, keys[i]))
  BY <1>0, <1>2
<1>4. TotalOf(sizes) = Cardinality(A)
  <2>1. sizes \in [1..n -> Int]
    BY <1>3
  <2>2. \A x \in A : \E i \in 1..n : keys[i] = at[x]
    <3> SUFFICES ASSUME NEW x \in A PROVE \E i \in 1..n : keys[i] = at[x]
      OBVIOUS
    <3>1. at[x] \in Strata /\ x \in Within(A, at, at[x])
      BY <1>0 DEF Within
    <3> QED
      BY <1>1, <3>1
  <2>3. \A i \in 1..n : sizes[i] = Cardinality({x \in A : at[x] = keys[i]})
    BY <1>3 DEF Within
  <2>4. /\ n \in Nat
        /\ \A i, j \in 1..n : keys[i] = keys[j] => i = j
    BY <1>1
  <2>5. Counted(sizes, n, keys, A, at)
    BY <1>0, <2>1, <2>2, <2>3, <2>4 DEF Counted
  <2> QED
    BY <2>5, StrataCover
<1> QED
  BY <1>3, <1>4 DEF SizesAddUp

\* Fair shares, laid out over the strata, are fair targets.
LEMMA LaidFairly ==
    ASSUME NEW A, NEW at, Placed(A, at), NEW n, NEW keys, Keyed(keys, n, A, at),
           NEW sizes, Sized(sizes, keys, n, A, at),
           NEW total \in Nat, NEW mode \in {"proportional", "equal"},
           NEW shares, FairShares(shares, sizes, n, total, mode),
           NEW t, Laid(t, keys, shares)
    PROVE  FairTargets(t, A, at, total, mode)
<1> DEFINE Size(s) == Cardinality(Within(A, at, s))
           all == Cardinality(A)
           asked == Smaller(total, all)
<1>1. /\ \A i \in 1..n : sizes[i] = Size(keys[i])
      /\ TotalOf(sizes) = all
  BY SizesCover DEF SizesAddUp
<1>2. all \in Nat /\ all > 0 /\ asked \in Nat
  <2>1. IsFiniteSet(A) /\ A # {}
    BY DEF Placed
  <2>2. all \in Nat /\ all > 0
    BY <2>1, FS_CardinalityType, FS_EmptySet
  <2> HIDE DEF all
  <2> QED
    BY <2>2 DEF Smaller
<1>3. /\ keys \in [1..n -> Strata]
      /\ \A s \in Strata : Within(A, at, s) # {} => \E i \in 1..n : keys[i] = s
  BY DEF Keyed
<1>4. /\ shares \in [1..n -> Nat]
      /\ \A i \in 1..n : shares[i] <= sizes[i]
      /\ TotalOf(shares) = asked
      /\ mode = "proportional" =>
             \A i \in 1..n : /\ shares[i] * all < asked * sizes[i] + all
                             /\ asked * sizes[i] < shares[i] * all + all
      /\ mode = "equal" =>
             \A i, j \in 1..n : shares[i] < sizes[i] => shares[j] <= shares[i] + 2
  BY <1>1 DEF FairShares
<1>5. /\ t \in [Strata -> Nat]
      /\ \A i \in 1..n : t[keys[i]] = shares[i]
      /\ \A s \in Strata : (\A i \in 1..n : keys[i] # s) => t[s] = 0
      /\ TotalOf(t) = TotalOf(shares)
  <2>1. shares \in [1..n -> Nat]
    BY <1>4
  <2>2. Whole(t, keys, n, shares)
    BY <2>1, LaidOut
  <2> QED
    BY <2>2 DEF Whole
<1>6. \A s \in Strata : (\A i \in 1..n : keys[i] # s) => t[s] = 0 /\ Size(s) = 0
  BY <1>3, <1>5, FS_EmptySet
<1>7. \A s \in Strata : \/ t[s] = 0 /\ Size(s) = 0
                        \/ \E i \in 1..n : t[s] = shares[i] /\ Size(s) = sizes[i]
  <2> SUFFICES ASSUME NEW s \in Strata
               PROVE  \/ t[s] = 0 /\ Size(s) = 0
                      \/ \E i \in 1..n : t[s] = shares[i] /\ Size(s) = sizes[i]
    OBVIOUS
  <2>1. CASE \A i \in 1..n : keys[i] # s
    BY <1>6, <2>1
  <2>2. CASE \E i \in 1..n : keys[i] = s
    BY <1>1, <1>5, <2>2
  <2> QED
    BY <2>1, <2>2
<1> HIDE DEF Size, all, asked
<1>8. \A s \in Strata : t[s] <= Size(s)
  <2> SUFFICES ASSUME NEW s \in Strata PROVE t[s] <= Size(s)
    OBVIOUS
  <2>1. CASE t[s] = 0 /\ Size(s) = 0
    BY <2>1
  <2>2. CASE \E i \in 1..n : t[s] = shares[i] /\ Size(s) = sizes[i]
    BY <1>4, <2>2
  <2> QED
    BY <1>7, <2>1, <2>2
<1>9. ASSUME mode = "proportional", NEW s \in Strata
      PROVE  /\ t[s] * all < asked * Size(s) + all
             /\ asked * Size(s) < t[s] * all + all
  <2>1. CASE t[s] = 0 /\ Size(s) = 0
    <3>2. 0 * all = 0 /\ asked * 0 = 0 /\ 0 < 0 + all
      BY <1>2
    <3> QED
      BY <2>1, <3>2
  <2>2. CASE \E i \in 1..n : t[s] = shares[i] /\ Size(s) = sizes[i]
    <3>1. PICK i \in 1..n : t[s] = shares[i] /\ Size(s) = sizes[i]
      BY <2>2
    <3> QED
      BY <1>4, <1>9, <3>1
  <2> QED
    BY <1>7, <2>1, <2>2
<1>10. ASSUME mode = "equal", NEW s \in Strata, NEW u \in Strata, Size(u) # 0, t[s] < Size(s)
       PROVE  t[u] <= t[s] + 2
  <2>1. ~(t[s] = 0 /\ Size(s) = 0)
    BY <1>10
  <2>2. PICK i \in 1..n : t[s] = shares[i] /\ Size(s) = sizes[i]
    BY <1>7, <2>1
  <2>3. PICK j \in 1..n : t[u] = shares[j]
    BY <1>7, <1>10
  <2> QED
    BY <1>4, <1>10, <2>2, <2>3
<1> QED
  BY <1>4, <1>5, <1>8, <1>9, <1>10 DEF FairTargets, asked, all, Size

\* The targets, as StartRound sets them.
Planned(t, A, at, total, mode) ==
    LET keys == KeysOf(A, at)
        sizes == [i \in DOMAIN keys |-> Cardinality(Within(A, at, keys[i]))]
        shares == Allocate(sizes, total, mode)
    IN  t = [s \in Strata |-> IF s \in Range(keys)
                              THEN shares[CHOOSE i \in DOMAIN keys : keys[i] = s] ELSE 0]

\* build_sampling_plan sets fair targets.
LEMMA TargetsAreFair ==
    ASSUME NEW A, NEW at, Placed(A, at),
           NEW total \in Nat, NEW mode \in {"proportional", "equal"},
           NEW t, Planned(t, A, at, total, mode)
    PROVE  FairTargets(t, A, at, total, mode)
<1> DEFINE keys == KeysOf(A, at)
           sizes == [i \in DOMAIN keys |-> Cardinality(Within(A, at, keys[i]))]
           shares == Allocate(sizes, total, mode)
<1>1. t = [s \in Strata |-> IF s \in Range(keys)
                            THEN shares[CHOOSE i \in DOMAIN keys : keys[i] = s] ELSE 0]
  BY DEF Planned
<1>2. PICK n : Keyed(keys, n, A, at) /\ DOMAIN keys = 1..n
  BY StrataKeyed
<1> HIDE DEF keys
<1>3. Sized(sizes, keys, n, A, at)
  BY <1>2 DEF Sized
<1>4. Laid(t, keys, shares)
  BY <1>1 DEF Laid
<1> HIDE DEF sizes
<1>5. n \in Nat \ {0}
  BY <1>2 DEF Keyed
<1>6. sizes \in [1..n -> Nat \ {0}]
  BY <1>2, <1>3, SizesCover DEF SizesAddUp
<1>7. FairShares(shares, sizes, n, total, mode)
  BY <1>5, <1>6, AllocationIsFair
<1> HIDE DEF shares
<1> QED
  BY <1>2, <1>3, <1>4, <1>7, LaidFairly

-----------------------------------------------------------------------------
(* Sampling: how a sample is drawn *)

\* The strata of the atoms.
AtStratum == [x \in atoms |-> StratumOfAtom(request, x)]

\* What was drawn from stratum s.
ChosenFrom(s) == {x \in chosen : StratumOfAtom(request, x) = s}

\* A stratum that has been drawn from gave its target, or all that the cap allows.
Met(s) ==
    \/ Cardinality(ChosenFrom(s)) = targets[s]
    \/ /\ request.level = "unit" /\ request.cap # NoCap
       /\ \A x \in atoms \ chosen : StratumOfAtom(request, x) = s =>
              Cardinality(OfDocument(request, chosen, docOf[x])) = request.cap

\* While a sample is drawn its targets are fair, the strata drawn from are met, and
\* those still to be drawn from have given nothing.
DrawingInv ==
    /\ request \in SampleRequest
    /\ atoms \subseteq (IF request.level = "unit" THEN CorpusUnits ELSE 1..DocumentCount)
    /\ Placed(atoms, AtStratum)
    /\ FairTargets(targets, atoms, AtStratum, request.size, request.mode)
    /\ undrawn \subseteq Strata
    /\ chosen \subseteq atoms
    /\ \A x \in chosen : StratumOfAtom(request, x) \notin undrawn
    /\ \A s \in Strata \ undrawn : Met(s)
    /\ request.level = "unit" /\ request.cap # NoCap =>
           \A x \in chosen : Cardinality(OfDocument(request, chosen, docOf[x])) <= request.cap

\* No document has more units in the sample than the cap.
DocumentsCapped ==
    request.cap # NoCap =>
        \A u \in sampled : Cardinality({v \in sampled : docOf[v] = docOf[u]}) <= request.cap

\* The inductive invariant of a round up to the dealing.
SampleInv ==
    /\ docOf \in [CorpusUnits -> 1..DocumentCount]
    /\ stratumOf \in [1..DocumentCount -> Strata]
    /\ step \in {"draw", "assign"} => DrawingInv
    /\ step = "assign" => undrawn = {} /\ DocumentsCapped

\* Before the first round nothing is drawn.
LEMMA SampleBegins == SamplingInit => SampleInv
<1> SUFFICES ASSUME SamplingInit PROVE SampleInv
  OBVIOUS
<1>1. docOf \in [CorpusUnits -> 1..DocumentCount] /\ stratumOf \in [1..DocumentCount -> Strata]
      /\ step = "idle"
  BY DEF SamplingInit
<1> QED
  BY <1>1 DEF SampleInv

\* A stratum of which there is no atom asks for nothing.
LEMMA NothingAsked ==
    ASSUME NEW A, NEW at, NEW s \in Strata, Within(A, at, s) = {},
           NEW t, NEW total, NEW mode, FairTargets(t, A, at, total, mode)
    PROVE  t[s] = 0
<1>1. Cardinality(Within(A, at, s)) = 0
  BY FS_EmptySet
<1>2. t \in [Strata -> Nat] /\ t[s] <= Cardinality(Within(A, at, s))
  BY DEF FairTargets
<1>3. t[s] \in Nat
  BY <1>2
<1> QED
  BY <1>1, <1>2, <1>3

\* A round starts with fair targets and nothing drawn.
LEMMA PlanStarts ==
    ASSUME SampleInv, StartRound
    PROVE  DrawingInv'
<1> DEFINE A == atoms'
           r == request'
           at == [x \in A |-> StratumOfAtom(r, x)]
           Members(s) == {x \in A : StratumOfAtom(r, x) = s}
           keys == Ascending({s \in Strata : Members(s) # {}})
           sizes == [i \in DOMAIN keys |-> Cardinality(Members(keys[i]))]
           shares == Allocate(sizes, r.size, r.mode)
<1>1. /\ docOf \in [CorpusUnits -> 1..DocumentCount]
      /\ stratumOf \in [1..DocumentCount -> Strata]
  BY DEF SampleInv
<1>2. /\ r \in SampleRequest /\ Candidates # {} /\ Candidates \in SUBSET CorpusUnits
      /\ A = IF r.level = "document" THEN {docOf[u] : u \in Candidates} ELSE Candidates
      /\ docOf' = docOf /\ stratumOf' = stratumOf /\ chosen' = {}
      /\ undrawn' = Range(keys)
      /\ targets' = [s \in Strata |-> IF s \in Range(keys)
                                      THEN shares[CHOOSE i \in DOMAIN keys : keys[i] = s] ELSE 0]
  BY DEF StartRound, Candidates
<1>3. r.level \in {"unit", "document"} /\ r.size \in Nat /\ r.mode \in {"proportional", "equal"}
  BY <1>2, SamplingAssumption DEF SampleRequest
<1> HIDE DEF A, r
<1>4. A \subseteq (IF r.level = "unit" THEN CorpusUnits ELSE 1..DocumentCount)
  BY <1>1, <1>2, <1>3
<1>5. \A x \in A : StratumOfAtom(r, x) \in Strata
  BY <1>1, <1>3, <1>4 DEF StratumOfAtom
<1>6. Placed(A, at)
  <2>1. IsFiniteSet(CorpusUnits) /\ IsFiniteSet(1..DocumentCount)
    BY SamplingAssumption, FS_Interval DEF CorpusUnits
  <2>2. A \in SUBSET CorpusUnits \/ A \in SUBSET (1..DocumentCount)
    BY <1>4
  <2>3. IsFiniteSet(A)
    BY <2>1, <2>2, FS_Subset
  <2>4. A # {}
    BY <1>2
  <2> QED
    BY <1>5, <2>3, <2>4 DEF Placed
<1>7. \A s : Members(s) = Within(A, at, s)
  BY DEF Within
<1>8. AtStratum' = at
  BY <1>2 DEF StratumOfAtom, AtStratum, A, r
<1> HIDE DEF at, Members
<1>9. keys = KeysOf(A, at)
  <2>1. {s \in Strata : Members(s) # {}} = {s \in Strata : Within(A, at, s) # {}}
    BY <1>7
  <2> QED
    BY <2>1 DEF KeysOf
<1> HIDE DEF keys
<1>10. sizes = [i \in DOMAIN keys |-> Cardinality(Within(A, at, keys[i]))]
  BY <1>7
<1> HIDE DEF sizes
<1>11. Planned(targets', A, at, r.size, r.mode)
  BY <1>2, <1>9, <1>10 DEF Planned
<1>12. FairTargets(targets', A, at, r.size, r.mode)
  BY <1>3, <1>6, <1>11, TargetsAreFair
<1>13. PICK n : Keyed(keys, n, A, at)
  BY <1>6, <1>9, StrataKeyed
<1>14. /\ undrawn' = {keys[i] : i \in 1..n} /\ undrawn' \subseteq Strata
  <2>1. keys \in [1..n -> Strata] /\ Range(keys) = {keys[i] : i \in 1..n}
    BY <1>13 DEF Keyed
  <2> QED
    BY <1>2, <2>1
<1>15. ASSUME NEW s \in Strata \ undrawn' PROVE Met(s)'
  <2>1. Within(A, at, s) = {}
    BY <1>13, <1>14 DEF Keyed
  <2>2. targets'[s] = 0
    BY <1>12, <2>1, NothingAsked
  <2>3. ChosenFrom(s)' = {}
    BY <1>2 DEF ChosenFrom
  <2>4. Cardinality(ChosenFrom(s)') = 0
    BY <2>3, FS_EmptySet
  <2> QED
    BY <2>2, <2>4 DEF Met
<1> QED
  BY <1>2, <1>4, <1>6, <1>8, <1>12, <1>14, <1>15 DEF DrawingInv, A, r

\* The next stratum is one that has not been drawn from.
LEMMA LeastStratum ==
    ASSUME NEW S \in SUBSET Strata, S # {}
    PROVE  Min(S) \in S
<1>1. S \in SUBSET Nat
  BY SamplingAssumption DEF Strata
<1>2. \E x \in S : \A y \in S : x <= y
  BY <1>1, LeastNatural
<1> QED
  BY <1>2, Zenon DEF Min

\* Drawing from a stratum meets its target, and disturbs no other: a document lies
\* in one stratum, so its cap is a matter of that stratum alone.
LEMMA DrawKeeps ==
    ASSUME SampleInv, DrawStratum
    PROVE  DrawingInv'
<1>0. PICK s : s = Min(undrawn)
  OBVIOUS
<1> DEFINE pool == {x \in atoms : StratumOfAtom(request, x) = s}
           unitwise == request.level = "unit" /\ request.cap # NoCap
<1>1. /\ docOf \in [CorpusUnits -> 1..DocumentCount]
      /\ stratumOf \in [1..DocumentCount -> Strata]
      /\ DrawingInv
  BY DEF SampleInv, DrawStratum
<1>2. /\ undrawn # {} /\ undrawn' = undrawn \ {s}
      /\ docOf' = docOf /\ stratumOf' = stratumOf /\ request' = request
      /\ atoms' = atoms /\ targets' = targets
  BY <1>0 DEF DrawStratum
<1>3. PICK C \in DrawableFrom(request, pool, targets[s]) : chosen' = chosen \cup C
  BY <1>0 DEF DrawStratum
<1>4. s \in undrawn /\ s \in Strata
  BY <1>0, <1>1, <1>2, LeastStratum DEF DrawingInv
<1>5. /\ request \in SampleRequest /\ request.level \in {"unit", "document"}
      /\ atoms \subseteq (IF request.level = "unit" THEN CorpusUnits ELSE 1..DocumentCount)
      /\ IsFiniteSet(atoms)
      /\ targets \in [Strata -> Nat]
      /\ chosen \subseteq atoms
      /\ \A x \in chosen : StratumOfAtom(request, x) \notin undrawn
  BY <1>1 DEF DrawingInv, Placed, FairTargets, SampleRequest
<1>6. /\ C \subseteq pool
      /\ unitwise =>
             /\ Cardinality(C) <= targets[s]
             /\ \A x \in C : Cardinality(OfDocument(request, C, docOf[x])) <= request.cap
             /\ Cardinality(C) < targets[s] =>
                    \A x \in pool \ C :
                        Cardinality(OfDocument(request, C, docOf[x])) = request.cap
      /\ ~unitwise => Cardinality(C) = targets[s]
  BY <1>3 DEF DrawableFrom
<1>7. Cardinality(C) \in Nat /\ targets[s] \in Nat
  <2>1. C \in SUBSET atoms
    BY <1>6
  <2> QED
    BY <1>4, <1>5, <2>1, FS_Subset, FS_CardinalityType
<1>8. \A x : StratumOfAtom(request, x)' = StratumOfAtom(request, x)
  BY <1>2 DEF StratumOfAtom
<1>9. AtStratum' = AtStratum
  BY <1>2 DEF AtStratum, StratumOfAtom
<1>10. ChosenFrom(s)' = C
  BY <1>2, <1>3, <1>4, <1>5, <1>6 DEF ChosenFrom, StratumOfAtom
<1>11. ASSUME NEW t, t # s PROVE ChosenFrom(t)' = ChosenFrom(t)
  BY <1>2, <1>3, <1>5, <1>6, <1>11 DEF ChosenFrom, StratumOfAtom
<1>12. \A x \in atoms : request.level = "unit" =>
           /\ StratumOfAtom(request, x) = stratumOf[docOf[x]]
           /\ DocumentOf(request, x) = docOf[x]
  BY DEF StratumOfAtom, DocumentOf
<1>13. ASSUME request.level = "unit", NEW x \in atoms
       PROVE  /\ x \in pool =>
                     OfDocument(request, chosen, docOf[x])' = OfDocument(request, C, docOf[x])
              /\ x \notin pool =>
                     OfDocument(request, chosen, docOf[x])'
                       = OfDocument(request, chosen, docOf[x])
  <2> DEFINE d == docOf[x]
  <2>1. OfDocument(request, chosen, d)' = {y \in chosen \cup C : docOf[y] = d}
    BY <1>2, <1>3, <1>13 DEF OfDocument, DocumentOf
  <2>2. OfDocument(request, chosen, d) = {y \in chosen : docOf[y] = d}
        /\ OfDocument(request, C, d) = {y \in C : docOf[y] = d}
    BY <1>13 DEF OfDocument, DocumentOf
  <2>3. \A y \in C : docOf[y] = d => stratumOf[d] = s
    BY <1>6, <1>12, <1>13
  <2>4. \A y \in chosen : docOf[y] = d => stratumOf[d] # s
    BY <1>4, <1>5, <1>12, <1>13
  <2>5. x \in pool <=> stratumOf[d] = s
    BY <1>12, <1>13
  <2> HIDE DEF d, pool
  <2>6. x \in pool => OfDocument(request, chosen, d)' = OfDocument(request, C, d)
    BY <2>1, <2>2, <2>4, <2>5
  <2>7. x \notin pool => OfDocument(request, chosen, d)' = OfDocument(request, chosen, d)
    BY <2>1, <2>2, <2>3, <2>5
  <2> QED
    BY <2>6, <2>7, <1>2 DEF d
<1>14. ASSUME NEW t \in Strata \ undrawn' PROVE Met(t)'
  <2>1. CASE t = s
    <3>1. CASE Cardinality(C) = targets[s]
      BY <1>2, <1>10, <2>1, <3>1 DEF Met
    <3>2. CASE Cardinality(C) # targets[s]
      <4>1. unitwise /\ Cardinality(C) < targets[s]
        BY <1>6, <1>7, <3>2
      <4>2. \A x \in pool \ C : Cardinality(OfDocument(request, C, docOf[x])) = request.cap
        BY <1>6, <4>1
      <4>3. ASSUME NEW x \in atoms' \ chosen', StratumOfAtom(request, x)' = t
            PROVE  Cardinality(OfDocument(request, chosen, docOf[x])') = request'.cap
        BY <1>2, <1>3, <1>8, <1>13, <2>1, <4>1, <4>2, <4>3
      <4> QED
        BY <1>2, <4>1, <4>3 DEF Met
    <3> QED
      BY <3>1, <3>2
  <2>2. CASE t # s
    <3>1. Met(t)
      BY <1>1, <1>2, <2>2 DEF DrawingInv
    <3>2. CASE Cardinality(ChosenFrom(t)) = targets[t]
      BY <1>2, <1>11, <2>2, <3>2 DEF Met
    <3>3. CASE Cardinality(ChosenFrom(t)) # targets[t]
      <4>1. unitwise /\ \A x \in atoms \ chosen : StratumOfAtom(request, x) = t =>
                Cardinality(OfDocument(request, chosen, docOf[x])) = request.cap
        BY <3>1, <3>3 DEF Met
      <4>2. ASSUME NEW x \in atoms' \ chosen', StratumOfAtom(request, x)' = t
            PROVE  Cardinality(OfDocument(request, chosen, docOf[x])') = request'.cap
        BY <1>2, <1>3, <1>8, <1>13, <2>2, <4>1, <4>2
      <4> QED
        BY <1>2, <4>1, <4>2 DEF Met
    <3> QED
      BY <3>2, <3>3
  <2> QED
    BY <2>1, <2>2
<1>15. ASSUME unitwise, NEW x \in chosen'
       PROVE  Cardinality(OfDocument(request, chosen, docOf[x])') <= request.cap
  <2>1. CASE x \in C
    BY <1>6, <1>13, <1>15, <2>1
  <2>2. CASE x \notin C
    <3>1. x \in chosen /\ x \in atoms /\ StratumOfAtom(request, x) # s
      BY <1>3, <1>4, <1>5, <2>2
    <3>2. Cardinality(OfDocument(request, chosen, docOf[x])) <= request.cap
      BY <1>1, <1>15, <3>1 DEF DrawingInv
    <3> QED
      BY <1>13, <1>15, <3>1, <3>2
  <2> QED
    BY <2>1, <2>2
<1>16. /\ undrawn' \subseteq Strata /\ chosen' \subseteq atoms
       /\ \A x \in chosen' : StratumOfAtom(request, x) \notin undrawn'
  BY <1>1, <1>2, <1>3, <1>4, <1>5, <1>6 DEF DrawingInv
<1>17. /\ Placed(atoms', AtStratum')
       /\ FairTargets(targets', atoms', AtStratum', request'.size, request'.mode)
  BY <1>1, <1>2, <1>9 DEF DrawingInv
<1> QED
  BY <1>2, <1>5, <1>8, <1>14, <1>15, <1>16, <1>17 DEF DrawingInv

\* However the sample is made up, no document exceeds the cap.
LEMMA DeliverCaps ==
    ASSUME SampleInv, DeliverSample
    PROVE  DocumentsCapped'
<1> SUFFICES ASSUME request'.cap # NoCap, NEW u \in sampled'
             PROVE  Cardinality({v \in sampled' : docOf'[v] = docOf'[u]}) <= request'.cap
  BY DEF DocumentsCapped
<1>1. /\ DrawingInv /\ docOf' = docOf /\ request' = request
  BY DEF SampleInv, DeliverSample
<1>2. /\ request.cap \in Nat /\ request.level \in {"unit", "document"}
  BY <1>1, SamplingAssumption DEF DrawingInv, SampleRequest
<1>3. CASE request.level = "unit"
  <2>1. sampled' = chosen
    BY <1>3 DEF DeliverSample
  <2>2. Cardinality(OfDocument(request, chosen, docOf[u])) <= request.cap
    BY <1>1, <1>3, <2>1 DEF DrawingInv
  <2>3. OfDocument(request, chosen, docOf[u]) = {v \in sampled' : docOf'[v] = docOf'[u]}
    BY <1>1, <1>3, <2>1 DEF OfDocument, DocumentOf
  <2> QED
    BY <1>1, <2>2, <2>3
<1>4. CASE request.level = "document"
  <2> DEFINE UnitsIn(d) == {v \in Candidates : docOf[v] = d}
             Most(d) == IF request.cap = NoCap THEN Cardinality(UnitsIn(d))
                        ELSE Smaller(request.cap, Cardinality(UnitsIn(d)))
  <2>1. PICK S \in SUBSET {v \in Candidates : docOf[v] \in chosen} :
            /\ \A d \in chosen : Cardinality(S \cap UnitsIn(d)) = Most(d)
            /\ sampled' = S
    BY <1>4 DEF DeliverSample
  <2> DEFINE d == docOf[u]
  <2>2. d \in chosen
    BY <2>1
  <2>3. S \cap UnitsIn(d) = {v \in sampled' : docOf'[v] = docOf'[u]}
    BY <1>1, <2>1
  <2>4. Most(d) = Smaller(request.cap, Cardinality(UnitsIn(d)))
    BY <1>1
  <2>5. Cardinality(UnitsIn(d)) \in Nat
    <3>1. IsFiniteSet(CorpusUnits) /\ UnitsIn(d) \in SUBSET CorpusUnits
      BY SamplingAssumption, FS_Interval DEF CorpusUnits, Candidates
    <3> QED
      BY <3>1, FS_Subset, FS_CardinalityType
  <2> HIDE DEF UnitsIn, d
  <2>6. Most(d) <= request.cap
    <3> HIDE DEF Most
    <3> QED
      BY <1>2, <2>4, <2>5 DEF Smaller
  <2> QED
    BY <1>1, <2>1, <2>2, <2>3, <2>6
<1> QED
  BY <1>2, <1>3, <1>4

\* Every step keeps the invariant.
LEMMA SampleKept == SampleInv /\ [SamplingNext]_samplingVars => SampleInv'
<1> SUFFICES ASSUME SampleInv, [SamplingNext]_samplingVars PROVE SampleInv'
  OBVIOUS
<1>1. CASE StartRound
  <2>1. step' = "draw" /\ docOf' = docOf /\ stratumOf' = stratumOf
    BY <1>1 DEF StartRound
  <2>2. DrawingInv'
    BY <1>1, PlanStarts
  <2> QED
    BY <2>1, <2>2 DEF SampleInv
<1>2. CASE DrawStratum
  <2>1. step' = "draw" /\ docOf' = docOf /\ stratumOf' = stratumOf
    BY <1>2 DEF DrawStratum
  <2>2. DrawingInv'
    BY <1>2, DrawKeeps
  <2> QED
    BY <2>1, <2>2 DEF SampleInv
<1>3. CASE DeliverSample
  <2>1. /\ step = "draw" /\ step' = "assign" /\ undrawn = {}
        /\ UNCHANGED <<docOf, stratumOf, request, atoms, targets, undrawn, chosen>>
    BY <1>3 DEF DeliverSample
  <2>2. DrawingInv'
    BY <2>1 DEF SampleInv, DrawingInv, AtStratum, ChosenFrom, Met, StratumOfAtom, OfDocument,
                DocumentOf
  <2>3. DocumentsCapped'
    BY <1>3, DeliverCaps
  <2> QED
    BY <2>1, <2>2, <2>3 DEF SampleInv
<1>4. CASE AssignSample
  BY <1>4 DEF AssignSample, SampleInv
<1>5. CASE UNCHANGED samplingVars
  BY <1>5 DEF SampleInv, samplingVars, DrawingInv, AtStratum, ChosenFrom, Met, StratumOfAtom,
              OfDocument, DocumentOf, DocumentsCapped
<1> QED
  BY <1>1, <1>2, <1>3, <1>4, <1>5 DEF SamplingNext

\* It says of a sample to be dealt what SampleIsFair does.
LEMMA FairSample ==
    ASSUME SampleInv
    PROVE  SampleIsFair
<1> SUFFICES ASSUME step = "assign" PROVE SampleIsFair
  BY DEF SampleIsFair
<1>1. DrawingInv /\ undrawn = {} /\ DocumentsCapped
  BY DEF SampleInv
<1>2. \A s : Cardinality(Within(atoms, AtStratum, s)) = SizeOf(s)
  <2>1. \A s : Within(atoms, AtStratum, s) = {x \in atoms : StratumOfAtom(request, x) = s}
    BY DEF Within, AtStratum
  <2> QED
    BY <2>1 DEF SizeOf
<1> DEFINE asked == Smaller(request.size, Cardinality(atoms))
           all == Cardinality(atoms)
<1>3. /\ targets \in [Strata -> Nat]
      /\ TotalOf(targets) = asked
      /\ \A s \in Strata : targets[s] <= SizeOf(s)
      /\ request.mode = "proportional" =>
             \A s \in Strata : /\ targets[s] * all < asked * SizeOf(s) + all
                               /\ asked * SizeOf(s) < targets[s] * all + all
      /\ request.mode = "equal" =>
             \A s, u \in Strata : SizeOf(u) # 0 /\ targets[s] < SizeOf(s) =>
                 targets[u] <= targets[s] + 2
  <2>1. FairTargets(targets, atoms, AtStratum, request.size, request.mode)
    BY <1>1 DEF DrawingInv
  <2> QED
    BY <1>2, <2>1 DEF FairTargets
<1>4. ASSUME NEW s \in Strata, Cardinality(ChosenFrom(s)) < targets[s],
             NEW x \in atoms \ chosen, StratumOfAtom(request, x) = s
      PROVE  Cardinality(OfDocument(request, chosen, docOf[x])) = request.cap
  <2>1. Met(s)
    BY <1>1 DEF DrawingInv
  <2>2. Cardinality(ChosenFrom(s)) # targets[s]
    BY <1>3, <1>4
  <2> QED
    BY <1>4, <2>1, <2>2 DEF Met
<1> HIDE DEF asked, all
<1> QED
  BY <1>1, <1>3, <1>4 DEF SampleIsFair, DocumentsCapped, ChosenFrom, asked, all

\* Every sample is as large as asked for unless the atoms or the cap on documents do
\* not allow it, its proportional shares are the exact ones rounded, and its equal shares
\* differ by no more than the leftover and the redistribution add.
THEOREM SamplesFair == SamplingSpec => []SampleIsFair
<1>1. SamplingSpec => []SampleInv
  BY SampleBegins, SampleKept, PTL DEF SamplingSpec
<1>2. SampleInv => SampleIsFair
  BY FairSample
<1> QED
  BY <1>1, <1>2, PTL
=============================================================================
