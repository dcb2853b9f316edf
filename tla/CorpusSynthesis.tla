---------------------------- MODULE CorpusSynthesis ----------------------------
(***************************************************************************)
(* A synthesis over the documents of a corpus (CorpusSynthesisService).    *)
(* The scope binds each document to its current revision and is hashed.  A *)
(* synthesis in the background is frozen with its scope and verifies it    *)
(* again before it starts.  The map phase retrieves from the documents in  *)
(* batches, the documents of a batch concurrently.  The reduce phase packs *)
(* the findings into prompts and has each prompt answered, level by level, *)
(* until one answer is left.                                               *)
(*                                                                         *)
(* Meanwhile documents are indexed again or deleted.  A revision's chunks  *)
(* never change.  What an answer says is data: of a finding or an answer   *)
(* only the documents it stands for and its size are kept.                 *)
(***************************************************************************)
EXTENDS Listing, SequencesExt

CONSTANTS
    CorpusSize,  \* bound: documents of the corpus
    MaxSourceChanges, \* bound: what happens to the documents meanwhile
    MapBatch,    \* synthesis_batch_size
    FanIns,      \* what the most nodes in a prompt may be set to
    Payload,     \* synthesis_reduce_token_budget without the prompt's overhead
    NodeSizes    \* bound: how many tokens a finding or an answer may have

ASSUME SynthesisAssumption ==
    /\ CorpusSize \in Nat /\ MaxSourceChanges \in Nat
    /\ MapBatch \in Nat \ {0} /\ Payload \in Nat \ {0}
    /\ FanIns \subseteq Nat \ {0} /\ NodeSizes \subseteq Nat

Documents == 1..CorpusSize

VARIABLES
    source,     \* RagDocument: status and current revision, 0 if it has none
    sourceChanges, \* changes of the documents so far
    background, \* in a run that a worker executes, or within the request
    fanIn,      \* synthesis_max_documents
    reached,    \* where the synthesis is, or how it ended
    bound,      \* the revision that the scope binds each of its documents to
    hashed,     \* the revision whose chunks went into the evidence hash
    outcome,    \* how the retrieval from each document ended
    nodes,      \* reduction_nodes: the documents and the size of each
    next,       \* next_nodes: the answers of this level so far
    asked       \* cancellation of the run was asked for

synthesisVars ==
    <<source, sourceChanges, background, fanIn, reached, bound, hashed, outcome,
      nodes, next, asked>>

SynthesisInit ==
    /\ \E first \in {[status |-> "indexed", current |-> 1],
                    [status |-> "indexed", current |-> 0],
                    [status |-> "indexing", current |-> 0]} :
         source = [d \in Documents |->
                      IF d = 1 THEN first ELSE [status |-> "indexed", current |-> 1]]
    /\ sourceChanges = 0
    /\ background \in BOOLEAN
    /\ fanIn \in FanIns
    /\ reached = "idle"
    /\ bound = <<>> /\ hashed = <<>> /\ outcome = <<>>
    /\ nodes = <<>> /\ next = <<>>
    /\ asked = FALSE

Scope == DOMAIN bound

-----------------------------------------------------------------------------
(* Indexing and deletion of documents *)

Reindex(d) ==
    /\ source[d].status = "indexed"
    /\ source' = [source EXCEPT ![d].status = "indexing"]

FinishIndexing(d) ==
    /\ source[d].status = "indexing"
    /\ source' = [source EXCEPT ![d] = [status |-> "indexed", current |-> @.current + 1]]

Delete(d) ==
    /\ source[d].status # "deleted"
    /\ source' = [source EXCEPT ![d].status = "deleted"]

\* Until the map phase is over: nothing reads a document after it.
Sources ==
    /\ reached \in {"resolving", "queued", "mapping"}
    /\ sourceChanges < MaxSourceChanges /\ sourceChanges' = sourceChanges + 1
    /\ \E d \in Documents : Reindex(d) \/ FinishIndexing(d) \/ Delete(d)

-----------------------------------------------------------------------------
(* The scope *)

\* get_documents_by_ids: the bindings, and the allow-list of what is indexed.
ResolveScope ==
    /\ reached = "idle"
    /\ LET indexed == {d \in Documents : source[d].status = "indexed"} IN
       /\ bound' = [d \in indexed |-> source[d].current]
       /\ reached' = "resolving"
    /\ UNCHANGED <<hashed, outcome, nodes, next>>

\* list_evidence_revision_chunks, a later statement: the chunks of what is current
\* by then.  A frozen scope needs a revision of every document.
HashScope ==
    /\ reached = "resolving"
    /\ hashed' = [d \in Scope |-> source[d].current]
    /\ outcome' = [d \in Scope |-> "none"]
    /\ reached' = IF Scope = {} THEN "empty"
                ELSE IF ~background THEN "mapping"
                ELSE IF \E d \in Scope : bound[d] = 0 THEN "refused"
                ELSE "queued"
    /\ UNCHANGED <<bound, nodes, next>>

\* Mutant: it is enough that the frozen revisions can be retrieved.
VerifyAvailability ==
    /\ reached = "queued"
    /\ reached' = IF asked THEN "cancelled"
                ELSE IF \A d \in Scope : source[d].status = "indexed" THEN "mapping"
                ELSE "failed"
    /\ UNCHANGED <<bound, hashed, outcome, nodes, next>>

\* A worker has claimed the run: ensure_not_cancelled, then frozen_revision_ids, which
\* compares the evidence hash with that of the bound revisions' chunks.
VerifyFrozen ==
    /\ reached = "queued"
    /\ reached' = IF asked THEN "cancelled"
                ELSE IF \A d \in Scope : source[d].status = "indexed" /\ bound[d] = hashed[d]
                     THEN "mapping"
                ELSE "failed"
    /\ UNCHANGED <<bound, hashed, outcome, nodes, next>>

-----------------------------------------------------------------------------
(* Map *)

Batch(d) == (Cardinality({e \in Scope : e < d})) \div MapBatch

\* How the retrieval from a document's bound revision may end.  An error inside
\* retrieve gives a degraded outcome without chunks.  Only one outside it (the
\* session, the commit) or a stale revision raises.
Retrieved(d) ==
    IF bound[d] = 0 THEN {"unbound"}
    ELSE {"nothing", "degraded", "raised"}
            \cup (IF source[d].status # "deleted" THEN {"evidence"} ELSE {})

Retrieve(d) ==
    /\ reached = "mapping"
    /\ d \in Scope /\ outcome[d] = "none"
    /\ \A e \in Scope : Batch(e) < Batch(d) => outcome[e] # "none"
    /\ \E how \in Retrieved(d) : outcome' = [outcome EXCEPT ![d] = how]
    /\ UNCHANGED <<reached, bound, hashed, nodes, next>>

Evident == {d \in Scope : outcome[d] = "evidence"}

\* map_failure: what the report lists as omitted.
Omitted == {d \in Scope : outcome[d] \in {"raised", "unbound"}}

\* Mutant: the setting of old, which left documents beyond it out.
FirstFindings ==
    LET all == Ascending(IF Evident # {} THEN Evident ELSE Scope) IN
    SubSeq(all, 1, IF Len(all) < fanIn THEN Len(all) ELSE fanIn)

\* findings_with_evidence or findings
Findings == Ascending(IF Evident # {} THEN Evident ELSE Scope)

BeginReduction ==
    /\ reached = "mapping" /\ \A d \in Scope : outcome[d] # "none"
    /\ \E size \in [DOMAIN Findings -> NodeSizes] :
         nodes' = [i \in DOMAIN Findings |-> [of |-> {Findings[i]}, size |-> size[i]]]
    /\ reached' = "reducing"
    /\ UNCHANGED <<bound, hashed, outcome, next>>

-----------------------------------------------------------------------------
(* Reduce *)

\* Mutant: a prompt takes one node less.
FullEarly(batch, node) ==
    batch.size + node.size > Payload \/ batch.count >= fanIn - 1

Full(batch, node) == batch.size + node.size > Payload \/ batch.count >= fanIn

PackNode(batches, node) ==
    IF batches = <<>> \/ Full(Last(batches), node)
    THEN Append(batches, [of |-> node.of, size |-> node.size, count |-> 1])
    ELSE Append(Front(batches), [of |-> Last(batches).of \cup node.of,
                                 size |-> Last(batches).size + node.size,
                                 count |-> Last(batches).count + 1])

\* pack_reduction_nodes: in order, a new batch whenever the last one is full.
PackNodes(all) == FoldLeft(PackNode, <<>>, all)

TooLarge == \E i \in DOMAIN nodes : nodes[i].size > Payload

\* The prompt of the next batch has an answer.  The level ends with its last batch, and
\* the reduction with a level of one batch.
Reduce ==
    /\ reached = "reducing" /\ ~TooLarge
    /\ \E size \in NodeSizes :
         LET batches == PackNodes(nodes)
             answer == [of |-> batches[Len(next) + 1].of, size |-> size]
         IN
         IF Len(next) + 1 < Len(batches)
         THEN next' = Append(next, answer) /\ UNCHANGED <<nodes, reached>>
         ELSE /\ nodes' = Append(next, answer)
              /\ next' = <<>>
              /\ reached' = IF Len(batches) > 1 THEN "reducing"
                          ELSE IF ~background THEN "done" ELSE "reduced"
    /\ UNCHANGED <<bound, hashed, outcome>>

\* A node that fits in no prompt, or an error of the provider: the request or the
\* run fails.
ReductionFails ==
    /\ reached = "reducing"
    /\ reached' = "failed"
    /\ UNCHANGED <<bound, hashed, outcome, nodes, next>>

\* ensure_not_cancelled, for the first time since the map began; complete_if_active.
CompleteSynthesis ==
    /\ reached = "reduced"
    /\ reached' = IF asked THEN "cancelled" ELSE "done"
    /\ UNCHANGED <<bound, hashed, outcome, nodes, next>>

-----------------------------------------------------------------------------

AskCancel ==
    /\ background /\ reached \in {"queued", "mapping", "reducing", "reduced"}
    /\ asked' = TRUE
    /\ UNCHANGED <<source, sourceChanges, background, fanIn>>
    /\ UNCHANGED <<reached, bound, hashed, outcome, nodes, next>>

Work ==
    /\ \/ ResolveScope \/ HashScope \/ VerifyFrozen
       \/ \E d \in Documents : Retrieve(d)
       \/ BeginReduction \/ Reduce \/ ReductionFails \/ CompleteSynthesis
    /\ UNCHANGED <<source, sourceChanges, background, fanIn, asked>>

SynthesisNext ==
    \/ Work
    \/ AskCancel
    \/ /\ Sources
       /\ UNCHANGED <<background, fanIn, reached, bound, hashed, outcome, nodes, next, asked>>

SynthesisSpec == SynthesisInit /\ [][SynthesisNext]_synthesisVars

\* The loop goes on with the next prompt when one is answered, and every prompt is
\* answered or fails, by the provider's timeout.
SynthesisFairness ==
    WF_synthesisVars(/\ Reduce \/ ReductionFails
                     /\ UNCHANGED <<source, sourceChanges, background, fanIn, asked>>)

-----------------------------------------------------------------------------
(* Properties *)

\* The answer rests on every document with evidence, however many levels and prompts
\* the findings went through, or on every finding if there is no evidence.  "The
\* legacy synthesis_max_documents setting is deliberately a reduction limit, never
\* a corpus exclusion limit."
NoDocumentIsLost ==
    reached \in {"reduced", "done"} =>
        /\ Len(nodes) = 1
        /\ nodes[1].of = (IF Evident # {} THEN Evident ELSE Scope)

\* A synthesis in the background reports the hash of the evidence it used, although
\* the scope was read in two statements and waited in a queue while documents
\* were indexed again.  One within the request does not verify its scope.
HashIsOfTheEvidence ==
    background /\ reached \in {"mapping", "reducing", "reduced", "done"}
        => \A d \in Scope : hashed[d] = bound[d]

Halving == \A all \in {nodes, next} : \A i \in DOMAIN all : all[i].size * 2 <= Payload

\* The reduction ends, provided that a prompt takes at least two nodes and that the
\* answers stay small enough for two of them to share a prompt.  Without either,
\* a level has as many answers as nodes, and the loop has no other way out.
ReductionEnds ==
    (fanIn >= 2 /\ <>[]Halving) => (reached = "reducing" ~> reached # "reducing")

\* "Failed document map is recorded as omitted evidence": what the test of that
\* name checks of a retrieval that raises.
FailedMapIsOmitted ==
    reached = "done" =>
        \A d \in Scope : outcome[d] \in {"raised", "degraded"} => d \in Omitted
=============================================================================
