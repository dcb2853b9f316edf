------------------------------ MODULE ResultReuse ------------------------------
(***************************************************************************)
(* Quantitative analyses of one corpus: a request reads the documents and  *)
(* the units in two statements, and is either handed to a worker, which    *)
(* reads them again, or computed at once; at once it may take over the     *)
(* result of a completed run whose computation identity is its own.        *)
(* The identity covers the operation and the texts.  A grouped analysis    *)
(* also uses the documents' metadata.                                      *)
(***************************************************************************)
EXTENDS Naturals, FiniteSets

CONSTANTS
    Analyses,    \* requests, each of which makes at most one run
    Contents,    \* texts the corpus may have
    Metadata,    \* metadata the documents may have
    Nothing,     \* not read, no identity, no result
    MaxChanges   \* bound: edits of texts and metadata

VARIABLES
    text,       \* of the corpus now
    metadata,   \* of its documents now
    changes,    \* edits so far
    operation,  \* "frequencies", plain or grouped; "ngrams" is not reused
    at,         \* where each request or its worker is
    docsRead,   \* metadata that it read last
    unitsRead,  \* text that it read last
    identity,   \* computation_identity in the run's parameters
    result      \* results_json of a completed run: what was computed from what

reuseVars == <<text, metadata, changes, operation, at, docsRead, unitsRead, identity, result>>

Operations == {"plain", "grouped", "ngrams"}

\* IDENTITY_COMPLETE_OPS: ngrams is in it, but its method never asks for a twin.
AsksForTwin(a) == operation[a] # "ngrams"

ReuseInit ==
    /\ text \in Contents /\ metadata \in Metadata
    /\ changes = 0
    /\ operation \in [Analyses -> Operations]
    /\ at = [a \in Analyses |-> "idle"]
    /\ docsRead = [a \in Analyses |-> Nothing]
    /\ unitsRead = [a \in Analyses |-> Nothing]
    /\ identity = [a \in Analyses |-> Nothing]
    /\ result = [a \in Analyses |-> Nothing]

Moves(a, from, to) == at[a] = from /\ at' = [at EXCEPT ![a] = to]

corpusVars == <<text, metadata, changes, operation>>
runFields == <<identity, result>>

-----------------------------------------------------------------------------
(* Reading, by the request or by the worker that re-enters its method *)

ReadDocuments(a) ==
    /\ Moves(a, "idle", "docs") \/ Moves(a, "claimed", "workerDocs")
    /\ docsRead' = [docsRead EXCEPT ![a] = metadata]
    /\ UNCHANGED <<corpusVars, unitsRead, runFields>>

ReadUnitTexts(a) ==
    /\ Moves(a, "docs", "read") \/ Moves(a, "workerDocs", "workerRead")
    /\ unitsRead' = [unitsRead EXCEPT ![a] = text]
    /\ UNCHANGED <<corpusVars, docsRead, runFields>>

\* Mutant: the identity of the operation alone.
IdentityWithoutTexts(a) == [operation |-> operation[a], checksum |-> Nothing]

\* _prepare_with_identity: hashes of the specification, with group_by, and of the
\* ids and texts of the units.
IdentityOf(a) == [operation |-> operation[a], checksum |-> unitsRead[a]]

\* What an operator makes of what was read.
Computed(a) ==
    [operation |-> operation[a], text |-> unitsRead[a],
     groups |-> IF operation[a] = "grouped" THEN docsRead[a] ELSE Nothing]

-----------------------------------------------------------------------------
(* At once *)

\* find_reusable_run: an active twin never carries an identity, since it is
\* stripped when the run is queued.
Twins(a) ==
    {b \in Analyses \ {a} : at[b] = "completed" /\ identity[b] = IdentityOf(a)}

\* materialize_reuse_run: a completed run of its own with the twin's result.
ReuseTwin(a) ==
    /\ AsksForTwin(a)
    /\ Moves(a, "read", "completed")
    /\ \E b \in Twins(a) : result' = [result EXCEPT ![a] = result[b]]
    /\ identity' = [identity EXCEPT ![a] = IdentityOf(a)]
    /\ UNCHANGED <<corpusVars, docsRead, unitsRead>>

\* No twin now; the operator runs in a thread while others go on.
StartComputing(a) ==
    /\ AsksForTwin(a) => Twins(a) = {}
    /\ Moves(a, "read", "computing")
    /\ UNCHANGED <<corpusVars, docsRead, unitsRead, runFields>>

\* _persist_run
Persist(a) ==
    /\ Moves(a, "computing", "completed") \/ Moves(a, "workerComputing", "completed")
    /\ result' = [result EXCEPT ![a] = Computed(a)]
    /\ identity' = [identity EXCEPT ![a] = IdentityOf(a)]
    /\ UNCHANGED <<corpusVars, docsRead, unitsRead>>

-----------------------------------------------------------------------------
(* By a worker *)

\* _enqueue_quantitative: nothing of what was read is kept.
Enqueue(a) ==
    /\ Moves(a, "read", "queued")
    /\ UNCHANGED <<corpusVars, docsRead, unitsRead, runFields>>

\* RunLifecycle's claim, and execute_quantitative.
ClaimAnalysis(a) ==
    /\ Moves(a, "queued", "claimed")
    /\ UNCHANGED <<corpusVars, docsRead, unitsRead, runFields>>

\* With existing_run_id no twin is asked for.
WorkerComputes(a) ==
    /\ Moves(a, "workerRead", "workerComputing")
    /\ UNCHANGED <<corpusVars, docsRead, unitsRead, runFields>>

\* Cancelled before it completes, or failed: it keeps no result.
Abandon(a) ==
    /\ \/ Moves(a, "queued", "dropped")
       \/ Moves(a, "claimed", "dropped")
       \/ Moves(a, "computing", "dropped")
       \/ Moves(a, "workerComputing", "dropped")
    /\ UNCHANGED <<corpusVars, docsRead, unitsRead, runFields>>

-----------------------------------------------------------------------------
(* The corpus changes *)

Change == changes < MaxChanges /\ changes' = changes + 1

requestVars == <<operation, at, docsRead, unitsRead, identity, result>>

\* A document is imported, cleaned or segmented again, or deleted.
ChangeText ==
    /\ Change
    /\ text' \in Contents \ {text}
    /\ UNCHANGED <<metadata, requestVars>>

\* update_document_metadata, bulk_update_metadata, import_metadata_csv.
ChangeMetadata ==
    /\ Change
    /\ metadata' \in Metadata \ {metadata}
    /\ UNCHANGED <<text, requestVars>>

ReuseNext ==
    \/ \E a \in Analyses :
           \/ ReadDocuments(a) \/ ReadUnitTexts(a)
           \/ ReuseTwin(a) \/ StartComputing(a) \/ Persist(a)
           \/ Enqueue(a) \/ ClaimAnalysis(a) \/ WorkerComputes(a) \/ Abandon(a)
    \/ ChangeText \/ ChangeMetadata

ReuseSpec == ReuseInit /\ [][ReuseNext]_reuseVars

-----------------------------------------------------------------------------
(* Properties *)

\* Whoever computed it and whatever is edited meanwhile: what a completed run
\* holds is what its own operation makes of the texts that its own request or
\* worker read.  Of the metadata this holds only where no twin was asked for:
\* update_document_metadata changes no identity, and a grouped result made before
\* it is taken over after it; even then it is what somebody had computed.
ServedIsRequested ==
    \A a \in Analyses : at[a] = "completed" =>
        /\ result[a].operation = operation[a]
        /\ result[a].text = unitsRead[a]
        /\ \/ result[a] = Computed(a)
           \/ /\ operation[a] = "grouped"
              /\ \E b \in Analyses \ {a} : result[b] = result[a] /\ result[b] = Computed(b)
=============================================================================
