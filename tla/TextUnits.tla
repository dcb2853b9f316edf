------------------------------ MODULE TextUnits ------------------------------
(***************************************************************************)
(* The text units of a corpus, of one unit type: what coders annotate and  *)
(* models predict.  Segmenting a document replaces its units by new ones,  *)
(* whatever is attached to the old ones.                                   *)
(***************************************************************************)
EXTENDS Naturals, FiniteSets

CONSTANTS
    Docs,           \* documents, numbered in the order of the corpus listing
    MaxUnits,       \* bound: units of a document
    MaxGeneration   \* bound: times a document is segmented again

ASSUME TextUnitsAssumption ==
    /\ Docs \subseteq Nat /\ IsFiniteSet(Docs)
    /\ MaxUnits \in Nat
    /\ MaxGeneration \in Nat

VARIABLES
    units,      \* the rows of research_text_units
    generation  \* per document, how often it was segmented again

unitVars == <<units, generation>>

\* A row is identified by the execution that made it: ids are new each time.
Unit == [doc : Docs, pos : 1..MaxUnits, gen : 0..MaxGeneration]

UnitsOf(d) == {u \in units : u.doc = d}

SegmentedInto(d, n, g) == {[doc |-> d, pos |-> p, gen |-> g] : p \in 1..n}

UnitsInit ==
    /\ \E n \in [Docs -> 0..MaxUnits] :
           units = UNION {SegmentedInto(d, n[d], 0) : d \in Docs}
    /\ generation = [d \in Docs |-> 0]

\* One turn of the loop of execute_segmentation, a transaction of its own: the
\* document's units are deleted and as many as its present text has are made.
SegmentDocument(d) ==
    /\ generation[d] < MaxGeneration
    /\ generation' = [generation EXCEPT ![d] = @ + 1]
    /\ \E n \in 0..MaxUnits :
           units' = (units \ UnitsOf(d)) \cup SegmentedInto(d, n, generation[d] + 1)

UnitsTypeOK ==
    /\ units \in SUBSET Unit
    /\ generation \in [Docs -> 0..MaxGeneration]
=============================================================================
