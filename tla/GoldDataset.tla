------------------------------ MODULE GoldDataset ------------------------------
(***************************************************************************)
(* Freezing a training dataset: the codes, the adjudications and the units *)
(* are read by one statement each, each of which sees what was committed   *)
(* before it, while coders save codes, adjudicators decide and documents   *)
(* are segmented again.  The codes are those of one campaign and of one    *)
(* version of the codebook.                                                *)
(***************************************************************************)
EXTENDS Naturals, Sequences, SequencesExt

CONSTANTS
    GoldUnits,
    GoldLabels,
    GoldCoders,
    Verdicts,     \* the values of a code
    NoVerdict,
    Policies,     \* [source, selected coder, minimum agreement in percent or 0]
    MaxEdits      \* bound: changes of codes, adjudications and units

ASSUME VerdictAssumption == NoVerdict \notin Verdicts

Cells == GoldUnits \X GoldLabels

VARIABLES
    coded,       \* per cell its codes, [coder, value], in the order of creation
    adjudicated, \* per cell the final_value of its adjudication, or NoVerdict
    present,     \* units that have not been deleted
    edits,       \* changes so far
    policy,      \* annotation_source and its parameters
    freezing,    \* what freeze reads next, or how it ended
    readCodes,   \* the codes it has read
    readFinal,   \* the adjudications it has read
    frozenUnits, \* the units of the snapshot
    held         \* history: per cell what it resolved to at some time of the freeze

freezeVars == <<policy, freezing, readCodes, readFinal, frozenUnits>>
goldVars == <<coded, adjudicated, present, edits, freezeVars, held>>

\* Mutant: the adjudications are read first.
StatementsSwapped == <<"adjudications", "annotations">>

\* What _resolve_gold_values reads, in this order.
Statements == <<"annotations", "adjudications">>

Empty == [cell \in Cells |-> NoVerdict]

GoldInit ==
    /\ coded = [cell \in Cells |-> <<>>]
    /\ adjudicated = Empty
    /\ present = GoldUnits
    /\ edits = 0
    /\ policy \in Policies
    /\ freezing = Statements[1]
    /\ readCodes = coded /\ readFinal = Empty /\ frozenUnits = {}
    /\ held = [cell \in Cells |-> {}]

-----------------------------------------------------------------------------
(* _resolve_gold_values, for one cell *)

Votes(codes, v) == Len(SelectSeq(codes, LAMBDA x : x.value = v))

\* Counter.most_common(1): of the values with most votes the one seen first.
TopVerdict(codes) ==
    codes[CHOOSE i \in DOMAIN codes :
        /\ \A v \in Verdicts : Votes(codes, v) <= Votes(codes, codes[i].value)
        /\ \A j \in 1..(i - 1) : Votes(codes, codes[j].value) < Votes(codes, codes[i].value)].value

\* Without an adjudication the coders must agree; one coder agrees with himself.
Adjudged(codes, final) ==
    IF final # NoVerdict THEN final
    ELSE IF \A i \in DOMAIN codes : codes[i].value = codes[1].value THEN codes[1].value
    ELSE NoVerdict

Majority(codes, minimum) ==
    LET top == TopVerdict(codes) IN
    IF 100 * Votes(codes, top) < minimum * Len(codes) THEN NoVerdict ELSE top

SelectedCode(codes, coder) ==
    IF \E i \in DOMAIN codes : codes[i].coder = coder
    THEN (CHOOSE x \in ToSet(codes) : x.coder = coder).value
    ELSE NoVerdict

\* A cell that nobody coded is not looked at, adjudicated or not.
Resolve(codes, final) ==
    IF codes = <<>> THEN NoVerdict
    ELSE IF policy.source = "adjudicated_only" THEN Adjudged(codes, final)
    ELSE IF policy.source = "majority_vote" THEN Majority(codes, policy.minimum)
    ELSE SelectedCode(codes, policy.coder)

-----------------------------------------------------------------------------
(* The freeze *)

Reads(statement) ==
    /\ freezing = statement
    /\ freezing' = IF statement = Statements[1] THEN Statements[2] ELSE "units"
    /\ UNCHANGED <<coded, adjudicated, present, edits, policy, frozenUnits>>

\* list_annotations_for_corpus
ReadAnnotations ==
    /\ Reads("annotations")
    /\ readCodes' = coded
    /\ UNCHANGED readFinal

\* list_adjudications_for_corpus
ReadAdjudications ==
    /\ Reads("adjudications")
    /\ readFinal' = adjudicated
    /\ UNCHANGED readCodes

Gold(u, l) == Resolve(readCodes[<<u, l>>], readFinal[<<u, l>>])

\* list_text_units_by_ids of the units that have a value for every label; with
\* none the freeze is refused.
ReadUnits ==
    /\ freezing = "units"
    /\ frozenUnits' = {u \in present : \A l \in GoldLabels : Gold(u, l) # NoVerdict}
    /\ freezing' = IF frozenUnits' = {} THEN "refused" ELSE "frozen"
    /\ UNCHANGED <<coded, adjudicated, present, edits, policy, readCodes, readFinal>>

-----------------------------------------------------------------------------
(* What goes on beside it *)

Edit == edits < MaxEdits /\ edits' = edits + 1

\* save_annotations: the coder's code of the cell is changed in place, or added.
SaveCode(c, cell, v) ==
    /\ Edit
    /\ cell[1] \in present
    /\ LET mine == {i \in DOMAIN coded[cell] : coded[cell][i].coder = c} IN
       coded' = [coded EXCEPT ![cell] =
           IF mine = {} THEN Append(@, [coder |-> c, value |-> v])
           ELSE [i \in DOMAIN @ |-> IF i \in mine THEN [coder |-> c, value |-> v] ELSE @[i]]]
    /\ UNCHANGED <<adjudicated, present, freezeVars>>

\* save_adjudication: an upsert, of any unit that exists.
Adjudicate(cell, v) ==
    /\ Edit
    /\ cell[1] \in present
    /\ adjudicated' = [adjudicated EXCEPT ![cell] = v]
    /\ UNCHANGED <<coded, present, freezeVars>>

\* A segmentation deletes the unit, and with it what is attached to it.
DeleteUnit(u) ==
    /\ Edit
    /\ u \in present
    /\ present' = present \ {u}
    /\ coded' = [cell \in Cells |-> IF cell[1] = u THEN <<>> ELSE coded[cell]]
    /\ adjudicated' = [cell \in Cells |-> IF cell[1] = u THEN NoVerdict ELSE adjudicated[cell]]
    /\ UNCHANGED freezeVars

GoldStep ==
    \/ ReadAnnotations \/ ReadAdjudications \/ ReadUnits
    \/ \E cell \in Cells, v \in Verdicts :
           Adjudicate(cell, v) \/ \E c \in GoldCoders : SaveCode(c, cell, v)
    \/ \E u \in GoldUnits : DeleteUnit(u)

\* The history counts the states from the first read on.
GoldNext ==
    /\ GoldStep
    /\ held' = [cell \in Cells |->
           IF freezing \in {Statements[1], "frozen", "refused"} THEN held[cell]
           ELSE held[cell] \cup {Resolve(coded[cell], adjudicated[cell])}]

GoldSpec == GoldInit /\ [][GoldNext]_goldVars

-----------------------------------------------------------------------------
(* Properties *)

\* Whatever is coded, decided or deleted meanwhile, every value of a frozen
\* dataset is what the policy made of its cell at one and the same moment of the
\* freeze, although codes and adjudications were read at two; and every frozen
\* unit has a value for every label.
EachGoldHeld ==
    freezing = "frozen" =>
        \A u \in frozenUnits, l \in GoldLabels :
            Gold(u, l) \in held[<<u, l>>] \ {NoVerdict}
=============================================================================
