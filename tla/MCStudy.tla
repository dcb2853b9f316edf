------------------------------- MODULE MCStudy -------------------------------
(***************************************************************************)
(* What researchers do with a corpus, in one run of TLC: coding, datasets  *)
(* of gold labels and their splits, prediction, results that are reused,   *)
(* models that are promoted and syntheses of documents.  A behaviour is of *)
(* one of them, as the initial state says, while the variables of the      *)
(* others stand still.  Of coding, Prediction needs only which units are   *)
(* annotated, and has an action for that; GoldDataset needs the codes, and *)
(* has actions for them.                                                   *)
(***************************************************************************)
EXTENDS Coding, Prediction, GoldDataset, Splits, ResultReuse,
        ModelLifecycle, CorpusSynthesis, TLC

VARIABLE focus

allVars == <<unitVars, codingVars, predictionVars, goldVars, splitsVars, reuseVars,
             lifecycleVars, synthesisVars, focus>>

Symmetry == Permutations(Coders) \cup Permutations(Requests)

MCPolicies ==
    {[source |-> "adjudicated_only", coder |-> 0, minimum |-> 0],
     [source |-> "majority_vote", coder |-> 0, minimum |-> 0],
     [source |-> "majority_vote", coder |-> 0, minimum |-> 60],
     [source |-> "selected_annotator", coder |-> 1, minimum |-> 0]}

\* The days of a field whose values are the texts "10", "8" and "9", in the order
\* Python sorts them, or the numbers 10, 8 and 9.
Moments == 1 :> 10 @@ 2 :> 8 @@ 3 :> 9

\* Bound: coding is about one document of at most one unit.
FewUnits ==
    /\ \A u \in units : u.doc = 1 /\ u.pos = 1
    /\ \A d \in Docs : d # 1 => generation[d] = 0

\* Bound: which class a row has matters to the grouped plans only, and how the
\* field is stored to the temporal ones.
OneLabel == labelOf = [i \in Rows |-> CHOOSE l \in Labels : TRUE]

\* A part that is not looked at has one initial state.
Still(part, single) == focus # part => single

Init ==
    /\ focus \in {"coding", "prediction", "gold", "splits",
                "reuse", "models", "synthesis"}
    /\ SplitsInit
    /\ Still("splits", /\ Range(valueOf) = {Unknown}
                       /\ stored = "numbers"
                       /\ OneLabel)
    /\ stored # "numbers" => OneLabel
    /\ GoldInit
    /\ Still("gold", policy = CHOOSE p \in Policies : TRUE)
    /\ ReuseInit
    /\ Still("reuse", /\ text = (CHOOSE t \in Contents : TRUE)
                      /\ metadata = (CHOOSE m \in Metadata : TRUE)
                      /\ Range(operation) = {"plain"})
    /\ SynthesisInit
    /\ Still("synthesis", source[1].current = 1 /\ ~background /\ fanIn = 2)
    /\ LifecycleInit
    /\ CodingInit /\ PredictionInit
    /\ annotated = {}   \* units are annotated before the run as well as during it
    /\ focus = "coding" => FewUnits
    /\ Still("prediction", ~onlyNew /\ ~refreshed)
    /\ focus \notin {"coding", "prediction"} => units = {} /\ \A d \in Docs : generation[d] = 0

\* What the other parts keep as it is.
Others(part) ==
    /\ UNCHANGED focus
    /\ focus = part
    /\ part # "coding" => UNCHANGED codingVars
    /\ part # "prediction" => UNCHANGED predictionVars
    /\ part \notin {"coding", "prediction"} => UNCHANGED unitVars
    /\ part # "gold" => UNCHANGED goldVars
    /\ part # "splits" => UNCHANGED splitsVars
    /\ part # "reuse" => UNCHANGED reuseVars
    /\ part # "models" => UNCHANGED lifecycleVars
    /\ part # "synthesis" => UNCHANGED synthesisVars

Next ==
    \/ Others("coding") /\ CodingNext
    \/ Others("prediction") /\ PredictionNext
    \/ Others("gold") /\ GoldNext
    \/ Others("splits") /\ SplitsNext
    \/ Others("reuse") /\ ReuseNext
    \/ Others("models") /\ LifecycleNext
    \/ Others("synthesis") /\ SynthesisNext

StudySpec == Init /\ [][Next]_allVars

Busy == {r \in Requests : req[r] # Idle}
Created == {k \in Campaigns : campaigns[k].status # "none"}

\* Bounds: for coding several campaigns, or two requests at a time that both
\* save; for prediction one document is segmented again.
RacesOrRounds ==
    /\ focus = "coding" =>
           /\ FewUnits
           /\ \/ Cardinality(Busy) <= 1
              \/ /\ Cardinality(Created) <= 1
                 /\ patches = 0
                 /\ \A r \in Busy : req[r].kind = "save"
    /\ focus = "prediction" => Cardinality({d \in Docs : generation[d] > 0}) <= 1
=============================================================================
