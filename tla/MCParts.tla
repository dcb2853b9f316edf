------------------------------- MODULE MCParts -------------------------------
(***************************************************************************)
(* The parts that share no state with the rest, in one run of TLC: each    *)
(* behaviour is of one of them, as the initial state says, while the       *)
(* variables of the others stand still.                                    *)
(***************************************************************************)
EXTENDS RagRetrieval, RagAnswer, Reliability, Sampling, Similarity, EmbeddingFlight

VARIABLE focus

partsVars == <<allVars, answerVars, relVars, samplingVars,
               similarityVars, flightVars, focus>>

\* Three chunks of a document, of two revisions, the first two of one parent; and
\* one of another document that repeats the third.  The third covers fewer spans.
MCDocOf == <<1, 1, 1, 2>>
MCRevOf == <<1, 1, 2, 3>>
MCHashOf == <<1, 2, 3, 3>>
MCSpansOf == <<{1, 2, 3, 4}, {1, 2, 3, 4, 5}, {6}, {7}>>
MCParentOf == <<9, 9, 0, 0>>

\* No least score, a half, and only what is alike.
MCMinScores == {<<0, 1>>, <<1, 2>>, <<1, 1>>}

\* One text, and two spellings of it after another text, with one that is too long
\* for the cache between them.
MCKeyOf == [composed |-> "k1", decomposed |-> "k1", other |-> "k2", long |-> NoKey]
MCTextLists == {<<"composed">>, <<"other", "decomposed", "long", "composed">>}

Parts == {"retrieval", "answer", "reliability", "sampling", "similarity", "flight"}

\* Documents are alike: the first unit is of the first one, and a document without
\* units might as well be of the first stratum.
OneNaming ==
    /\ docOf[1] = 1
    /\ \A d \in 1..DocumentCount \ Range(docOf) : stratumOf[d] = 1

\* A part that is not looked at has one initial state.
Still(part, single) == focus # part => single

PartsInit ==
    /\ focus \in Parts
    /\ RInit /\ RAInit /\ RelInit /\ FlightInit
    /\ SamplingInit
    /\ Still("sampling", Range(docOf) = {1} /\ Range(stratumOf) = {1})
    /\ OneNaming
    /\ SimilarityInit
    /\ Still("similarity", /\ tokensOf = [i \in Items |-> {}]
                           /\ topK = 1 /\ minScore = <<0, 1>> /\ ~includeSelf)

\* What the other parts keep as it is.
Others(part) ==
    /\ UNCHANGED focus
    /\ focus = part
    /\ part # "retrieval" => UNCHANGED allVars
    /\ part # "answer" => UNCHANGED answerVars
    /\ part # "reliability" => UNCHANGED relVars
    /\ part # "sampling" => UNCHANGED samplingVars
    /\ part # "similarity" => UNCHANGED similarityVars
    /\ part # "flight" => UNCHANGED flightVars

PartsNext ==
    \/ Others("retrieval") /\ RNext
    \/ Others("answer") /\ RANext
    \/ Others("reliability") /\ RelNext
    \/ Others("sampling") /\ SamplingNext
    \/ Others("similarity") /\ SimilarityNext
    \/ Others("flight") /\ FlightNext

\* Fairness asks nothing of retrieval when it stands still: no question is asked.
PartsSpec == PartsInit /\ [][PartsNext]_partsVars /\ RetrievalFairness
=============================================================================
