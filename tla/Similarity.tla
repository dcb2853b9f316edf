------------------------------ MODULE Similarity ------------------------------
(***************************************************************************)
(* Pairwise Jaccard similarity of text units.  Few units are compared in a *)
(* dense matrix, all of whose pairs are sorted.  Many units with top_k are *)
(* compared pair by pair, and a heap of at most top_k keeps the best; with *)
(* a positive min_score an inverted index names the pairs to compare, in   *)
(* the arbitrary order of a set.  How many are many is left out: a         *)
(* behaviour takes the bounded path, which is compared with the dense one. *)
(*                                                                         *)
(* A score is a fraction, compared by cross-multiplication.  Distinct      *)
(* Jaccard scores of small sets are distinct as floats too.                *)
(***************************************************************************)
EXTENDS Integers, FiniteSets, Sequences, Listing

CONSTANTS
    Items,      \* bound: units compared, 1..n
    Tokens,
    TopKs,      \* bound: values of top_k
    MinScores,  \* bound: values of min_score, fractions; <<0, 1>> stands for none too
    NoPairs     \* not a sequence of pairs

ASSUME SimilarityAssumption ==
    /\ IsFiniteSet(Items) /\ Items \subseteq Nat
    /\ IsFiniteSet(Tokens)
    /\ TopKs \subseteq Nat
    /\ MinScores \subseteq Nat \X (Nat \ {0})
    /\ NoPairs \notin Seq(Items \X Items)

VARIABLES
    tokensOf,   \* the set of tokens of each unit
    topK, minScore, includeSelf,
    remaining,  \* pairs that are still to be compared
    heap,       \* the pairs in the heap
    best      \* the result, when there is one

similarityVars == <<tokensOf, topK, minScore, includeSelf, remaining, heap, best>>

Less(a, b) == a[1] * b[2] < b[1] * a[2]

\* Two units without tokens are alike.
JaccardSimilarity(i, j) ==
    LET union == tokensOf[i] \cup tokensOf[j] IN
    IF union = {} THEN <<1, 1>>
    ELSE <<Cardinality(tokensOf[i] \cap tokensOf[j]), Cardinality(union)>>

Score(pair) == JaccardSimilarity(pair[1], pair[2])

\* The pairs in the order of the loops over i and j.
AllPairs == {pair \in Items \X Items : IF includeSelf THEN pair[1] <= pair[2] ELSE pair[1] < pair[2]}

Positive == Less(<<0, 1>>, minScore)

\* The inverted index: pairs that share a token, and each unit with itself.
SharingPairs == {pair \in AllPairs : pair[1] = pair[2] \/ tokensOf[pair[1]] \cap tokensOf[pair[2]] # {}}

SimilarityInit ==
    /\ tokensOf \in [Items -> SUBSET Tokens]
    /\ topK \in TopKs
    /\ minScore \in MinScores
    /\ includeSelf \in BOOLEAN
    /\ remaining = IF Positive THEN SharingPairs ELSE AllPairs
    /\ heap = {}
    /\ best = NoPairs

Before(p, q) == p[1] < q[1] \/ (p[1] = q[1] /\ p[2] < q[2])

\* Mutant: items of the heap are (score, i, j).
BetterByLargerIndex(p, q) ==
    Less(Score(q), Score(p)) \/ (~Less(Score(p), Score(q)) /\ Before(q, p))

\* Items of the heap are (score, -i, -j): of equal scores the smaller indices win.
Better(p, q) ==
    Less(Score(q), Score(p)) \/ (~Less(Score(p), Score(q)) /\ Before(p, q))

\* _heap_push_topk
PushTopK(pair) ==
    LET worst == CHOOSE p \in heap : \A q \in heap \ {p} : Better(q, p) IN
    IF topK = 0 THEN heap
    ELSE IF Cardinality(heap) < topK THEN heap \cup {pair}
    ELSE IF Better(pair, worst) THEN (heap \ {worst}) \cup {pair}
    ELSE heap

\* One more pair: the loops go in order, the set of candidates in any.
Compare ==
    \E pair \in remaining :
        /\ Positive \/ \A q \in remaining \ {pair} : Before(pair, q)
        /\ remaining' = remaining \ {pair}
        /\ heap' = IF Less(Score(pair), minScore) THEN heap ELSE PushTopK(pair)
        /\ UNCHANGED <<tokensOf, topK, minScore, includeSelf, best>>

\* By decreasing score, then by i and j.
Ahead(p, q) ==
    Less(Score(q), Score(p)) \/ (~Less(Score(p), Score(q)) /\ Before(p, q))

\* _heap_to_pairs
Rank ==
    /\ remaining = {} /\ best = NoPairs
    /\ best' = Listed(heap, Ahead)
    /\ UNCHANGED <<tokensOf, topK, minScore, includeSelf, remaining, heap>>

SimilarityNext == Compare \/ Rank

SimilaritySpec == SimilarityInit /\ [][SimilarityNext]_similarityVars

\* The dense path: every pair from min_score on, sorted, and the first top_k of them.
Dense(pairs) ==
    LET sorted == Listed({p \in pairs : ~Less(Score(p), minScore)}, Ahead) IN
    SubSeq(sorted, 1, IF topK < Len(sorted) THEN topK ELSE Len(sorted))

-----------------------------------------------------------------------------
(* Properties *)

\* "Exact Jaccard top-K without allocating an N×N matrix": the heap, whatever the
\* order in which it sees the pairs and wherever the ties are, ends with what the
\* dense path returns.  The exception is a pair of two units without tokens, whose
\* score is one: with a positive min_score the index does not name it.
BoundedIsExact ==
    best # NoPairs =>
        best = Dense({p \in AllPairs :
            Positive /\ p[1] # p[2] => tokensOf[p[1]] \cup tokensOf[p[2]] # {}})
=============================================================================
