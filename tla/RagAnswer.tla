------------------------------- MODULE RagAnswer -------------------------------
(***************************************************************************)
(* One question after its searches have returned: the ranked lists are     *)
(* fused, children are expanded to their parent's text, the list is        *)
(* reranked, capped, freed of duplicates and packed into the token budget; *)
(* the model answers with claims that cite chunks, the citations are       *)
(* validated and a failed validation is repaired once.  RagRetrieval       *)
(* follows the same question among the indexing jobs and treats all of     *)
(* this as one step.                                                       *)
(***************************************************************************)
EXTENDS Listing, Integers, SequencesExt

CONSTANTS
    Chunks,          \* chunk ids: numbers, since equal priorities are ordered by id
    DocOf, RevOf,    \* each chunk's document and index revision
    HashOf, SpansOf, \* its content hash and the source spans it covers
    ParentOf,        \* its parent chunk, or NoParent
    NoParent,
    RrfK, MaxList,   \* rrf_k and the longest list a search returns
    TopK, MaxPerDocument,
    Budget, TextSize, ParentSize  \* context budget; content of a chunk, of a parent

ASSUME RagAnswerAssumption ==
    /\ Chunks \subseteq Nat
    /\ {RrfK, MaxList, TopK, MaxPerDocument, Budget, TextSize, ParentSize}
          \subseteq Nat \ {0}

VARIABLES
    stage,      \* the step of the pipeline that comes next
    dense, lexical, \* the ranked lists, until they are fused
    scope,      \* documents the question may use (document_ids)
    plan,       \* [diversify, heuristic]: the plan and the reranker
    ranked,     \* the candidates
    context,    \* the chunks packed for the model
    tries,      \* generations so far
    answer      \* [status, claims]: the answer after validation

answerVars == <<stage, dense, lexical, scope, plan, ranked, context, tries, answer>>

NoAnswer == [status |-> "none", claims |-> {}]

Docs == {DocOf[c] : c \in Chunks}

RankedLists ==
    UNION {{l \in [1..n -> Chunks] : IsInjective(l)} : n \in 0..MaxList}

Ids(list) == {list[i].id : i \in DOMAIN list}

RAInit ==
    /\ stage = "search"
    /\ dense = <<>> /\ lexical = <<>>
    /\ scope = Docs
    /\ plan = [diversify |-> FALSE, heuristic |-> FALSE]
    /\ ranked = <<>> /\ context = <<>>
    /\ tries = 0
    /\ answer = NoAnswer

-----------------------------------------------------------------------------
(* Retrieval *)

\* The searches return, each a list that is filtered by the scope.
FindLists ==
    /\ stage = "search"
    /\ scope' \in SUBSET Docs
    /\ dense' \in RankedLists /\ lexical' \in RankedLists
    /\ \A c \in Range(dense') \cup Range(lexical') : DocOf[c] \in scope'
    /\ plan' \in [diversify : BOOLEAN, heuristic : BOOLEAN]
    /\ stage' = "fuse"
    /\ UNCHANGED <<ranked, context, tries, answer>>

\* 1 / (RrfK + rank), as a multiple of the product of all denominators.
Unit[n \in 0..MaxList] == IF n = 0 THEN 1 ELSE (RrfK + n) * Unit[n - 1]
Reciprocal(rank) == Unit[MaxList] \div (RrfK + rank)

RankIn(list, c) == CHOOSE i \in DOMAIN list : list[i] = c
Contribution(list, c) ==
    IF c \in Range(list) THEN Reciprocal(RankIn(list, c)) ELSE 0

Item(c, score, rank) ==
    [id |-> c, score |-> score, rank |-> rank, parent |-> NoParent,
     holds |-> FALSE, size |-> TextSize]

\* Equal scores stay in the order in which the lists first name the chunks.
ReciprocalRankFusion(d, l) ==
    LET Seen(c) == IF c \in Range(d) THEN RankIn(d, c) ELSE Len(d) + RankIn(l, c)
        Score(c) == Contribution(d, c) + Contribution(l, c)
        Before(a, b) ==
            Score(a) > Score(b) \/ (Score(a) = Score(b) /\ Seen(a) < Seen(b))
        order == Listed(Range(d) \cup Range(l), Before)
    IN  [i \in 1..Len(order) |-> Item(order[i], Score(order[i]), i)]

\* A single list keeps its own scores, here falling with the rank.
SingleList(l) == [i \in 1..Len(l) |-> Item(l[i], Reciprocal(i), i)]

Fuse ==
    /\ stage = "fuse"
    /\ ranked' =
           IF dense # <<>> /\ lexical # <<>>
           THEN LET fused == ReciprocalRankFusion(dense, lexical)
                IN  SubSeq(fused, 1, IF Len(fused) < 3 * TopK THEN Len(fused) ELSE 3 * TopK)
           ELSE SingleList(dense \o lexical)
    /\ stage' = "expand"
    /\ UNCHANGED <<dense, lexical, scope, plan, context, tries, answer>>

\* The first candidate of each parent carries the parent's text; its siblings
\* only name the parent.
ExpandParents(list) ==
    [i \in DOMAIN list |->
        LET p == ParentOf[list[i].id]
            first == p # NoParent /\ \A j \in 1..(i - 1) : ParentOf[list[j].id] # p
        IN  [list[i] EXCEPT !.parent = p, !.holds = first,
                            !.size = IF first THEN ParentSize ELSE @]]

Expand ==
    /\ stage = "expand"
    /\ ranked' = ExpandParents(ranked)
    /\ dense' = <<>> /\ lexical' = <<>>
    /\ stage' = "rerank"
    /\ UNCHANGED <<scope, plan, context, tries, answer>>

\* The no-op reranker keeps the order, the heuristic one (whose term overlaps
\* are abstracted) may return any order; scores and ranks stay as they were.
Rerank ==
    /\ stage = "rerank"
    /\ \/ UNCHANGED ranked
       \/ /\ plan.heuristic
          /\ \E p \in {q \in [DOMAIN ranked -> DOMAIN ranked] : IsInjective(q)} :
                 ranked' = [i \in DOMAIN ranked |-> ranked[p[i]]]
    /\ stage' = "cap"
    /\ UNCHANGED <<dense, lexical, scope, plan, context, tries, answer>>

\* Keep a candidate while its document has fewer than MaxPerDocument before it.
DiversifyByDocument(list) ==
    LET Before(i) == {j \in 1..(i - 1) : DocOf[list[j].id] = DocOf[list[i].id]}
        kept == Ascending({i \in DOMAIN list : Cardinality(Before(i)) < MaxPerDocument})
    IN  [n \in DOMAIN kept |-> list[kept[n]]]

Cap ==
    /\ stage = "cap"
    /\ LET list == IF plan.diversify THEN DiversifyByDocument(ranked) ELSE ranked
           n == IF Len(list) < TopK THEN Len(list) ELSE TopK
       IN  ranked' = [i \in 1..n |-> [list[i] EXCEPT !.rank = i]]
    /\ stage' = "select"
    /\ UNCHANGED <<dense, lexical, scope, plan, context, tries, answer>>

-----------------------------------------------------------------------------
(* The context *)

Priority(x, y) ==
    \/ x.score > y.score
    \/ x.score = y.score /\ x.rank < y.rank
    \/ x.score = y.score /\ x.rank = y.rank /\ x.id < y.id

\* The same document and revision, and equal content or spans shared to 4/5.
Duplicates(x, y) ==
    LET a == x.id
        b == y.id
        both == SpansOf[a] \cap SpansOf[b]
        any == SpansOf[a] \cup SpansOf[b]
    IN  /\ DocOf[a] = DocOf[b] /\ RevOf[a] = RevOf[b]
        /\ \/ HashOf[a] = HashOf[b]
           \/ /\ SpansOf[a] # {} /\ SpansOf[b] # {}
              /\ 5 * Cardinality(both) >= 4 * Cardinality(any)

\* Candidates by priority, those that repeat one already kept left out.
Keep(kept, x) ==
    IF \E i \in DOMAIN kept : Duplicates(x, kept[i]) THEN kept ELSE Append(kept, x)

SelectContextChunks(list) == FoldLeft(Keep, <<>>, Listed(Range(list), Priority))

\* order_context_chunks: by relevance, by document or by date and page.
Orders(list) == SetToSeqs(Range(list))

\* What a packed chunk costs: a heading, its content and, next to a parent's
\* text, the child's own.
Cost(x) == 1 + x.size + IF x.holds THEN TextSize ELSE 0
Spend(n, x) == n + Cost(x)
Used(list) == FoldLeft(Spend, 0, list)

\* What is cut to the room there is no longer quotes the child's text.
CutTo(x, room) == [x EXCEPT !.size = IF room < @ THEN room ELSE @, !.holds = FALSE]

\* Mutant: the room for a cut chunk forgets its heading.
AddWithoutHeading(packed, x) ==
    LET room == Budget - Used(packed)
    IN  IF Used(packed) + Cost(x) <= Budget THEN Append(packed, x)
        ELSE IF room >= 1 THEN Append(packed, CutTo(x, room))
        ELSE packed

\* A chunk that does not fit is cut to what is left, or left out when nothing is.
Add(packed, x) ==
    LET room == Budget - Used(packed) - 1
    IN  IF Used(packed) + Cost(x) <= Budget THEN Append(packed, x)
        ELSE IF room >= 1 THEN Append(packed, CutTo(x, room))
        ELSE packed

Pack(list) == FoldLeft(Add, <<>>, list)

\* select_context_for_generation; without a context there is nothing to answer.
Select ==
    /\ stage = "select"
    /\ \E list \in Orders(SelectContextChunks(ranked)) : context' = Pack(list)
    /\ stage' = IF context' = <<>> THEN "answered" ELSE "generate"
    /\ answer' = IF context' = <<>> THEN [status |-> "no_context", claims |-> {}]
                 ELSE answer
    /\ UNCHANGED <<dense, lexical, scope, plan, ranked, tries>>

-----------------------------------------------------------------------------
(* The answer *)

NoRevision == 0

\* _revision_by_document: a second revision of a document takes its entry out,
\* a third chunk of it puts one back.
RevisionByDocument(list) ==
    LET Note(m, x) ==
            LET d == DocOf[x.id]
            IN  IF m[d] = NoRevision THEN [m EXCEPT ![d] = RevOf[x.id]]
                ELSE IF m[d] # RevOf[x.id] THEN [m EXCEPT ![d] = NoRevision]
                ELSE m
    IN  FoldLeft(Note, [d \in Docs |-> NoRevision], list)

\* The revisions of everything retrieved, as the trace records them.
IndexRevisions == {RevOf[c] : c \in Ids(ranked)}

\* Mutant: relying on the entries of _revision_by_document alone.
RevisionsRecorded ==
    \A i \in DOMAIN context :
        LET a == context[i].id
        IN  /\ RevOf[a] \in IndexRevisions
            /\ RevisionByDocument(context)[DocOf[a]] \in {NoRevision, RevOf[a]}

RetrievedRevisionsConsistent ==
    LET m == RevisionByDocument(context)
    IN  \A i, j \in DOMAIN context :
            LET a == context[i].id
                b == context[j].id
            IN  /\ RevOf[a] \in IndexRevisions
                /\ m[DocOf[a]] \in {NoRevision, RevOf[a]}
                /\ DocOf[a] = DocOf[b] => RevOf[a] = RevOf[b]

ChunkAuthorized(c) ==
    LET m == RevisionByDocument(context)
    IN  /\ DocOf[c] \in scope
        /\ RevOf[c] \in IndexRevisions
        /\ m[DocOf[c]] \in {NoRevision, RevOf[c]}

\* A claim is the set of chunk ids it cites; 0 stands for an invented id.  In which
\* order the claims are made decides nothing.
Validate(claims, noEvidence) ==
    LET ValidIds(claim) == {c \in claim \cap Ids(context) : ChunkAuthorized(c)}
        accepted == {ValidIds(claim) : claim \in claims} \ {{}}
        rejected == \E claim \in claims : ValidIds(claim) # claim
        status ==
            IF ~RetrievedRevisionsConsistent THEN "revision_mismatch"
            ELSE IF noEvidence /\ claims = {} THEN "no_evidence"
            ELSE IF accepted = {} /\ ~noEvidence
                 THEN IF claims = {} THEN "missing_claims" ELSE "invalid"
            ELSE IF rejected THEN IF accepted = {} THEN "invalid" ELSE "partial"
            ELSE "valid"
    IN  [status |-> status,
         claims |-> IF status = "revision_mismatch" THEN {} ELSE accepted]

\* What the model may write: no structured answer at all, or up to two claims.
Outputs ==
    LET Claim == {s \in SUBSET (Ids(context) \cup {0}) : Cardinality(s) \in 1..2}
    IN  {Validate(claims, n) : claims \in {{}} \cup {{a, b} : a, b \in Claim}, n \in BOOLEAN}
        \cup {[status |-> "unstructured", claims |-> {}]}

Failed(a) == a.status \notin {"valid", "no_evidence"}

\* One generation and one repair; what fails twice is replaced.
AnswerQuestion ==
    /\ stage = "generate"
    /\ tries' = tries + 1
    /\ \E out \in Outputs :
           IF Failed(out) /\ tries = 0
           THEN UNCHANGED <<answer, stage>>
           ELSE /\ answer' = IF Failed(out) THEN [out EXCEPT !.claims = {}] ELSE out
                /\ stage' = "answered"
    /\ UNCHANGED <<dense, lexical, scope, plan, ranked, context>>

RANext == FindLists \/ Fuse \/ Expand \/ Rerank \/ Cap \/ Select \/ AnswerQuestion

RASpec == RAInit /\ [][RANext]_answerVars

-----------------------------------------------------------------------------
(* Properties *)

\* The context repeats nothing, fits the budget, and a retrieved chunk is
\* missing only for a better one it repeats or because the budget is used up.
ContextIsSound ==
    stage \in {"generate", "answered"} =>
        /\ Used(context) <= Budget
        /\ \A i, j \in DOMAIN context : i # j => ~Duplicates(context[i], context[j])
        /\ \A i \in DOMAIN ranked :
               \/ ranked[i].id \in Ids(context)
               \/ \E j \in DOMAIN ranked : Priority(ranked[j], ranked[i])
                                           /\ Duplicates(ranked[i], ranked[j])
               \/ Used(context) >= Budget - 1

\* An answer that is presented as validated makes only claims with citations,
\* each to a chunk the model was given, in the question's scope, and draws on
\* one revision of each document; any other answer makes no claim at all.
AnswerIsGrounded ==
    stage = "answered" =>
        /\ answer.status = "valid" =>
            LET cited == UNION answer.claims
            IN  /\ \A ids \in answer.claims : ids # {}
                /\ cited \subseteq Ids(context)
                /\ \A a, b \in cited : /\ DocOf[a] \in scope
                                       /\ DocOf[a] = DocOf[b] => RevOf[a] = RevOf[b]
        /\ answer.status # "valid" => answer.claims = {}
=============================================================================
