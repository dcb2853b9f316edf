------------------------------- MODULE Sampling -------------------------------
(***************************************************************************)
(* Rounds of task assignment over the text units of a corpus: the units    *)
(* not yet given to every annotator are sampled, stratum by stratum, and   *)
(* the sample is dealt out.  Coding models what comes of the tasks.        *)
(***************************************************************************)
EXTENDS Naturals, FiniteSets, FiniteSetsExt, SequencesExt, Listing

CONSTANTS
    UnitCount, DocumentCount, StratumCount,  \* bounds of the corpora explored
    AnnotatorCount,
    MaxSample,   \* bound: sample_size
    Caps,        \* values of max_units_per_document, NoCap among them
    NoCap,
    MaxRounds    \* bound: rounds of assignment

ASSUME SamplingAssumption ==
    /\ {UnitCount, DocumentCount, StratumCount, AnnotatorCount, MaxSample}
          \subseteq Nat \ {0}
    /\ MaxRounds \in Nat
    /\ Caps \subseteq Nat /\ NoCap = 0

VARIABLES
    docOf,       \* the document of each unit
    stratumOf,   \* the stratum of each document (its metadata)
    assigned,    \* tasks: pairs of a unit and an annotator
    round,
    request,     \* how this round is to sample
    dealing,     \* and how the sample is to be dealt out
    step,        \* where assign_corpus_tasks is
    atoms,       \* what is drawn from: candidate units, or their documents
    targets,     \* what each stratum is to contribute
    undrawn,     \* strata not drawn from yet
    chosen,      \* atoms drawn
    sampled,     \* selected_unit_ids
    dealt        \* of the finished round: the units each annotator was dealt

samplingVars == <<docOf, stratumOf, assigned, round, request, dealing, step, atoms, targets,
                  undrawn, chosen, sampled, dealt>>

CorpusUnits == 1..UnitCount
Strata == 1..StratumCount
Annotators == 1..AnnotatorCount

SampleRequest ==
    [size : 1..MaxSample, mode : {"proportional", "equal"}, level : {"unit", "document"},
     cap : Caps]

\* The strategy and, for "overlap", the units that go to everyone.  (It may come
\* as a percentage too.)
Dealing ==
    [strategy : {"shared", "disjoint"}, overlap : {0}]
    \cup [strategy : {"overlap"}, overlap : 0..1]

NoRequest == [size |-> 0]
NoDealing == [strategy |-> "none", overlap |-> 0]
NothingDealt == [a \in Annotators |-> {}]

\* Units are listed by document.
SamplingInit ==
    /\ docOf \in {f \in [CorpusUnits -> 1..DocumentCount] :
                     \A u, v \in CorpusUnits : u < v => f[u] <= f[v]}
    /\ stratumOf \in [1..DocumentCount -> Strata]
    /\ assigned = {} /\ round = 0 /\ request = NoRequest /\ dealing = NoDealing
    /\ step = "idle"
    /\ atoms = {} /\ targets = [s \in Strata |-> 0] /\ undrawn = {} /\ chosen = {}
    /\ sampled = {} /\ dealt = NothingDealt

-----------------------------------------------------------------------------
(* Allocation of the sample to the strata *)

Smaller(m, n) == IF m < n THEN m ELSE n

\* The first shares, by mode: equal ones, the first strata getting what is left
\* over, or proportional ones, rounded by the largest remainder.
RawShares(sizes, target, mode) ==
    LET n == Len(sizes)
        all == TotalOf(sizes)
        Down(i) == (target * sizes[i]) \div all
        Rest(i) == (target * sizes[i]) % all
        over == target - TotalOf([i \in 1..n |-> Down(i)])
        Ahead(i) == {j \in 1..n : Rest(j) > Rest(i) \/ (Rest(j) = Rest(i) /\ j < i)}
    IN  [i \in 1..n |->
            IF mode = "equal"
            THEN (target \div n) + (IF i <= target % n THEN 1 ELSE 0)
            ELSE Down(i) + (IF Cardinality(Ahead(i)) < over THEN 1 ELSE 0)]

\* A stratum's turn: it gives one more if it can and one is missing.
GiveInTurn(sizes, a, t) ==
    LET i == ((t - 1) % Len(sizes)) + 1 IN
    IF a.missing > 0 /\ a.shares[i] < sizes[i]
    THEN [missing |-> a.missing - 1, shares |-> [a.shares EXCEPT ![i] = @ + 1]]
    ELSE a

\* What a stratum cannot give is asked of the others, one at a time in turn.
Redistribute(shares, sizes, missing) ==
    LET turns == [t \in 1..(missing * Len(sizes) + Len(sizes) + 1) |-> t] IN
    FoldLeft(LAMBDA a, t : GiveInTurn(sizes, a, t),
             [missing |-> missing, shares |-> shares], turns).shares

\* Mutant: what a stratum cannot give is lost.
AllocateCapped(sizes, total, mode) ==
    LET raw == RawShares(sizes, Smaller(total, TotalOf(sizes)), mode)
    IN  [i \in DOMAIN sizes |-> Smaller(raw[i], sizes[i])]

Allocate(sizes, total, mode) ==
    LET target == Smaller(total, TotalOf(sizes))
        raw == RawShares(sizes, target, mode)
        capped == [i \in DOMAIN sizes |-> Smaller(raw[i], sizes[i])]
    IN  Redistribute(capped, sizes, target - TotalOf(capped))

-----------------------------------------------------------------------------
(* One round *)

StratumOfAtom(r, x) == IF r.level = "document" THEN stratumOf[x] ELSE stratumOf[docOf[x]]
DocumentOf(r, x) == IF r.level = "document" THEN x ELSE docOf[x]

\* Units that some annotator has not got yet.
Candidates == {u \in CorpusUnits : \E a \in Annotators : <<u, a>> \notin assigned}

\* build_sampling_plan up to its loop.
StartRound ==
    /\ step = "idle"
    /\ round < MaxRounds
    /\ Candidates # {}
    /\ request' \in SampleRequest
    /\ atoms' = IF request'.level = "document" THEN {docOf[u] : u \in Candidates} ELSE Candidates
    /\ LET Members(s) == {x \in atoms' : StratumOfAtom(request', x) = s}
           keys == Ascending({s \in Strata : Members(s) # {}})
       IN  \E sizes \in {[i \in DOMAIN keys |-> Cardinality(Members(keys[i]))]} :
           LET shares == Allocate(sizes, request'.size, request'.mode)
           IN  /\ undrawn' = Range(keys)
               /\ targets' = [s \in Strata |->
                                  IF s \in Range(keys)
                                  THEN shares[CHOOSE i \in DOMAIN keys : keys[i] = s] ELSE 0]
    /\ step' = "draw"
    /\ chosen' = {} /\ sampled' = {} /\ dealt' = NothingDealt /\ dealing' = NoDealing
    /\ UNCHANGED <<docOf, stratumOf, assigned, round>>

OfDocument(r, S, d) == {x \in S : DocumentOf(r, x) = d}

\* A shuffled stratum is gone through until its target is met; with a cap on
\* documents, units of a document that has reached it are passed over.
DrawableFrom(r, pool, target) ==
    IF r.level = "unit" /\ r.cap # NoCap
    THEN {C \in SUBSET pool :
             /\ Cardinality(C) <= target
             /\ \A x \in C : Cardinality(OfDocument(r, C, docOf[x])) <= r.cap
             /\ Cardinality(C) < target =>
                    \A x \in pool \ C : Cardinality(OfDocument(r, C, docOf[x])) = r.cap}
    ELSE {C \in SUBSET pool : Cardinality(C) = target}

DrawStratum ==
    /\ step = "draw"
    /\ undrawn # {}
    /\ LET s == Min(undrawn)
           pool == {x \in atoms : StratumOfAtom(request, x) = s}
       IN  /\ undrawn' = undrawn \ {s}
           /\ \E C \in DrawableFrom(request, pool, targets[s]) : chosen' = chosen \cup C
    /\ UNCHANGED <<docOf, stratumOf, assigned, round, request, dealing, step, atoms, targets,
                   sampled, dealt>>

\* Documents stand for their units, or for as many of them as the cap allows.
DeliverSample ==
    /\ step = "draw"
    /\ undrawn = {}
    /\ IF request.level = "unit" THEN sampled' = chosen
       ELSE LET UnitsIn(d) == {u \in Candidates : docOf[u] = d}
                Most(d) == IF request.cap = NoCap THEN Cardinality(UnitsIn(d))
                           ELSE Smaller(request.cap, Cardinality(UnitsIn(d)))
            IN  \E S \in SUBSET {u \in Candidates : docOf[u] \in chosen} :
                    /\ \A d \in chosen : Cardinality(S \cap UnitsIn(d)) = Most(d)
                    /\ sampled' = S
    /\ step' = "assign"
    /\ UNCHANGED <<docOf, stratumOf, assigned, round, request, dealing, atoms, targets,
                   undrawn, chosen, dealt>>

\* Mutant: the turns leave out the last annotator.
PlanShortTurns(ids, d) ==
    LET common == IF d.strategy = "shared" THEN Len(ids) ELSE Smaller(d.overlap, Len(ids))
        TurnOf(i) == (i - common - 1) % AnnotatorCount
    IN  [a \in Annotators |->
            {ids[i] : i \in {j \in DOMAIN ids : j <= common \/ TurnOf(j) = a}}]

\* plan_annotation_assignment: some units go to everyone, the rest in turn.
PlanAssignment(ids, d) ==
    LET common == IF d.strategy = "shared" THEN Len(ids) ELSE Smaller(d.overlap, Len(ids))
        TurnOf(i) == ((i - common - 1) % AnnotatorCount) + 1
    IN  [a \in Annotators |->
            {ids[i] : i \in {j \in DOMAIN ids : j <= common \/ TurnOf(j) = a}}]

\* The sample comes in some order; tasks that exist already are left alone.
AssignSample ==
    /\ step = "assign"
    /\ dealing' \in Dealing
    /\ \E ids \in SetToSeqs(sampled) : dealt' = PlanAssignment(ids, dealing')
    /\ assigned' = assigned \cup {task \in CorpusUnits \X Annotators : task[1] \in dealt'[task[2]]}
    /\ round' = round + 1
    /\ step' = "idle"
    /\ UNCHANGED <<docOf, stratumOf, request, atoms, targets, undrawn, chosen, sampled>>

SamplingNext == StartRound \/ DrawStratum \/ DeliverSample \/ AssignSample

SamplingSpec == SamplingInit /\ [][SamplingNext]_samplingVars

-----------------------------------------------------------------------------
(* Properties *)

SizeOf(s) == Cardinality({x \in atoms : StratumOfAtom(request, x) = s})

\* A drawn sample is as large as asked for unless the atoms, or the cap on the
\* documents of a stratum, do not allow it; a proportional share is the exact
\* one rounded up or down; equal shares differ by no more than what the leftover
\* and the redistribution add, except for strata that are used up.
SampleIsFair ==
    step = "assign" =>
        LET asked == Smaller(request.size, Cardinality(atoms))
            Share(s) == Cardinality({x \in chosen : StratumOfAtom(request, x) = s})
        IN  /\ TotalOf(targets) = asked
            /\ \A s \in Strata : targets[s] <= SizeOf(s)
            /\ \A s \in Strata : Share(s) < targets[s] =>
                   \A x \in atoms \ chosen : StratumOfAtom(request, x) = s =>
                       Cardinality(OfDocument(request, chosen, docOf[x])) = request.cap
            /\ request.cap # NoCap =>
                   \A u \in sampled : Cardinality({v \in sampled : docOf[v] = docOf[u]})
                                        <= request.cap
            /\ \A s \in Strata :
                   LET exact == asked * SizeOf(s)
                       share == targets[s] * Cardinality(atoms)
                   IN  request.mode = "proportional" =>
                           share < exact + Cardinality(atoms) /\ exact < share + Cardinality(atoms)
            /\ request.mode = "equal" =>
                   \A s, t \in Strata : SizeOf(t) # 0 /\ targets[s] < SizeOf(s) =>
                       targets[t] <= targets[s] + 2

\* After a round every sampled unit has been dealt to all annotators or to one,
\* as many to all as asked for, the annotators' shares differ by at most one,
\* and with the shared strategy no unit of the sample is a candidate again.
EveryUnitIsDealt ==
    step = "idle" /\ round > 0 =>
        LET Holders(u) == {a \in Annotators : u \in dealt[a]}
            toAll == {u \in sampled : Holders(u) = Annotators}
        IN  /\ UNION {dealt[a] : a \in Annotators} = sampled
            /\ \A u \in sampled \ toAll : Cardinality(Holders(u)) = 1
            /\ dealing.strategy = "overlap" =>
                   Cardinality(toAll) >= Smaller(dealing.overlap, Cardinality(sampled))
            /\ dealing.strategy = "disjoint" /\ AnnotatorCount > 1 => toAll = {}
            /\ \A a, b \in Annotators : Cardinality(dealt[a]) <= Cardinality(dealt[b]) + 1
            /\ dealing.strategy = "shared" => sampled \cap Candidates = {}
=============================================================================
