-------------------------------- MODULE Splits --------------------------------
(***************************************************************************)
(* How labelled rows are divided for training, validating and testing      *)
(* models: the grouped plans of split_planner (the folds are scikit-       *)
(* learn's, any its contract allows) and the sweeps of validation_splits.  *)
(***************************************************************************)
EXTENDS Listing, Sequences, FiniteSetsExt, Functions

CONSTANTS
    RowCount,   \* bound: rows
    Values,     \* values of the field, each named by its place among their texts
                \* as Python sorts strings
    Undated,    \* those that tell no time
    Moment,     \* of the others, the number or the date they tell
    Unknown,    \* the value of a row without one
    Labels,
    TestFolds, ValFolds,      \* 1 / test_size and 1 / val_size, rounded
    OuterSplits, InnerSplits  \* of the nested plan

ASSUME SplitsAssumption ==
    /\ RowCount \in Nat \ {0}
    /\ Values \subseteq Nat /\ Unknown \in Nat \ Values
    /\ Undated \subseteq Values /\ Moment \in [Values \ Undated -> Nat]
    /\ {TestFolds, ValFolds, OuterSplits, InnerSplits} \subseteq Nat \ {0, 1}

VARIABLES
    valueOf,  \* of each row, the value of the grouping (or temporal) field
    labelOf,  \* of each row, its class
    stored,   \* whether the field holds numbers, texts, or numbers in some rows
              \* and texts in others
    method,   \* the plan that was made last
    splits    \* and its splits

rowVars == <<valueOf, labelOf, stored>>
splitsVars == <<rowVars, method, splits>>

Rows == 1..RowCount
ValuesIn(S) == {valueOf[i] : i \in S} \ {Unknown}
RowsOf(V) == {i \in Rows : valueOf[i] \in V}

Split(train, val, test) == [train |-> train, val |-> val, test |-> test]

SplitsInit ==
    /\ valueOf \in [Rows -> Values \cup {Unknown}]
    /\ labelOf \in [Rows -> Labels]
    /\ stored \in {"numbers", "texts", "mixed"}
    /\ stored = "numbers" => ValuesIn(Rows) \cap Undated = {}
    /\ stored = "mixed" => Cardinality({i \in Rows : valueOf[i] # Unknown}) >= 2
    /\ method = "none"
    /\ splits = {}

-----------------------------------------------------------------------------
(* Grouped plans *)

\* evaluate_stratified_group_feasibility, of the rows of a pool.
Feasible(S, multilabel, folds) ==
    /\ ~multilabel
    /\ Cardinality(ValuesIn(S)) >= 2
    /\ \A l \in {labelOf[i] : i \in S} :
           Cardinality(ValuesIn({i \in S : labelOf[i] = l})) >= folds

\* The splitters work on positions in the pool they are given.
Positions(pool, groups) == {p \in DOMAIN pool : valueOf[pool[p]] \in groups}

\* Mutant: positions in the pool are taken for rows.
AtPositions(pool, positions) == positions

At(pool, positions) == {pool[p] : p \in positions}

Pool(S) == Ascending(S)

\* One fold of StratifiedGroupKFold holds some groups, not all; GroupShuffleSplit
\* holds out a share of them, rounded up.
HeldOut(S, stratified, folds) ==
    LET groups == ValuesIn(S)
        share == (Cardinality(groups) + folds - 1) \div folds
    IN  IF stratified THEN SUBSET groups \ {{}, groups}
        ELSE {G \in SUBSET groups : Cardinality(G) = share}

\* _pick_stratified_fold and _group_shuffle_holdout: what stays, what is held out.
Divide(S, groups) ==
    LET pool == Pool(S)
        held == Positions(pool, groups)
    IN  [stays |-> At(pool, DOMAIN pool \ held), held |-> At(pool, held)]

\* plan_grouped_splits: the test set first, then the validation set from the
\* rest, unless only one group is left.
PlanGrouped(multilabel, preferred) ==
    LET stratified == preferred /\ Feasible(Rows, multilabel, TestFolds)
    IN  /\ Cardinality(ValuesIn(Rows)) >= 2
        /\ \A i \in Rows : valueOf[i] # Unknown
        /\ \E G \in HeldOut(Rows, stratified, TestFolds) :
               LET first == Divide(Rows, G)
                   rest == first.stays
                   inner == stratified /\ Feasible(rest, multilabel, ValFolds)
               IN  IF Cardinality(ValuesIn(rest)) < 2
                   THEN splits' = {Split(rest, {}, first.held)}
                   ELSE \E H \in HeldOut(rest, inner, ValFolds) :
                            LET second == Divide(rest, H)
                            IN  splits' = {Split(second.stays, second.held, first.held)}
        /\ method' = "grouped"
        /\ UNCHANGED rowVars

\* (Stratified)GroupKFold: the groups dealt to the folds, none left empty.
Folds(S, folds) ==
    {f \in [ValuesIn(S) -> 1..folds] : \A k \in 1..folds : \E g \in DOMAIN f : f[g] = k}

FoldCount(S, multilabel, wanted) ==
    IF Feasible(S, multilabel, wanted) THEN wanted
    ELSE Min({wanted, Cardinality(ValuesIn(S))})

Fold(S, f, k) == Divide(S, {g \in DOMAIN f : f[g] = k})

\* nested_grouped_cv_indices: one of the outer folds, and the inner folds of its
\* training part.  The split of the outer fold has no validation set.
PlanNested(multilabel) ==
    /\ Cardinality(ValuesIn(Rows)) >= 2
    /\ \A i \in Rows : valueOf[i] # Unknown
    /\ \E f \in Folds(Rows, FoldCount(Rows, multilabel, OuterSplits)) :
           \E k \in Range(f) :
               LET outer == Fold(Rows, f, k)
                   rest == outer.stays
                   alone == Split(rest, {}, outer.held)
               IN  IF Cardinality(ValuesIn(rest)) < 2 THEN splits' = {alone}
                   ELSE \E g \in Folds(rest, FoldCount(rest, multilabel, InnerSplits)) :
                            splits' = {alone} \cup
                                {LET part == Fold(rest, g, j)
                                 IN  Split(part.stays, part.held, outer.held) : j \in Range(g)}
    /\ method' = "nested"
    /\ UNCHANGED rowVars

-----------------------------------------------------------------------------
(* Sweeps over the values *)

\* leave_one_group_out, of at most so many groups.
LeaveOneOut(most) ==
    /\ LET Rank(v) == Cardinality({w \in ValuesIn(Rows) : w <= v})
       IN  splits' = {Split(RowsOf(ValuesIn(Rows) \ {v}), {}, RowsOf({v})) :
                          v \in {w \in ValuesIn(Rows) : Rank(w) <= most}}
    /\ method' = "leaveOut"
    /\ UNCHANGED rowVars

\* transfer_split; values on both sides are refused, Unknown ones ignored.
Transfer(A, B) ==
    /\ A \ {Unknown} # {} /\ B \ {Unknown} # {}
    /\ (A \cap B) \ {Unknown} = {}
    /\ splits' = {Split(RowsOf(A \ {Unknown}), {}, RowsOf(B \ {Unknown}))}
    /\ method' = "transfer"
    /\ UNCHANGED rowVars

\* Where _orderable_periods puts a value: numbers as numbers, and every text
\* that is not blank among the texts, whatever it tells.
Place(v) == IF stored = "numbers" THEN Moment[v] ELSE v

Places == {Place(v) : v \in ValuesIn(Rows)}
Periods == Ascending(Places)
RowsAt(P) == {i \in Rows : valueOf[i] # Unknown /\ Place(valueOf[i]) \in P}

\* sorted() compares no number with a text: TypeError, and no split.
Sortable == stored # "mixed"

\* temporal_holdout_split without split_at: up to the middle period.
Holdout ==
    /\ Sortable
    /\ Len(Periods) >= 2
    /\ LET cutoff == Periods[Len(Periods) \div 2]
           early == {p \in Places : p <= cutoff}
       IN  splits' = {Split(RowsAt(early), {}, RowsAt(Places \ early))}
    /\ method' = "holdout"
    /\ UNCHANGED rowVars

\* expanding_window_splits and rolling_window_splits: each period is tested with
\* all before it, or with so many before it.
Windows(size, fewest) ==
    LET Before(k) == {Periods[j] : j \in (IF size = 0 THEN 1 ELSE k - size)..(k - 1)}
        first == IF size = 0 THEN 2 ELSE size + 1
    IN  /\ Sortable
        /\ splits' = IF Len(Periods) < fewest THEN {}
                     ELSE {Split(RowsAt(Before(k)), {}, RowsAt({Periods[k]})) :
                               k \in first..Len(Periods)}
        /\ method' = IF size = 0 THEN "expanding" ELSE "rolling"
        /\ UNCHANGED rowVars

SplitsNext ==
    /\ method = "none"
    /\ \/ \E multilabel, preferred \in BOOLEAN : PlanGrouped(multilabel, preferred)
       \/ \E multilabel \in BOOLEAN : PlanNested(multilabel)
       \/ \E most \in 0..Cardinality(Values) : LeaveOneOut(most)
       \/ \E A, B \in SUBSET (Values \cup {Unknown}) : Transfer(A, B)
       \/ Holdout
       \/ \E size \in 0..2, fewest \in 1..3 : Windows(size, fewest)

SplitsSpec == SplitsInit /\ [][SplitsNext]_splitsVars

-----------------------------------------------------------------------------
(* Properties *)

\* The three parts of a split share no group.
GroupsApart(s) ==
    /\ ValuesIn(s.train) \cap ValuesIn(s.test) = {}
    /\ ValuesIn(s.train) \cap ValuesIn(s.val) = {}
    /\ ValuesIn(s.val) \cap ValuesIn(s.test) = {}

\* What is tested lies later than all that was trained on, and both tell when.
TestedLater(s) ==
    \A i \in s.train, j \in s.test :
        /\ {valueOf[i], valueOf[j]} \cap Undated = {}
        /\ Moment[valueOf[i]] < Moment[valueOf[j]]

TemporalPlans == {"holdout", "expanding", "rolling"}

\* The field holds numbers, or texts that all tell a time and sort by it, as
\* dates of one form do.
SortedByTime ==
    \/ stored = "numbers"
    \/ /\ ValuesIn(Rows) \cap Undated = {}
       /\ \A v, w \in ValuesIn(Rows) : v < w => Moment[v] < Moment[w]

\* Nothing leaks into training: parts of a split share no group (so that the
\* assertion of plan_grouped_splits never fails), a grouped plan uses every row,
\* the inner folds validate every row that their outer fold does not test
\* exactly once, and a temporal plan has rows on both sides, one test of each
\* period that has a window before it, and tests what lies later than all it
\* trains on, if the field sorts by time (if not, TestsLieLater fails).
NothingLeaks ==
    /\ \A s \in splits : GroupsApart(s)
    /\ method \in {"grouped", "nested"} =>
           \A s \in splits : s.train \cup s.val \cup s.test = Rows
    /\ method = "nested" /\ Cardinality(splits) > 1 =>
           \A i \in Rows : (\A s \in splits : i \notin s.test) =>
               Cardinality({s \in splits : i \in s.val}) = 1
    /\ method \in TemporalPlans =>
           \A s \in splits :
               /\ s.train # {} /\ s.test # {}
               /\ SortedByTime => TestedLater(s)
    /\ method = "expanding" /\ splits # {} =>
           Cardinality(splits) = Cardinality(Places) - 1

\* What validation_splits says of its temporal plans, whatever the field holds:
\* they train before they test, and rows whose value tells no time are dropped.
TestsLieLater == method \in TemporalPlans => \A s \in splits : TestedLater(s)
=============================================================================
