------------------------------ MODULE Reliability ------------------------------
(***************************************************************************)
(* The inter-coder statistics, computed on one reliability matrix after    *)
(* another.  A statistic is a fraction [num, den]: the code computes in    *)
(* floating point, which the model abstracts.                              *)
(***************************************************************************)
EXTENDS Integers, FiniteSets, FiniteSetsExt, Functions

CONSTANTS
    Units,       \* numbers 1..n of annotated units
    Coders,      \* numbers 1..m of coders
    Categories,
    Missing,     \* a cell without a label
    Scale        \* a common multiple of 1..(number of coders - 1)

ASSUME ReliabilityAssumption ==
    /\ IsFiniteSet(Units) /\ Units # {} /\ Units = 1..Cardinality(Units)
    /\ IsFiniteSet(Coders) /\ Coders # {} /\ Coders = 1..Cardinality(Coders)
    /\ IsFiniteSet(Categories) /\ Missing \notin Categories
    /\ Scale \in Nat \ {0}
    /\ \A m \in 1..(Cardinality(Coders) - 1) : Scale % m = 0

VARIABLES
    matrix,   \* units x coders
    stats     \* the statistics reported for it

relVars == <<matrix, stats>>

Undefined == [num |-> 0, den |-> 0]
One == [num |-> 1, den |-> 1]

\* a - b over 1 - b, for a = p/q and b = r/q: a chance-corrected agreement.
\* When chance alone explains everything it is 1 or 0.
Corrected(p, r, q) ==
    IF r = q THEN IF p = q THEN One ELSE [num |-> 0, den |-> 1]
    ELSE [num |-> p - r, den |-> q - r]

Ratings(data, u) == {c \in Coders : data[u][c] # Missing}
Count(data, u, k) == Cardinality({c \in Coders : data[u][c] = k})
Total(data, U, k) == SumFunction([u \in U |-> Count(data, u, k)])

\* Proportions of the two coders' categories, over the units both labelled.
CohensKappa(data, a, b) ==
    LET both == {u \in Units : {a, b} \subseteq Ratings(data, u)}
        n == Cardinality(both)
        matches == Cardinality({u \in both : data[u][a] = data[u][b]})
        Of(c, k) == Cardinality({u \in both : data[u][c] = k})
        expected == SumFunction([k \in Categories |-> Of(a, k) * Of(b, k)])
    IN  IF n = 0 THEN [num |-> 0, den |-> 1]
        ELSE Corrected(n * matches, expected, n * n)

\* Mutant: a pair is weighed by the number of coders, whether those rated the
\* unit or not.
CodersWeight(m) == Scale \div (Cardinality(Coders) - 1)

\* The weight 1 / (m - 1) of a pair in a unit with m ratings, times Scale.
Weight(m) == Scale \div (m - 1)

\* Krippendorff's alpha by the coincidence matrix, which is Scale times as large here.
KrippendorffsAlpha(data) ==
    LET pairable == {u \in Units : Cardinality(Ratings(data, u)) >= 2}
        used == {k \in Categories : \E u \in Units : Count(data, u, k) > 0}
        Coincidence(k, l) ==
            SumFunction([u \in pairable |->
                    Weight(Cardinality(Ratings(data, u))) * Count(data, u, k) *
                    (IF k = l THEN Count(data, u, k) - 1 ELSE Count(data, u, l))])
        total == [k \in used |-> SumFunction([l \in used |-> Coincidence(k, l)])]
        n == SumFunction([u \in pairable |-> Cardinality(Ratings(data, u))])
        unlike == {p \in used \X used : p[1] # p[2]}
        observed == SumFunction([p \in unlike |-> Coincidence(p[1], p[2])])
        expected == SumFunction([p \in unlike |-> total[p[1]] * total[p[2]]])
    IN  IF pairable = {} THEN Undefined
        ELSE IF Cardinality(used) < 2 \/ expected = 0 THEN One
        ELSE [num |-> expected - (n - 1) * Scale * observed, den |-> expected]

\* The number of ratings most units with at least two have; of several equally
\* frequent ones the one the first such unit has.
ModalRaters(data) ==
    LET rated == {u \in Units : Cardinality(Ratings(data, u)) >= 2}
        Like(u) == {v \in rated : Cardinality(Ratings(data, v)) = Cardinality(Ratings(data, u))}
        modal == {u \in rated : \A v \in rated : Cardinality(Like(u)) >= Cardinality(Like(v))}
    IN  IF rated = {} THEN 0 ELSE Cardinality(Ratings(data, Min(modal)))

\* Fleiss' kappa over the units with the modal number of ratings.
FleissKappa(data) ==
    LET n == ModalRaters(data)
        included == {u \in Units : Cardinality(Ratings(data, u)) = n}
        N == Cardinality(included)
        square(k) == Total(data, included, k) * Total(data, included, k)
        agreeing == SumFunction([u \in included |->
                        SumFunction([k \in Categories |-> Count(data, u, k) * Count(data, u, k)]) - n])
        expected == SumFunction([k \in Categories |-> square(k)])
    IN  IF n < 3 \/ N < 2 THEN Undefined
        ELSE Corrected(agreeing * N * n, expected * (n - 1), N * N * n * n * (n - 1))

Report(data) ==
    [kappa |-> CohensKappa(data, 1, 2),
     alpha |-> KrippendorffsAlpha(data),
     fleiss |-> FleissKappa(data)]

RelInit ==
    /\ matrix = [u \in Units |-> [c \in Coders |-> Missing]]
    /\ stats = Report(matrix)

\* A coder labels a unit.
Label(u, c, k) ==
    /\ matrix[u][c] = Missing
    /\ matrix' = [matrix EXCEPT ![u][c] = k]
    /\ stats' = Report(matrix')

RelNext == \E u \in Units, c \in Coders, k \in Categories : Label(u, c, k)

RelSpec == RelInit /\ [][RelNext]_relVars

-----------------------------------------------------------------------------
(* Properties *)

Complete == \A u \in Units : Ratings(matrix, u) = Coders

\* On complete data the two multi-coder statistics, computed in different ways,
\* are tied by (1 - alpha) * N = (N - 1) * (1 - kappa), for N labels in all.
AlphaAgreesWithFleiss ==
    LET N == Cardinality(Units) * Cardinality(Coders)
        a == stats.alpha
        f == stats.fleiss
    IN  Complete /\ f # Undefined =>
            (a.den - a.num) * N * f.den = (N - 1) * (f.den - f.num) * a.den

\* Whichever ratings are missing, alpha is what its definition makes of the units
\* with at least two: 1 - (N - 1) * D / E, where D counts the ordered pairs of
\* coders who differ over a unit, each divided by the other ratings of the unit,
\* and E the ordered pairs of ratings of different categories; 1 if there are
\* none of these, and undefined if there is no such unit.
AlphaOfRatings ==
    LET a == stats.alpha
        units == {u \in Units : Cardinality(Ratings(matrix, u)) >= 2}
        size(u) == Cardinality(Ratings(matrix, u))
        differing(u) == {p \in Ratings(matrix, u) \X Ratings(matrix, u) :
                             matrix[u][p[1]] # matrix[u][p[2]]}
        N == SumFunction([u \in units |-> size(u)])
        D == SumFunction([u \in units |->
                              (Scale \div (size(u) - 1)) * Cardinality(differing(u))])
        E == N * N - SumFunction([k \in Categories |->
                                      Total(matrix, units, k) * Total(matrix, units, k)])
    IN  CASE units = {} -> a = Undefined
          [] units # {} /\ E = 0 -> a = One
          [] units # {} /\ E # 0 ->
                 a.den # 0 /\ (a.den - a.num) * Scale * E = (N - 1) * D * a.den

\* The statistics reported for one matrix agree with the definition of alpha, and
\* with each other where both are to say the same.
AgreementIsSound == AlphaOfRatings /\ AlphaAgreesWithFleiss
=============================================================================
