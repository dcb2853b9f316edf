------------------------------ MODULE ListLemmas ------------------------------
(***************************************************************************)
(* Facts about counting, listing, folding, dividing and adding up that the *)
(* proofs need.  The induction theorems of the library take an operator,   *)
(* which no prover here can instantiate; induction over a set of naturals  *)
(* (Inductive) serves instead, with the set of numbers for which a claim   *)
(* holds.                                                                  *)
(***************************************************************************)
EXTENDS Listing, Integers, FiniteSetsExt, FiniteSetTheorems, FunctionTheorems, SequenceTheorems,
        TLAPS

\* Every non-empty set of naturals has a least element.
LEMMA LeastNatural ==
    ASSUME NEW T \in SUBSET Nat, T # {}
    PROVE  \E x \in T : \A y \in T : x <= y
<1>1. IsWellFoundedOn(OpToRel(<, Nat), Nat)
  BY NatLessThanWellFounded
<1>2. PICK x \in T : \A y \in T : ~(<<y, x>> \in OpToRel(<, Nat))
  BY <1>1, WFMin
<1>3. \A y \in T : ~(y < x)
  BY <1>2 DEF OpToRel
<1> QED
  BY <1>3

\* Induction.
LEMMA Inductive ==
    ASSUME NEW S, 0 \in S, \A n \in Nat : n \in S => n + 1 \in S
    PROVE  Nat \subseteq S
<1> SUFFICES ASSUME Nat \ S # {} PROVE FALSE
  OBVIOUS
<1>1. PICK x \in Nat \ S : \A y \in Nat \ S : x <= y
  BY LeastNatural
<1> QED
  BY <1>1

-----------------------------------------------------------------------------
(* Counting *)

\* A part that leaves something out is smaller.
LEMMA ProperPartIsSmaller ==
    ASSUME NEW S, IsFiniteSet(S), NEW T \in SUBSET S, NEW x \in S, x \notin T
    PROVE  /\ IsFiniteSet(T)
           /\ Cardinality(T) \in Nat /\ Cardinality(S) \in Nat
           /\ Cardinality(T) < Cardinality(S)
<1>1. IsFiniteSet(T) /\ Cardinality(T) <= Cardinality(S)
      /\ (Cardinality(S) = Cardinality(T) => S = T)
  BY FS_Subset
<1>2. S # T
  OBVIOUS
<1>3. Cardinality(T) \in Nat /\ Cardinality(S) \in Nat
  BY <1>1, FS_CardinalityType
<1> QED
  BY <1>1, <1>2, <1>3

\* A strict total order of a finite set, as a set of pairs.
StrictOrder(R, S) ==
    /\ \A x \in S : <<x, x>> \notin R
    /\ \A x, y, z \in S : <<x, y>> \in R /\ <<y, z>> \in R => <<x, z>> \in R
    /\ \A x, y \in S : x # y => <<x, y>> \in R \/ <<y, x>> \in R

RankOf(R, S) == [x \in S |-> Cardinality({y \in S : <<y, x>> \in R})]

\* Counting what comes before numbers the elements of a finite ordered set, from
\* zero and without a gap.
LEMMA Ranks ==
    ASSUME NEW S, IsFiniteSet(S), NEW R, StrictOrder(R, S)
    PROVE  /\ RankOf(R, S) \in Bijection(S, 0..(Cardinality(S) - 1))
           /\ \A x, y \in S : <<x, y>> \in R <=> RankOf(R, S)[x] < RankOf(R, S)[y]
<1> DEFINE Below(x) == {y \in S : <<y, x>> \in R}
           N == Cardinality(S)
           rank == RankOf(R, S)
<1>1. N \in Nat
  BY FS_CardinalityType
<1>2. \A x \in S : rank[x] = Cardinality(Below(x))
  BY DEF RankOf
<1>3. ASSUME NEW x \in S PROVE rank[x] \in 0..(N - 1)
  <2>1. Below(x) \in SUBSET S /\ x \notin Below(x)
    BY DEF StrictOrder
  <2>2. Cardinality(Below(x)) \in Nat /\ Cardinality(Below(x)) < N
    BY <2>1, ProperPartIsSmaller
  <2> QED
    BY <1>1, <1>2, <2>2
<1>4. ASSUME NEW x \in S, NEW y \in S, <<x, y>> \in R PROVE rank[x] < rank[y]
  <2>1. Below(x) \in SUBSET Below(y)
    BY <1>4 DEF StrictOrder
  <2>2. x \in Below(y) /\ x \notin Below(x)
    BY <1>4 DEF StrictOrder
  <2>3. IsFiniteSet(Below(y))
    BY FS_Subset
  <2>4. Cardinality(Below(x)) < Cardinality(Below(y))
    BY <2>1, <2>2, <2>3, ProperPartIsSmaller
  <2> QED
    BY <1>2, <2>4
<1>5. rank \in [S -> 0..(N - 1)]
  BY <1>3 DEF RankOf
<1> HIDE DEF rank, N
<1>6. ASSUME NEW x \in S, NEW y \in S
      PROVE  /\ rank[x] = rank[y] => x = y
             /\ <<x, y>> \in R <=> rank[x] < rank[y]
  <2>1. rank[x] \in Int /\ rank[y] \in Int
    BY <1>3
  <2>2. CASE x = y
    BY <2>1, <2>2 DEF StrictOrder
  <2>3. CASE <<x, y>> \in R
    BY <1>4, <2>1, <2>3
  <2>4. CASE x # y /\ <<y, x>> \in R
    <3>1. rank[y] < rank[x]
      BY <1>4, <2>4
    <3>2. <<x, y>> \notin R
      BY <2>4 DEF StrictOrder
    <3> QED
      BY <2>1, <2>4, <3>1, <3>2
  <2> QED
    BY <2>2, <2>3, <2>4 DEF StrictOrder
<1>7. rank \in Injection(S, 0..(N - 1))
  BY <1>5, <1>6, Fun_IsInj
<1>8. IsFiniteSet(0..(N - 1)) /\ Cardinality(0..(N - 1)) = N
  BY <1>1, FS_Interval
<1>9. rank \in Surjection(S, 0..(N - 1))
  BY <1>7, <1>8, FS_Injection DEF N
<1> QED
  BY <1>6, <1>7, <1>9 DEF rank, N, Bijection

\* What ranks from m to n: as many as there are numbers.
LEMMA RankedBetween ==
    ASSUME NEW S, IsFiniteSet(S), NEW R, StrictOrder(R, S), NEW m \in Nat, NEW n \in Nat,
           m <= n, n <= Cardinality(S)
    PROVE  LET T == {x \in S : m <= RankOf(R, S)[x] /\ RankOf(R, S)[x] < n}
           IN  IsFiniteSet(T) /\ Cardinality(T) = n - m
<1> DEFINE T == {x \in S : m <= RankOf(R, S)[x] /\ RankOf(R, S)[x] < n}
           f == [x \in T |-> RankOf(R, S)[x]]
<1>0. Cardinality(S) \in Nat
  BY FS_CardinalityType
<1>1. /\ RankOf(R, S) \in [S -> 0..(Cardinality(S) - 1)]
      /\ \A x, y \in S : RankOf(R, S)[x] = RankOf(R, S)[y] => x = y
      /\ \A k \in 0..(Cardinality(S) - 1) : \E x \in S : RankOf(R, S)[x] = k
  <2>1. RankOf(R, S) \in Bijection(S, 0..(Cardinality(S) - 1))
    BY Ranks
  <2> QED
    BY <2>1 DEF Bijection, Injection, Surjection, IsInjective
<1>2. f \in [T -> m..(n - 1)]
  BY <1>0, <1>1
<1>3. \A x, y \in T : f[x] = f[y] => x = y
  BY <1>1
<1>4. \A k \in m..(n - 1) : \E x \in T : f[x] = k
  <2> SUFFICES ASSUME NEW k \in m..(n - 1) PROVE \E x \in T : f[x] = k
    OBVIOUS
  <2>1. k \in 0..(Cardinality(S) - 1)
    BY <1>0
  <2>2. PICK x \in S : RankOf(R, S)[x] = k
    BY <1>1, <2>1
  <2> QED
    BY <2>2
<1>5. f \in Bijection(T, m..(n - 1))
  BY <1>2, <1>3, <1>4, Fun_IsBij
<1>6. IsFiniteSet(T)
  BY FS_Subset
<1>7. Cardinality(T) = Cardinality(m..(n - 1))
  BY <1>5, <1>6, FS_Bijection, Fun_ExistsBij
<1>8. Cardinality(m..(n - 1)) = n - m
  <2>1. m \in Int /\ n - 1 \in Int
    OBVIOUS
  <2>2. Cardinality(m..(n - 1)) = IF m > n - 1 THEN 0 ELSE (n - 1) - m + 1
    BY <2>1, FS_Interval
  <2> QED
    BY <2>2
<1> QED
  BY <1>6, <1>7, <1>8

-----------------------------------------------------------------------------
(* Listing *)

\* What is listed by rank has every element once, in order.
LEMMA ListedByRank ==
    ASSUME NEW S, IsFiniteSet(S), NEW R, StrictOrder(R, S), NEW list,
           list = [k \in 1..Cardinality(S) |-> CHOOSE x \in S : RankOf(R, S)[x] = k - 1]
    PROVE  /\ list \in Bijection(1..Cardinality(S), S)
           /\ \A i, j \in 1..Cardinality(S) : i < j => <<list[i], list[j]>> \in R
<1> DEFINE N == Cardinality(S)
           rank == RankOf(R, S)
<1>1. N \in Nat
  BY FS_CardinalityType
<1>2. rank \in Bijection(S, 0..(N - 1))
      /\ \A x, y \in S : <<x, y>> \in R <=> rank[x] < rank[y]
  BY Ranks
<1> HIDE DEF rank, N
<1>3. /\ rank \in [S -> 0..(N - 1)]
      /\ \A x, y \in S : rank[x] = rank[y] => x = y
      /\ \A k \in 0..(N - 1) : \E x \in S : rank[x] = k
  BY <1>2 DEF Bijection, Injection, Surjection, IsInjective
<1>4. list = [k \in 1..N |-> CHOOSE x \in S : rank[x] = k - 1]
  BY DEF rank, N
<1>5. ASSUME NEW k \in 1..N PROVE list[k] \in S /\ rank[list[k]] = k - 1
  <2>1. k - 1 \in 0..(N - 1)
    BY <1>1
  <2>2. \E x \in S : rank[x] = k - 1
    BY <1>3, <2>1
  <2> QED
    BY <1>4, <2>2
<1>6. \A i, j \in 1..N : list[i] = list[j] => i = j
  <2> SUFFICES ASSUME NEW i \in 1..N, NEW j \in 1..N, list[i] = list[j] PROVE i = j
    OBVIOUS
  <2>1. i - 1 = j - 1
    BY <1>5
  <2> QED
    BY <1>1, <2>1
<1>7. \A x \in S : \E k \in 1..N : list[k] = x
  <2> SUFFICES ASSUME NEW x \in S PROVE \E k \in 1..N : list[k] = x
    OBVIOUS
  <2>1. rank[x] + 1 \in 1..N /\ (rank[x] + 1) - 1 = rank[x]
    BY <1>1, <1>3
  <2>2. rank[list[rank[x] + 1]] = rank[x] /\ list[rank[x] + 1] \in S
    BY <1>5, <2>1
  <2> QED
    BY <1>3, <2>1, <2>2
<1>8. list \in [1..N -> S]
  BY <1>4, <1>5
<1>9. list \in Bijection(1..N, S)
  <2> HIDE DEF N
  <2>1. list \in Injection(1..N, S)
    BY <1>6, <1>8 DEF Injection, IsInjective
  <2>2. list \in Surjection(1..N, S)
    BY <1>7, <1>8 DEF Surjection
  <2> QED
    BY <2>1, <2>2 DEF Bijection
<1>10. ASSUME NEW i \in 1..N, NEW j \in 1..N, i < j PROVE <<list[i], list[j]>> \in R
  <2>1. rank[list[i]] = i - 1 /\ rank[list[j]] = j - 1 /\ list[i] \in S /\ list[j] \in S
    BY <1>5
  <2>2. rank[list[i]] < rank[list[j]]
    BY <1>1, <1>10, <2>1
  <2> QED
    BY <1>2, <2>1, <2>2
<1> QED
  BY <1>9, <1>10 DEF N

\* A finite set of numbers in ascending order.
LEMMA AscendingLists ==
    ASSUME NEW S \in SUBSET Int, IsFiniteSet(S)
    PROVE  /\ Cardinality(S) \in Nat
           /\ Ascending(S) \in Seq(S) /\ Len(Ascending(S)) = Cardinality(S)
           /\ Ascending(S) \in Bijection(1..Cardinality(S), S)
           /\ \A i, j \in 1..Cardinality(S) : i < j => Ascending(S)[i] < Ascending(S)[j]
<1> DEFINE R == {p \in Int \X Int : p[1] < p[2]}
           N == Cardinality(S)
<1>1. StrictOrder(R, S)
  BY DEF StrictOrder
<1>2. \A x \in S : RankOf(R, S)[x] = Cardinality({y \in S : y < x})
  <2> SUFFICES ASSUME NEW x \in S
               PROVE  RankOf(R, S)[x] = Cardinality({y \in S : y < x})
    OBVIOUS
  <2>1. {y \in S : <<y, x>> \in R} = {y \in S : y < x}
    OBVIOUS
  <2> QED
    BY <2>1 DEF RankOf
<1>3. Ascending(S) = [k \in 1..N |-> CHOOSE x \in S : Cardinality({y \in S : y < x}) = k - 1]
  BY DEF Ascending, Listed
<1>4. Ascending(S) = [k \in 1..N |-> CHOOSE x \in S : RankOf(R, S)[x] = k - 1]
  BY <1>2, <1>3
<1>5. /\ Ascending(S) \in Bijection(1..N, S)
      /\ \A i, j \in 1..N : i < j => <<Ascending(S)[i], Ascending(S)[j]>> \in R
  BY <1>1, <1>4, ListedByRank
<1>6. N \in Nat
  BY FS_CardinalityType
<1>7. Ascending(S) \in [1..N -> S]
  BY <1>5 DEF Bijection, Injection
<1>8. Ascending(S) \in Seq(S) /\ Len(Ascending(S)) = N
  <2> HIDE DEF N
  <2> QED
    BY <1>6, <1>7
<1> QED
  BY <1>5, <1>6, <1>8

-----------------------------------------------------------------------------
(* Folding *)

\* A finite set of numbers has a largest element.
LEMMA LargestExists ==
    ASSUME NEW n \in Nat, NEW s \in SUBSET (1..n), s # {}
    PROVE  Max(s) \in s /\ \A y \in s : Max(s) >= y
<1> DEFINE T == {m \in Nat : \A y \in s : m >= y}
<1>1. T \in SUBSET Nat /\ n \in T
  OBVIOUS
<1>2. PICK m \in T : \A k \in T : m <= k
  <2> HIDE DEF T
  <2> QED
    BY <1>1, LeastNatural
<1>3. m \in s
  <2> SUFFICES ASSUME m \notin s PROVE FALSE
    OBVIOUS
  <2>1. \A y \in s : y \in Nat /\ m >= y /\ m # y /\ y > 0
    OBVIOUS
  <2>2. m > 0
    <3>1. PICK y \in s : TRUE
      OBVIOUS
    <3>2. m \in Nat /\ y \in Nat /\ m >= y /\ y > 0
      BY <2>1
    <3> QED
      BY <3>2
  <2>3. m - 1 \in T
    BY <2>1, <2>2
  <2> QED
    BY <1>2, <2>3
<1>4. \E x \in s : \A y \in s : x >= y
  BY <1>3
<1> QED
  BY <1>4, Zenon DEF Max

\* The largest of numbers up to k + 1, when that is one of them.
LEMMA MaxUpTo ==
    ASSUME NEW k \in Nat, NEW s \in SUBSET (1..(k + 1)), k + 1 \in s
    PROVE  Max(s) = k + 1 /\ s \ {Max(s)} \in SUBSET (1..k)
<1>1. \A y \in s : k + 1 >= y
  OBVIOUS
<1>2. \A x \in s : (\A y \in s : x >= y) => x = k + 1
  OBVIOUS
<1>3. Max(s) \in s /\ \A y \in s : Max(s) >= y
  BY <1>1, Zenon DEF Max
<1>4. Max(s) = k + 1
  BY <1>2, <1>3
<1> QED
  BY <1>4

\* The folds of the library go over sets of numbers, here the largest number last.
FoldsOver(it, n, base, step) ==
    \A s \in SUBSET (1..n) :
        it[s] = IF s = {} THEN base ELSE step[<<Max(s), it[s \ {Max(s)}]>>]

\* Such a fold is well defined, as long as every step stays within a set.
LEMMA FoldExists ==
    ASSUME NEW n \in Nat, NEW A, NEW base \in A, NEW step \in [(1..n) \X A -> A]
    PROVE  \E it \in [SUBSET (1..n) -> A] : FoldsOver(it, n, base, step)
<1> DEFINE Folds(m, it) == \A s \in SUBSET (1..m) :
                 it[s] = IF s = {} THEN base ELSE step[<<Max(s), it[s \ {Max(s)}]>>]
           Defined(m) == \E it \in [SUBSET (1..m) -> A] : Folds(m, it)
           S == {m \in Nat : m <= n => Defined(m)}
<1>1. 0 \in S
  <2> DEFINE it == [s \in SUBSET (1..0) |-> base]
  <2>1. it \in [SUBSET (1..0) -> A]
    OBVIOUS
  <2>2. \A s \in SUBSET (1..0) : s = {}
    OBVIOUS
  <2>3. Folds(0, it)
    BY <2>2
  <2> QED
    BY <2>1, <2>3
<1>2. ASSUME NEW m \in Nat, m \in S PROVE m + 1 \in S
  <2> SUFFICES ASSUME m + 1 <= n PROVE Defined(m + 1)
    <3> HIDE DEF Defined
    <3> QED
      OBVIOUS
  <2>0. Defined(m)
    <3> HIDE DEF Defined
    <3> QED
      BY <1>2
  <2>1. PICK it \in [SUBSET (1..m) -> A] : Folds(m, it)
    BY <2>0
  <2> DEFINE ft == [s \in SUBSET (1..(m + 1)) |->
                       IF m + 1 \in s THEN step[<<m + 1, it[s \ {m + 1}]>>] ELSE it[s]]
  <2>2. \A s \in SUBSET (1..(m + 1)) : m + 1 \notin s => s \in SUBSET (1..m)
    OBVIOUS
  <2>3. \A s \in SUBSET (1..(m + 1)) : s \ {m + 1} \in SUBSET (1..m)
    OBVIOUS
  <2>4. m + 1 \in 1..n
    OBVIOUS
  <2>5. ft \in [SUBSET (1..(m + 1)) -> A]
    BY <2>2, <2>3, <2>4
  <2>6. ASSUME NEW s \in SUBSET (1..(m + 1))
        PROVE  ft[s] = IF s = {} THEN base ELSE step[<<Max(s), ft[s \ {Max(s)}]>>]
    <3>1. CASE m + 1 \in s
      <4>1. Max(s) = m + 1
        BY <3>1, MaxUpTo
      <4>2. ft[s] = step[<<m + 1, it[s \ {m + 1}]>>]
        BY <3>1
      <4>3. ft[s \ {m + 1}] = it[s \ {m + 1}]
        BY <2>3
      <4> QED
        BY <3>1, <4>1, <4>2, <4>3
    <3>2. CASE m + 1 \notin s
      <4>1. s \in SUBSET (1..m)
        BY <2>2, <3>2
      <4>2. ft[s] = it[s]
        BY <3>2
      <4>3. ft[s \ {Max(s)}] = it[s \ {Max(s)}]
        BY <3>2
      <4> QED
        BY <2>1, <4>1, <4>2, <4>3
    <3> QED
      BY <3>1, <3>2
  <2> HIDE DEF ft
  <2> QED
    BY <2>5, <2>6
<1>3. n \in S
  <2> HIDE DEF S
  <2> QED
    BY <1>1, <1>2, Inductive
<1>4. Defined(n)
  <2> HIDE DEF Defined
  <2> QED
    BY <1>3
<1> QED
  BY <1>4 DEF FoldsOver

\* One step of a fold, wherever what came before lies in A.
FoldsWithin(it, n, A, base, step) ==
    /\ it[{}] = base
    /\ \A s \in SUBSET (1..n) : s # {} /\ it[s \ {Max(s)}] \in A =>
           it[s] = step[<<Max(s), it[s \ {Max(s)}]>>]

GoesThrough(it, n, A, base, step) ==
    \E run \in [0..n -> A] :
        /\ run[0] = base
        /\ \A k \in 1..n : run[k] = step[<<k, run[k - 1]>>]
        /\ it[1..n] = run[n]

\* A fold goes through the numbers from one to n, one step each.
LEMMA FoldRuns ==
    ASSUME NEW n \in Nat, NEW A, NEW base \in A, NEW step \in [(1..n) \X A -> A], NEW it,
           FoldsWithin(it, n, A, base, step)
    PROVE  GoesThrough(it, n, A, base, step)
<1> DEFINE run == [k \in 0..n |-> it[1..k]]
           S == {k \in Nat : k <= n => run[k] \in A}
<1>1. run[0] = base
  <2>1. 1..0 = {} /\ 0 \in 0..n
    OBVIOUS
  <2> QED
    BY <2>1 DEF FoldsWithin
<1>2. ASSUME NEW k \in 1..n, run[k - 1] \in A PROVE run[k] = step[<<k, run[k - 1]>>]
  <2> DEFINE s == 1..k
  <2>1. s \in SUBSET (1..n) /\ s # {}
    <3>1. s \in SUBSET (1..n) /\ k \in s
      OBVIOUS
    <3> HIDE DEF s
    <3> QED
      BY <3>1
  <2>2. Max(s) = k
    <3>1. k - 1 \in Nat /\ s \in SUBSET (1..((k - 1) + 1)) /\ (k - 1) + 1 \in s
      OBVIOUS
    <3>2. Max(s) = (k - 1) + 1
      <4> HIDE DEF s
      <4> QED
        BY <3>1, MaxUpTo
    <3> QED
      BY <3>2
  <2>3. s \ {k} = 1..(k - 1)
    OBVIOUS
  <2>4. run[k] = it[s] /\ run[k - 1] = it[1..(k - 1)]
    OBVIOUS
  <2> HIDE DEF s, run
  <2> QED
    BY <1>2, <2>1, <2>2, <2>3, <2>4 DEF FoldsWithin
<1> HIDE DEF run
<1>3. Nat \subseteq S
  <2>1. 0 \in S
    BY <1>1
  <2>2. ASSUME NEW k \in Nat, k \in S PROVE k + 1 \in S
    <3> SUFFICES ASSUME k + 1 <= n PROVE run[k + 1] \in A
      OBVIOUS
    <3>1. k + 1 \in 1..n /\ (k + 1) - 1 = k /\ run[k] \in A
      BY <2>2
    <3>2. run[k + 1] = step[<<k + 1, run[k]>>]
      BY <1>2, <3>1
    <3> QED
      BY <3>1, <3>2
  <2> HIDE DEF S
  <2> QED
    BY <2>1, <2>2, Inductive
<1>4. \A k \in 0..n : run[k] \in A
  BY <1>3
<1>5. run \in [0..n -> A] /\ run[n] = it[1..n]
  BY <1>4 DEF run
<1>6. \A k \in 1..n : run[k] = step[<<k, run[k - 1]>>]
  BY <1>2, <1>4
<1> QED
  BY <1>1, <1>5, <1>6 DEF GoesThrough

-----------------------------------------------------------------------------
(* Division *)

\* Division with remainder.
LEMMA DivMod ==
    ASSUME NEW x \in Int, NEW n \in Nat \ {0}
    PROVE  /\ x \div n \in Int /\ x % n \in 0..(n - 1)
           /\ x = n * (x \div n) + (x % n)
OBVIOUS

\* Quotient and remainder are determined.
LEMMA ModUnique ==
    ASSUME NEW n \in Nat \ {0}, NEW q \in Int, NEW r \in 0..(n - 1)
    PROVE  (n * q + r) % n = r /\ (n * q + r) \div n = q
<1> DEFINE x == n * q + r
           p == x \div n
           s == x % n
<1>1. x \in Int /\ p \in Int /\ s \in 0..(n - 1) /\ x = n * p + s
  <2>1. x \in Int
    OBVIOUS
  <2> HIDE DEF x
  <2> QED
    BY <2>1, DivMod
<1> HIDE DEF p, s
<1>2. n * (q - p) = s - r
  BY <1>1
<1>3. ~(q - p >= 1)
  <2> SUFFICES ASSUME q - p >= 1 PROVE FALSE
    OBVIOUS
  <2>1. n * (q - p) >= n
    BY <1>1
  <2> QED
    BY <1>1, <1>2, <2>1
<1>4. ~(q - p <= -1)
  <2> SUFFICES ASSUME q - p <= -1 PROVE FALSE
    OBVIOUS
  <2>1. n * (q - p) <= -n
    BY <1>1
  <2> QED
    BY <1>1, <1>2, <2>1
<1>5. q = p
  BY <1>1, <1>3, <1>4
<1>6. s = r
  BY <1>1, <1>5
<1> QED
  BY <1>5, <1>6 DEF p, s

\* Moving within a row of n, and to the row below.
LEMMA ModShift ==
    ASSUME NEW n \in Nat \ {0}, NEW x \in Int, NEW k \in Int, 0 <= (x % n) + k, (x % n) + k < n
    PROVE  (x + k) % n = (x % n) + k /\ (x + k - n) % n = (x % n) + k
<1> DEFINE q == x \div n
           s == x % n
<1>1. q \in Int /\ s \in 0..(n - 1) /\ x = n * q + s
  BY DivMod
<1> HIDE DEF q, s
<1>2. s + k \in 0..(n - 1)
  BY <1>1 DEF s
<1>3. x + k = n * q + (s + k) /\ x + k - n = n * (q - 1) + (s + k)
  BY <1>1
<1>4. (n * q + (s + k)) % n = s + k /\ (n * (q - 1) + (s + k)) % n = s + k
  <2>1. q - 1 \in Int
    BY <1>1
  <2> QED
    BY <1>1, <1>2, <2>1, ModUnique
<1>5. (x + k) % n = s + k /\ (x + k - n) % n = s + k
  BY <1>3, <1>4
<1> QED
  BY <1>5 DEF s

\* Division of naturals.
LEMMA Quotient ==
    ASSUME NEW x \in Nat, NEW n \in Nat \ {0}
    PROVE  x \div n \in Nat /\ x % n \in 0..(n - 1) /\ x = n * (x \div n) + (x % n)
<1> DEFINE q == x \div n
           r == x % n
<1>1. q \in Int /\ r \in 0..(n - 1) /\ x = n * q + r
  BY DivMod
<1> HIDE DEF q, r
<1>2. q >= 0
  <2> SUFFICES ASSUME q <= -1 PROVE FALSE
    BY <1>1
  <2>1. n * q <= -n /\ n * q \in Int
    BY <1>1
  <2> QED
    BY <1>1, <2>1
<1> QED
  BY <1>1, <1>2 DEF q, r

\* Multiplying keeps the order.
LEMMA ProductWithin ==
    ASSUME NEW a \in Nat, NEW b \in Nat, NEW c \in Nat, a <= b
    PROVE  c * a <= c * b /\ c * a \in Nat /\ c * b \in Nat
OBVIOUS

-----------------------------------------------------------------------------
(* Adding up *)

\* The sums of the first elements of a list.
Sums(run, f, n) ==
    /\ run \in [0..n -> Int]
    /\ run[0] = 0
    /\ \A k \in 1..n : run[k] = run[k - 1] + f[k]

\* A total is what the running sums end in.
LEMMA TotalRuns ==
    ASSUME NEW n \in Nat, NEW f \in [1..n -> Int]
    PROVE  \E run : Sums(run, f, n) /\ TotalOf(f) = run[n]
<1> DEFINE move == [p \in (1..n) \X Int |-> p[2] + f[p[1]]]
           Goes(it) == it = [s \in SUBSET DOMAIN f |->
                               IF s = {} THEN 0
                               ELSE LET x == Max(s) IN it[s \ {x}] + f[x]]
           going == CHOOSE it : Goes(it)
<1>1. DOMAIN f = 1..n /\ 0 \in Int
  OBVIOUS
<1>2. move \in [(1..n) \X Int -> Int]
  OBVIOUS
<1>3. TotalOf(f) = going[1..n]
  BY <1>1 DEF TotalOf, FoldLeft, MapThenFoldSet
<1> HIDE DEF move
<1>4. \E it : Goes(it)
  <2>1. PICK it \in [SUBSET (1..n) -> Int] : FoldsOver(it, n, 0, move)
    BY <1>1, <1>2, FoldExists
  <2>2. ASSUME NEW s \in SUBSET (1..n), s # {}
        PROVE  move[<<Max(s), it[s \ {Max(s)}]>>] = it[s \ {Max(s)}] + f[Max(s)]
    <3>1. Max(s) \in 1..n
      BY <1>1, <2>2, LargestExists
    <3>2. it[s \ {Max(s)}] \in Int
      OBVIOUS
    <3> QED
      BY <3>1, <3>2 DEF move
  <2>3. Goes(it)
    BY <1>1, <2>1, <2>2 DEF FoldsOver
  <2> QED
    BY <2>3
<1>5. Goes(going)
  <2> HIDE DEF Goes
  <2> QED
    BY <1>4
<1> HIDE DEF going
<1>6. going[{}] = 0
  <2>1. {} \in SUBSET DOMAIN f
    OBVIOUS
  <2> QED
    BY <1>5, <2>1
<1>7. ASSUME NEW s \in SUBSET (1..n), s # {}, going[s \ {Max(s)}] \in Int
      PROVE  going[s] = move[<<Max(s), going[s \ {Max(s)}]>>]
  <2>1. Max(s) \in 1..n
    BY <1>1, <1>7, LargestExists
  <2>2. move[<<Max(s), going[s \ {Max(s)}]>>] = going[s \ {Max(s)}] + f[Max(s)]
    BY <1>7, <2>1 DEF move
  <2>3. s \in SUBSET DOMAIN f
    BY <1>1
  <2>4. going[s] = going[s \ {Max(s)}] + f[Max(s)]
    BY <1>5, <1>7, <2>3
  <2> QED
    BY <2>2, <2>4
<1>8. FoldsWithin(going, n, Int, 0, move)
  BY <1>6, <1>7 DEF FoldsWithin
<1>9. GoesThrough(going, n, Int, 0, move)
  BY <1>1, <1>2, <1>8, FoldRuns
<1>10. PICK run \in [0..n -> Int] :
          /\ run[0] = 0
          /\ \A k \in 1..n : run[k] = move[<<k, run[k - 1]>>]
          /\ going[1..n] = run[n]
  BY <1>9 DEF GoesThrough
<1>11. ASSUME NEW k \in 1..n PROVE run[k] = run[k - 1] + f[k]
  <2>1. k - 1 \in 0..n /\ run[k - 1] \in Int
    BY <1>1
  <2> QED
    BY <1>10, <2>1 DEF move
<1> QED
  BY <1>3, <1>10, <1>11 DEF Sums

\* Whatever runs like the sums ends in the total.
LEMMA TotalIs ==
    ASSUME NEW n \in Nat, NEW f \in [1..n -> Int], NEW run, Sums(run, f, n)
    PROVE  TotalOf(f) = run[n] /\ TotalOf(f) \in Int
<1>1. PICK r : Sums(r, f, n) /\ TotalOf(f) = r[n]
  BY TotalRuns
<1> DEFINE S == {k \in Nat : k <= n => run[k] = r[k]}
<1>2. 0 \in S
  BY <1>1 DEF Sums
<1>3. ASSUME NEW k \in Nat, k \in S PROVE k + 1 \in S
  <2> SUFFICES ASSUME k + 1 <= n PROVE run[k + 1] = r[k + 1]
    OBVIOUS
  <2>1. k + 1 \in 1..n /\ (k + 1) - 1 = k /\ run[k] = r[k]
    BY <1>3
  <2> QED
    BY <1>1, <2>1 DEF Sums
<1>4. n \in S
  <2> HIDE DEF S
  <2> QED
    BY <1>2, <1>3, Inductive
<1> QED
  BY <1>1, <1>4 DEF Sums

\* The total of sums.
LEMMA TotalAdd ==
    ASSUME NEW n \in Nat, NEW f \in [1..n -> Int], NEW g \in [1..n -> Int],
           NEW h \in [1..n -> Int], \A i \in 1..n : h[i] = f[i] + g[i]
    PROVE  TotalOf(h) = TotalOf(f) + TotalOf(g) /\ TotalOf(f) \in Int /\ TotalOf(g) \in Int
<1>1. PICK r : Sums(r, f, n) /\ TotalOf(f) = r[n]
  BY TotalRuns
<1>2. PICK q : Sums(q, g, n) /\ TotalOf(g) = q[n]
  BY TotalRuns
<1> DEFINE run == [k \in 0..n |-> r[k] + q[k]]
<1>3. \A k \in 0..n : r[k] \in Int /\ q[k] \in Int
  BY <1>1, <1>2 DEF Sums
<1>4. \A k \in 1..n : /\ k - 1 \in 0..n /\ k \in 0..n
                      /\ r[k] = r[k - 1] + f[k] /\ q[k] = q[k - 1] + g[k]
                      /\ f[k] \in Int /\ g[k] \in Int
  BY <1>1, <1>2 DEF Sums
<1>5. Sums(run, h, n)
  <2>1. run \in [0..n -> Int]
    BY <1>3
  <2>2. run[0] = 0
    BY <1>1, <1>2 DEF Sums
  <2>3. \A k \in 1..n : run[k] = run[k - 1] + h[k]
    BY <1>3, <1>4
  <2> QED
    BY <2>1, <2>2, <2>3 DEF Sums
<1>6. TotalOf(h) = run[n]
  <2> HIDE DEF run
  <2> QED
    BY <1>5, TotalIs
<1>7. n \in 0..n
  OBVIOUS
<1> QED
  BY <1>1, <1>2, <1>3, <1>6, <1>7

\* The total of multiples.
LEMMA TotalScale ==
    ASSUME NEW n \in Nat, NEW f \in [1..n -> Int], NEW c \in Int,
           NEW h \in [1..n -> Int], \A i \in 1..n : h[i] = c * f[i]
    PROVE  TotalOf(h) = c * TotalOf(f) /\ TotalOf(f) \in Int
<1>1. PICK r : Sums(r, f, n) /\ TotalOf(f) = r[n]
  BY TotalRuns
<1> DEFINE run == [k \in 0..n |-> c * r[k]]
<1>3. \A k \in 0..n : r[k] \in Int
  BY <1>1 DEF Sums
<1>4. \A k \in 1..n : /\ k - 1 \in 0..n /\ k \in 0..n
                      /\ r[k] = r[k - 1] + f[k] /\ f[k] \in Int
  BY <1>1 DEF Sums
<1>5. Sums(run, h, n)
  <2>1. run \in [0..n -> Int]
    BY <1>3
  <2>2. run[0] = 0
    BY <1>1 DEF Sums
  <2>3. ASSUME NEW k \in 1..n PROVE run[k] = run[k - 1] + h[k]
    <3>1. c * (r[k - 1] + f[k]) = c * r[k - 1] + c * f[k]
      <4> DEFINE x == r[k - 1]
                 y == f[k]
      <4>1. x \in Int /\ y \in Int
        BY <1>3, <1>4
      <4> HIDE DEF x, y
      <4>2. c * (x + y) = c * x + c * y
        BY <4>1
      <4> QED
        BY <4>2 DEF x, y
    <3> QED
      BY <1>4, <3>1
  <2> QED
    BY <2>1, <2>2, <2>3 DEF Sums
<1>6. TotalOf(h) = run[n]
  <2> HIDE DEF run
  <2> QED
    BY <1>5, TotalIs
<1>7. n \in 0..n
  OBVIOUS
<1> QED
  BY <1>1, <1>3, <1>6, <1>7

\* The total of n equal numbers.
LEMMA TotalConstant ==
    ASSUME NEW n \in Nat, NEW c \in Int, NEW h \in [1..n -> Int], \A i \in 1..n : h[i] = c
    PROVE  TotalOf(h) = n * c
<1> DEFINE run == [k \in 0..n |-> k * c]
<1>1. Sums(run, h, n)
  <2>1. run \in [0..n -> Int] /\ run[0] = 0
    OBVIOUS
  <2>2. ASSUME NEW k \in 1..n PROVE run[k] = run[k - 1] + h[k]
    <3>1. k * c = (k - 1) * c + c
      OBVIOUS
    <3> QED
      BY <3>1
  <2> QED
    BY <2>1, <2>2 DEF Sums
<1>2. TotalOf(h) = run[n]
  <2> HIDE DEF run
  <2> QED
    BY <1>1, TotalIs
<1> QED
  BY <1>2

\* The total of naturals is at least each of them.
LEMMA TotalCovers ==
    ASSUME NEW n \in Nat, NEW h \in [1..n -> Int], \A i \in 1..n : h[i] >= 0
    PROVE  TotalOf(h) \in Nat /\ \A j \in 1..n : TotalOf(h) >= h[j]
<1>1. PICK r : Sums(r, h, n) /\ TotalOf(h) = r[n]
  BY TotalRuns
<1> DEFINE S == {k \in Nat : k <= n => r[k] >= 0 /\ \A j \in 1..k : r[k] >= h[j]}
<1>2. 0 \in S
  BY <1>1 DEF Sums
<1>3. ASSUME NEW k \in Nat, k \in S PROVE k + 1 \in S
  <2> SUFFICES ASSUME k + 1 <= n PROVE r[k + 1] >= 0 /\ \A j \in 1..(k + 1) : r[k + 1] >= h[j]
    OBVIOUS
  <2>1. k + 1 \in 1..n /\ (k + 1) - 1 = k /\ k \in 0..n /\ r[k] >= 0 /\ \A j \in 1..k : r[k] >= h[j]
    BY <1>3
  <2>2. r[k + 1] = r[k] + h[k + 1] /\ r[k] \in Int
    BY <1>1, <2>1 DEF Sums
  <2>3. \A j \in 1..(k + 1) : (j \in 1..k \/ j = k + 1) /\ j \in 1..n
    OBVIOUS
  <2> QED
    BY <2>1, <2>2, <2>3
<1>4. n \in S
  <2> HIDE DEF S
  <2> QED
    BY <1>2, <1>3, Inductive
<1>5. n \in 0..n
  OBVIOUS
<1> QED
  BY <1>1, <1>4, <1>5 DEF Sums

\* Smaller numbers have a smaller total, by as much as any of them is smaller.
LEMMA TotalWithin ==
    ASSUME NEW n \in Nat, NEW f \in [1..n -> Int], NEW g \in [1..n -> Int],
           \A i \in 1..n : f[i] <= g[i]
    PROVE  /\ TotalOf(f) \in Int /\ TotalOf(g) \in Int
           /\ TotalOf(f) <= TotalOf(g)
           /\ \A j \in 1..n : TotalOf(g) - TotalOf(f) >= g[j] - f[j]
<1> DEFINE h == [i \in 1..n |-> g[i] - f[i]]
<1>1. h \in [1..n -> Int] /\ \A i \in 1..n : h[i] >= 0 /\ g[i] = f[i] + h[i] /\ h[i] = g[i] - f[i]
  OBVIOUS
<1> HIDE DEF h
<1>2. TotalOf(g) = TotalOf(f) + TotalOf(h) /\ TotalOf(f) \in Int
  BY <1>1, TotalAdd
<1>3. TotalOf(h) \in Nat /\ \A j \in 1..n : TotalOf(h) >= h[j]
  BY <1>1, TotalCovers
<1> QED
  BY <1>1, <1>2, <1>3

\* Adding up ones counts them.
LEMMA TotalCounts ==
    ASSUME NEW n \in Nat, NEW J \in SUBSET (1..n), NEW h \in [1..n -> Int],
           \A i \in 1..n : h[i] = IF i \in J THEN 1 ELSE 0
    PROVE  TotalOf(h) = Cardinality(J)
<1> DEFINE Upto(k) == J \cap (1..k)
           run == [k \in 0..n |-> Cardinality(Upto(k))]
<1>1. ASSUME NEW k \in 0..n PROVE IsFiniteSet(Upto(k)) /\ Cardinality(Upto(k)) \in Nat
  <2>1. IsFiniteSet(1..k) /\ Upto(k) \in SUBSET (1..k)
    BY FS_Interval
  <2> QED
    BY <2>1, FS_Subset, FS_CardinalityType
<1>2. Upto(0) = {} /\ Upto(n) = J
  <2>1. 1..0 = {} /\ J \subseteq 1..n
    OBVIOUS
  <2> QED
    BY <2>1
<1>3. ASSUME NEW k \in 1..n
      PROVE  Cardinality(Upto(k)) = Cardinality(Upto(k - 1)) + h[k]
  <2>1. k - 1 \in 0..n /\ k \notin Upto(k - 1)
    OBVIOUS
  <2>2. CASE k \in J
    <3>1. Upto(k) = Upto(k - 1) \cup {k}
      BY <2>2
    <3> QED
      BY <1>1, <2>1, <2>2, <3>1, FS_AddElement
  <2>3. CASE k \notin J
    <3>1. Upto(k) = Upto(k - 1)
      BY <2>3
    <3>2. h[k] = 0 /\ Cardinality(Upto(k - 1)) \in Nat
      BY <1>1, <2>1, <2>3
    <3> HIDE DEF Upto
    <3> QED
      BY <3>1, <3>2
  <2> QED
    BY <2>2, <2>3
<1> HIDE DEF Upto
<1>4. Sums(run, h, n)
  <2>1. run \in [0..n -> Int]
    BY <1>1
  <2>2. run[0] = 0
    BY <1>2, FS_EmptySet
  <2>3. \A k \in 1..n : k - 1 \in 0..n /\ k \in 0..n
    OBVIOUS
  <2> QED
    BY <1>3, <2>1, <2>2, <2>3 DEF Sums
<1>5. TotalOf(h) = run[n]
  <2> HIDE DEF run
  <2> QED
    BY <1>4, TotalIs
<1> QED
  BY <1>2, <1>5

-----------------------------------------------------------------------------
(* Sums over sets *)

\* g gives every part of S the sum of f over it: adding an element adds its value.
Measures(g, f, S) ==
    /\ g[{}] = 0
    /\ \A T \in SUBSET S : \A x \in T : g[T] = f[x] + g[T \ {x}]

\* Every function on a finite set has such a measure, natural if the function is.
LEMMA MeasureExists ==
    ASSUME NEW R \in {Nat, Int}, NEW D, IsFiniteSet(D), NEW f \in [D -> R]
    PROVE  \E g \in [SUBSET D -> R] : Measures(g, f, D)
<1> DEFINE Measured(T) == \E g \in [SUBSET T -> R] : Measures(g, f, T)
           S == {n \in Nat : \A T \in SUBSET D : Cardinality(T) = n => Measured(T)}
<1>0. \A a, b \in R : a + b \in R /\ 0 \in R /\ a \in Int
  OBVIOUS
<1>1. 0 \in S
  <2> SUFFICES ASSUME NEW T \in SUBSET D, Cardinality(T) = 0 PROVE Measured(T)
    OBVIOUS
  <2>1. T = {}
    <3>1. IsFiniteSet(T)
      BY FS_Subset
    <3> QED
      BY <3>1, FS_EmptySet
  <2> DEFINE g == [s \in SUBSET T |-> 0]
  <2>2. g \in [SUBSET T -> R] /\ g[{}] = 0
    BY <1>0
  <2>3. Measures(g, f, T)
    BY <2>1, <2>2 DEF Measures
  <2> QED
    BY <2>2, <2>3
<1>2. ASSUME NEW n \in Nat, n \in S PROVE n + 1 \in S
  <2> SUFFICES ASSUME NEW T \in SUBSET D, Cardinality(T) = n + 1 PROVE Measured(T)
    <3> HIDE DEF Measured
    <3> QED
      OBVIOUS
  <2>1. IsFiniteSet(T)
    BY FS_Subset
  <2>2. PICK a \in T : TRUE
    BY <2>1, FS_EmptySet
  <2>3. T \ {a} \in SUBSET D /\ Cardinality(T \ {a}) = n
    <3>1. Cardinality(T \ {a}) = Cardinality(T) - 1
      BY <2>1, FS_RemoveElement
    <3> QED
      BY <3>1
  <2>4. Measured(T \ {a})
    <3> HIDE DEF Measured
    <3> QED
      BY <1>2, <2>3
  <2>5. PICK h \in [SUBSET (T \ {a}) -> R] : Measures(h, f, T \ {a})
    BY <2>4
  <2> DEFINE g == [s \in SUBSET T |-> IF a \in s THEN f[a] + h[s \ {a}] ELSE h[s]]
  <2>6. \A s \in SUBSET T : s \ {a} \in SUBSET (T \ {a}) /\ (a \notin s => s \in SUBSET (T \ {a}))
    OBVIOUS
  <2>7. \A s \in SUBSET T : g[s] \in R
    <3> SUFFICES ASSUME NEW s \in SUBSET T PROVE g[s] \in R
      OBVIOUS
    <3>1. h[s \ {a}] \in R /\ f[a] \in R /\ (a \notin s => h[s] \in R)
      BY <2>6
    <3> QED
      BY <1>0, <3>1
  <2>8. g \in [SUBSET T -> R]
    BY <2>7
  <2>9. g[{}] = 0
    BY <2>5 DEF Measures
  <2>10. ASSUME NEW s \in SUBSET T, NEW x \in s PROVE g[s] = f[x] + g[s \ {x}]
    <3>1. CASE x = a
      <4>1. g[s] = f[a] + h[s \ {a}] /\ g[s \ {a}] = h[s \ {a}]
        BY <2>6, <3>1
      <4> QED
        BY <3>1, <4>1
    <3>2. CASE x # a /\ a \notin s
      <4>1. g[s] = h[s] /\ g[s \ {x}] = h[s \ {x}]
        BY <3>2
      <4> QED
        BY <2>5, <2>6, <3>2, <4>1 DEF Measures
    <3>3. CASE x # a /\ a \in s
      <4> DEFINE r == s \ {a}
      <4>1. g[s] = f[a] + h[r]
        BY <3>3
      <4>2. r \in SUBSET (T \ {a}) /\ x \in r
        BY <3>3
      <4>3. h[r] = f[x] + h[r \ {x}]
        <5> HIDE DEF r
        <5> QED
          BY <2>5, <4>2 DEF Measures
      <4>4. s \ {x} \in SUBSET T /\ a \in s \ {x} /\ (s \ {x}) \ {a} = r \ {x}
        BY <3>3
      <4>5. g[s \ {x}] = f[a] + h[r \ {x}]
        BY <4>4
      <4>6. f[a] \in Int /\ f[x] \in Int /\ h[r \ {x}] \in Int
        BY <1>0, <4>2
      <4> HIDE DEF r, g
      <4> QED
        BY <4>1, <4>3, <4>5, <4>6
    <3> QED
      BY <3>1, <3>2, <3>3
  <2> HIDE DEF g
  <2>11. Measures(g, f, T)
    BY <2>9, <2>10 DEF Measures
  <2> QED
    BY <2>8, <2>11
<1>3. Cardinality(D) \in Nat /\ D \in SUBSET D
  BY FS_CardinalityType
<1>4. Cardinality(D) \in S
  <2> HIDE DEF S
  <2> QED
    BY <1>1, <1>2, <1>3, Inductive
<1> HIDE DEF Measured
<1>5. Measured(D)
  BY <1>3, <1>4
<1> QED
  BY <1>5 DEF Measured

\* The sum is what the whole of the set measures.
LEMMA SumIs ==
    ASSUME NEW D, IsFiniteSet(D), NEW f, NEW g, Measures(g, f, D)
    PROVE  SumFunctionOnSet(f, D) = g[D]
<1> DEFINE Goes(it) == it = [s \in SUBSET D |->
                               IF s = {} THEN 0
                               ELSE LET x == CHOOSE x \in s : TRUE IN f[x] + it[s \ {x}]]
           going == CHOOSE it : Goes(it)
<1>1. SumFunctionOnSet(f, D) = going[D]
  BY DEF SumFunctionOnSet, FoldFunctionOnSet, MapThenFoldSet
<1>2. \E it : Goes(it)
  <2> DEFINE it == [s \in SUBSET D |-> g[s]]
  <2>1. ASSUME NEW s \in SUBSET D, s # {}
        PROVE  it[s] = f[CHOOSE x \in s : TRUE] + it[s \ {CHOOSE x \in s : TRUE}]
    <3>1. (CHOOSE x \in s : TRUE) \in s
      BY <2>1
    <3> QED
      BY <3>1 DEF Measures
  <2>2. it[{}] = 0
    BY DEF Measures
  <2>3. Goes(it)
    BY <2>1, <2>2
  <2> QED
    BY <2>3
<1>3. Goes(going)
  <2> HIDE DEF Goes
  <2> QED
    BY <1>2
<1> HIDE DEF going
<1> DEFINE S == {n \in Nat : \A T \in SUBSET D : Cardinality(T) = n => going[T] = g[T]}
<1>4. 0 \in S
  <2> SUFFICES ASSUME NEW T \in SUBSET D, Cardinality(T) = 0 PROVE going[T] = g[T]
    OBVIOUS
  <2>1. T = {}
    <3>1. IsFiniteSet(T)
      BY FS_Subset
    <3> QED
      BY <3>1, FS_EmptySet
  <2> QED
    BY <1>3, <2>1 DEF Measures
<1>5. ASSUME NEW n \in Nat, n \in S PROVE n + 1 \in S
  <2> SUFFICES ASSUME NEW T \in SUBSET D, Cardinality(T) = n + 1 PROVE going[T] = g[T]
    OBVIOUS
  <2>1. IsFiniteSet(T)
    BY FS_Subset
  <2>2. T # {}
    BY <2>1, FS_EmptySet
  <2> DEFINE x == CHOOSE x \in T : TRUE
  <2>3. x \in T
    BY <2>2
  <2>4. going[T] = f[x] + going[T \ {x}]
    BY <1>3, <2>2
  <2> HIDE DEF x
  <2>5. T \ {x} \in SUBSET D /\ Cardinality(T \ {x}) = n
    BY <2>1, <2>3, FS_RemoveElement
  <2>6. going[T \ {x}] = g[T \ {x}]
    BY <1>5, <2>5
  <2> QED
    BY <2>3, <2>4, <2>6 DEF Measures
<1>6. Cardinality(D) \in Nat /\ D \in SUBSET D
  BY FS_CardinalityType
<1>7. Cardinality(D) \in S
  <2> HIDE DEF S
  <2> QED
    BY <1>4, <1>5, <1>6, Inductive
<1> QED
  BY <1>1, <1>6, <1>7

\* The sums over the parts of a set are its measure.
LEMMA SumMeasures ==
    ASSUME NEW R \in {Nat, Int}, NEW D, IsFiniteSet(D), NEW f \in [D -> R]
    PROVE  /\ \A T \in SUBSET D : SumFunctionOnSet(f, T) \in R
           /\ SumFunctionOnSet(f, {}) = 0
           /\ \A T \in SUBSET D : \A x \in T :
                 SumFunctionOnSet(f, T) = f[x] + SumFunctionOnSet(f, T \ {x})
<1>1. PICK g \in [SUBSET D -> R] : Measures(g, f, D)
  BY MeasureExists
<1>2. ASSUME NEW T \in SUBSET D PROVE SumFunctionOnSet(f, T) = g[T]
  <2>1. IsFiniteSet(T) /\ Measures(g, f, T)
    BY <1>1, FS_Subset DEF Measures
  <2> QED
    BY <2>1, SumIs
<1>3. \A T \in SUBSET D : \A x \in T : T \ {x} \in SUBSET D
  OBVIOUS
<1> QED
  BY <1>1, <1>2, <1>3 DEF Measures

\* The same for a function on the whole of its domain.
LEMMA SumOver ==
    ASSUME NEW D, IsFiniteSet(D), NEW f \in [D -> Int], NEW g, Measures(g, f, D)
    PROVE  SumFunction(f) = g[D] /\ SumFunction(f) \in Int
<1>1. DOMAIN f = D /\ Int \in {Nat, Int} /\ D \in SUBSET D
  OBVIOUS
<1>2. SumFunctionOnSet(f, D) = g[D]
  BY SumIs
<1>3. SumFunctionOnSet(f, D) \in Int
  BY <1>1, SumMeasures
<1> QED
  BY <1>1, <1>2, <1>3 DEF SumFunction

\* A measure to work with.
LEMMA SumMeasured ==
    ASSUME NEW D, IsFiniteSet(D), NEW f \in [D -> Int]
    PROVE  \E g \in [SUBSET D -> Int] : Measures(g, f, D) /\ SumFunction(f) = g[D]
<1>1. Int \in {Nat, Int}
  OBVIOUS
<1>2. PICK g \in [SUBSET D -> Int] : Measures(g, f, D)
  BY <1>1, MeasureExists
<1> QED
  BY <1>2, SumOver

\* A sum of integers is an integer, one of naturals a natural.
LEMMA SumType ==
    ASSUME NEW R \in {Nat, Int}, NEW D, IsFiniteSet(D), NEW f \in [D -> R]
    PROVE  SumFunction(f) \in R
<1>1. DOMAIN f = D /\ D \in SUBSET D
  OBVIOUS
<1>2. SumFunctionOnSet(f, D) \in R
  BY <1>1, SumMeasures
<1> QED
  BY <1>1, <1>2 DEF SumFunction

\* The sum of sums.
LEMMA SumAdd ==
    ASSUME NEW D, IsFiniteSet(D), NEW f \in [D -> Int], NEW h \in [D -> Int]
    PROVE  SumFunction([x \in D |-> f[x] + h[x]]) = SumFunction(f) + SumFunction(h)
<1> DEFINE s == [x \in D |-> f[x] + h[x]]
<1>1. PICK a \in [SUBSET D -> Int] : Measures(a, f, D) /\ SumFunction(f) = a[D]
  BY SumMeasured
<1>2. PICK b \in [SUBSET D -> Int] : Measures(b, h, D) /\ SumFunction(h) = b[D]
  BY SumMeasured
<1> DEFINE g == [T \in SUBSET D |-> a[T] + b[T]]
<1>3. g[{}] = 0
  BY <1>1, <1>2 DEF Measures
<1>4. ASSUME NEW T \in SUBSET D, NEW x \in T PROVE g[T] = s[x] + g[T \ {x}]
  <2> DEFINE r == T \ {x}
  <2>1. r \in SUBSET D /\ x \in D
    OBVIOUS
  <2>2. a[T] = f[x] + a[r] /\ b[T] = h[x] + b[r]
    BY <1>1, <1>2 DEF Measures
  <2>3. g[T] = a[T] + b[T] /\ g[r] = a[r] + b[r] /\ s[x] = f[x] + h[x]
    BY <2>1
  <2>4. a[r] \in Int /\ b[r] \in Int /\ f[x] \in Int /\ h[x] \in Int
    BY <2>1
  <2> HIDE DEF r, g, s
  <2>5. g[T] = s[x] + g[r]
    BY <2>2, <2>3, <2>4
  <2> QED
    BY <2>5 DEF r
<1>5. s \in [D -> Int] /\ g[D] = a[D] + b[D]
  OBVIOUS
<1> HIDE DEF g, s
<1>6. Measures(g, s, D)
  BY <1>3, <1>4 DEF Measures
<1>7. SumFunction(s) = g[D]
  BY <1>5, <1>6, SumOver
<1> QED
  BY <1>1, <1>2, <1>5, <1>7 DEF s

\* The sum of multiples.
LEMMA SumScale ==
    ASSUME NEW D, IsFiniteSet(D), NEW f \in [D -> Int], NEW c \in Int
    PROVE  SumFunction([x \in D |-> c * f[x]]) = c * SumFunction(f)
<1> DEFINE s == [x \in D |-> c * f[x]]
<1>1. PICK a \in [SUBSET D -> Int] : Measures(a, f, D) /\ SumFunction(f) = a[D]
  BY SumMeasured
<1> DEFINE g == [T \in SUBSET D |-> c * a[T]]
<1>3. g[{}] = 0
  BY <1>1 DEF Measures
<1>4. ASSUME NEW T \in SUBSET D, NEW x \in T PROVE g[T] = s[x] + g[T \ {x}]
  <2> DEFINE r == T \ {x}
  <2>1. r \in SUBSET D /\ x \in D
    OBVIOUS
  <2>2. a[T] = f[x] + a[r]
    BY <1>1 DEF Measures
  <2>3. g[T] = c * a[T] /\ g[r] = c * a[r] /\ s[x] = c * f[x]
    BY <2>1
  <2>4. a[r] \in Int /\ f[x] \in Int
    BY <2>1
  <2> HIDE DEF r, g, s
  <2>5. g[T] = s[x] + g[r]
    BY <2>2, <2>3, <2>4
  <2> QED
    BY <2>5 DEF r
<1>5. s \in [D -> Int] /\ g[D] = c * a[D]
  OBVIOUS
<1> HIDE DEF g, s
<1>6. Measures(g, s, D)
  BY <1>3, <1>4 DEF Measures
<1>7. SumFunction(s) = g[D]
  BY <1>5, <1>6, SumOver
<1> QED
  BY <1>1, <1>5, <1>7 DEF s

\* The sum of equal values.
LEMMA SumConstant ==
    ASSUME NEW D, IsFiniteSet(D), NEW c \in Int
    PROVE  SumFunction([x \in D |-> c]) = c * Cardinality(D)
<1> DEFINE s == [x \in D |-> c]
           g == [T \in SUBSET D |-> c * Cardinality(T)]
<1>1. g[{}] = 0
  BY FS_EmptySet
<1>2. ASSUME NEW T \in SUBSET D, NEW x \in T PROVE g[T] = s[x] + g[T \ {x}]
  <2>1. IsFiniteSet(T) /\ IsFiniteSet(T \ {x})
    BY FS_Subset
  <2>2. Cardinality(T) \in Nat /\ Cardinality(T \ {x}) = Cardinality(T) - 1
    BY <2>1, FS_CardinalityType, FS_RemoveElement
  <2>3. g[T] = c * Cardinality(T) /\ g[T \ {x}] = c * Cardinality(T \ {x}) /\ s[x] = c
    OBVIOUS
  <2> DEFINE m == Cardinality(T)
  <2>4. m \in Nat /\ g[T] = c * m /\ g[T \ {x}] = c * (m - 1)
    BY <2>2, <2>3
  <2> HIDE DEF m, g, s
  <2> QED
    BY <2>3, <2>4
<1>3. s \in [D -> Int] /\ g[D] = c * Cardinality(D)
  OBVIOUS
<1> HIDE DEF g, s
<1>4. Measures(g, s, D)
  BY <1>1, <1>2 DEF Measures
<1>5. SumFunction(s) = g[D]
  BY <1>3, <1>4, SumOver
<1> QED
  BY <1>3, <1>5 DEF s

\* What is zero may be left out.
LEMMA SumSupport ==
    ASSUME NEW D, IsFiniteSet(D), NEW f \in [D -> Int],
           NEW E \in SUBSET D, \A x \in D \ E : f[x] = 0,
           NEW h \in [E -> Int], \A x \in E : h[x] = f[x]
    PROVE  SumFunction(h) = SumFunction(f)
<1>1. IsFiniteSet(E)
  BY FS_Subset
<1>2. PICK a \in [SUBSET E -> Int] : Measures(a, h, E) /\ SumFunction(h) = a[E]
  BY <1>1, SumMeasured
<1> DEFINE g == [T \in SUBSET D |-> a[T \cap E]]
<1>3. g[{}] = 0
  <2>1. {} \cap E = {}
    OBVIOUS
  <2> QED
    BY <1>2, <2>1 DEF Measures
<1>4. ASSUME NEW T \in SUBSET D, NEW x \in T PROVE g[T] = f[x] + g[T \ {x}]
  <2> DEFINE r == T \cap E
             q == (T \ {x}) \cap E
  <2>1. g[T] = a[r] /\ g[T \ {x}] = a[q] /\ r \in SUBSET E /\ q \in SUBSET E
    OBVIOUS
  <2>2. CASE x \in E
    <3>1. x \in r /\ q = r \ {x}
      BY <2>2
    <3> HIDE DEF r, q, g
    <3>2. a[r] = h[x] + a[r \ {x}]
      BY <1>2, <2>1, <3>1 DEF Measures
    <3> QED
      BY <2>1, <2>2, <3>1, <3>2
  <2>3. CASE x \notin E
    <3>1. q = r /\ f[x] = 0
      BY <2>3
    <3>2. a[r] \in Int
      BY <2>1
    <3> HIDE DEF r, q, g
    <3> QED
      BY <2>1, <3>1, <3>2
  <2> QED
    BY <2>2, <2>3
<1>5. g[D] = a[E]
  <2>1. D \cap E = E
    OBVIOUS
  <2> QED
    BY <2>1
<1> HIDE DEF g
<1>6. Measures(g, f, D)
  BY <1>3, <1>4 DEF Measures
<1>7. SumFunction(f) = g[D]
  BY <1>6, SumOver
<1> QED
  BY <1>2, <1>5, <1>7

\* The sums of the rows and of the columns of a table.
RowSums(h, D, E) == [x \in D |-> SumFunction([y \in E |-> h[<<x, y>>]])]
ColumnSums(h, D, E) == [y \in E |-> SumFunction([x \in D |-> h[<<x, y>>]])]

\* Rows and columns add up to the same.
LEMMA SumSwap ==
    ASSUME NEW D, IsFiniteSet(D), NEW E, IsFiniteSet(E), NEW h,
           \A x \in D, y \in E : h[<<x, y>>] \in Int
    PROVE  SumFunction(RowSums(h, D, E)) = SumFunction(ColumnSums(h, D, E))
<1> DEFINE Row(x) == [y \in E |-> h[<<x, y>>]]
           Column(y, T) == [x \in T |-> h[<<x, y>>]]
           Columns(T) == [y \in E |-> SumFunction(Column(y, T))]
           rows == [x \in D |-> SumFunction(Row(x))]
           g == [T \in SUBSET D |-> SumFunction(Columns(T))]
<1>0. Int \in {Nat, Int} /\ DOMAIN rows = D
  OBVIOUS
<1>1. ASSUME NEW x \in D PROVE Row(x) \in [E -> Int] /\ SumFunction(Row(x)) \in Int
  <2>1. Row(x) \in [E -> Int]
    OBVIOUS
  <2> HIDE DEF Row
  <2> QED
    BY <1>0, <2>1, SumType
<1>2. ASSUME NEW y \in E, NEW T \in SUBSET D
      PROVE  Column(y, T) \in [T -> Int] /\ SumFunction(Column(y, T)) \in Int
  <2>1. Column(y, T) \in [T -> Int] /\ IsFiniteSet(T)
    BY FS_Subset
  <2> HIDE DEF Column
  <2> QED
    BY <1>0, <2>1, SumType
<1>3. ASSUME NEW y \in E PROVE SumFunction(Column(y, {})) = 0
  <2>1. SumFunctionOnSet(Column(y, {}), {}) = 0
    <3>1. Column(y, {}) \in [{} -> Int] /\ IsFiniteSet({})
      BY FS_EmptySet
    <3> HIDE DEF Column
    <3> QED
      BY <1>0, <3>1, SumMeasures
  <2> QED
    BY <2>1 DEF SumFunction
<1>4. ASSUME NEW y \in E, NEW T \in SUBSET D, NEW x \in T
      PROVE  SumFunction(Column(y, T)) = h[<<x, y>>] + SumFunction(Column(y, T \ {x}))
  <2>1. IsFiniteSet(T) /\ Column(y, T) \in [T -> Int]
    BY <1>2, FS_Subset
  <2>2. PICK a \in [SUBSET T -> Int] : Measures(a, Column(y, T), T) /\ SumFunction(Column(y, T)) = a[T]
    <3> HIDE DEF Column
    <3> QED
      BY <2>1, SumMeasured
  <2>3. a[T] = h[<<x, y>>] + a[T \ {x}]
    BY <2>2 DEF Measures
  <2>4. IsFiniteSet(T \ {x}) /\ Column(y, T \ {x}) \in [T \ {x} -> Int]
    BY <1>2, <2>1, FS_Subset
  <2>5. Measures(a, Column(y, T \ {x}), T \ {x})
    BY <2>2 DEF Measures
  <2>6. SumFunction(Column(y, T \ {x})) = a[T \ {x}]
    <3> HIDE DEF Column
    <3> QED
      BY <2>4, <2>5, SumOver
  <2> QED
    BY <2>2, <2>3, <2>6
<1> HIDE DEF Row, Column
<1>5. g[{}] = 0
  <2>1. Columns({}) = [y \in E |-> 0]
    BY <1>3
  <2>2. SumFunction([y \in E |-> 0]) = 0
    <3>1. \A c \in Int : SumFunction([y \in E |-> c]) = c * Cardinality(E)
      BY SumConstant
    <3>2. Cardinality(E) \in Nat /\ 0 \in Int
      BY FS_CardinalityType
    <3>3. SumFunction([y \in E |-> 0]) = 0 * Cardinality(E)
      BY <3>1, <3>2, Zenon
    <3>4. 0 * Cardinality(E) = 0
      BY <3>2
    <3> QED
      BY <3>3, <3>4
  <2>3. g[{}] = SumFunction(Columns({}))
    OBVIOUS
  <2> QED
    BY <2>1, <2>2, <2>3
<1>6. ASSUME NEW T \in SUBSET D, NEW x \in T PROVE g[T] = rows[x] + g[T \ {x}]
  <2>1. T \ {x} \in SUBSET D /\ x \in D
    OBVIOUS
  <2>2. Row(x) \in [E -> Int] /\ Columns(T \ {x}) \in [E -> Int]
    BY <1>1, <1>2, <2>1
  <2>3. Columns(T) = [y \in E |-> Row(x)[y] + Columns(T \ {x})[y]]
    <3>1. \A y \in E : Row(x)[y] = h[<<x, y>>]
      BY DEF Row
    <3> QED
      BY <1>4, <3>1
  <2>4. g[T] = SumFunction(Columns(T)) /\ g[T \ {x}] = SumFunction(Columns(T \ {x}))
        /\ rows[x] = SumFunction(Row(x))
    BY <2>1
  <2>5. ASSUME NEW a \in [E -> Int], NEW b \in [E -> Int]
        PROVE  SumFunction([y \in E |-> a[y] + b[y]]) = SumFunction(a) + SumFunction(b)
    BY SumAdd
  <2> HIDE DEF g, rows, Columns
  <2> QED
    BY <2>2, <2>3, <2>4, <2>5
<1>7. rows \in [D -> Int] /\ g[D] = SumFunction(Columns(D))
  BY <1>1
<1> HIDE DEF g, rows
<1>8. Measures(g, rows, D)
  BY <1>5, <1>6 DEF Measures
<1>9. SumFunction(rows) = g[D]
  BY <1>7, <1>8, SumOver
<1> QED
  BY <1>7, <1>9 DEF rows, Row, Column, RowSums, ColumnSums

\* A sum of naturals that is zero has no other terms.
LEMMA SumZero ==
    ASSUME NEW D, IsFiniteSet(D), NEW f \in [D -> Nat], SumFunction(f) = 0, NEW x \in D
    PROVE  f[x] = 0
<1>1. Nat \in {Nat, Int} /\ DOMAIN f = D
  OBVIOUS
<1>2. /\ SumFunctionOnSet(f, D) = f[x] + SumFunctionOnSet(f, D \ {x})
      /\ SumFunctionOnSet(f, D \ {x}) \in Nat
  BY <1>1, SumMeasures
<1>3. f[x] \in Nat
  OBVIOUS
<1> QED
  BY <1>1, <1>2, <1>3 DEF SumFunction

\* A sum with one of its terms taken out.
LEMMA SumStep ==
    ASSUME NEW D, IsFiniteSet(D), NEW f \in [D -> Int], NEW x \in D
    PROVE  /\ SumFunction(f) = f[x] + SumFunction([y \in D \ {x} |-> f[y]])
           /\ SumFunction([y \in D \ {x} |-> f[y]]) \in Int
<1> DEFINE rest == [y \in D \ {x} |-> f[y]]
<1>1. PICK g \in [SUBSET D -> Int] : Measures(g, f, D) /\ SumFunction(f) = g[D]
  BY SumMeasured
<1>2. g[D] = f[x] + g[D \ {x}]
  BY <1>1 DEF Measures
<1>3. IsFiniteSet(D \ {x}) /\ rest \in [D \ {x} -> Int]
  BY FS_Subset
<1>4. Measures(g, rest, D \ {x})
  BY <1>1 DEF Measures
<1> HIDE DEF rest
<1>5. SumFunction(rest) = g[D \ {x}] /\ SumFunction(rest) \in Int
  BY <1>3, <1>4, SumOver
<1> QED
  BY <1>1, <1>2, <1>5 DEF rest

\* The sum over pairs is the sum of the sums over rows.
LEMMA SumPairs ==
    ASSUME NEW D, IsFiniteSet(D), NEW E, IsFiniteSet(E), NEW h \in [D \X E -> Int]
    PROVE  SumFunction(h) = SumFunction(RowSums(h, D, E))
<1> DEFINE Row(x) == [y \in E |-> h[<<x, y>>]]
           rows == [x \in D |-> SumFunction(Row(x))]
<1>1. IsFiniteSet(D \X E)
  BY FS_Product
<1>2. PICK a \in [SUBSET (D \X E) -> Int] : Measures(a, h, D \X E) /\ SumFunction(h) = a[D \X E]
  BY <1>1, SumMeasured
<1> DEFINE g == [T \in SUBSET D |-> a[T \X E]]
<1>3. g[{}] = 0
  <2>1. {} \X E = {}
    OBVIOUS
  <2> QED
    BY <1>2, <2>1 DEF Measures
<1>4. ASSUME NEW T \in SUBSET D, NEW x \in T PROVE g[T] = rows[x] + g[T \ {x}]
  <2> DEFINE P == (T \ {x}) \X E
             With(V) == P \cup ({x} \X V)
             b == [V \in SUBSET E |-> a[With(V)] - a[P]]
  <2>1. ASSUME NEW V \in SUBSET E PROVE With(V) \in SUBSET (D \X E)
    OBVIOUS
  <2>2. P \in SUBSET (D \X E) /\ a[P] \in Int
    OBVIOUS
  <2>3. b[{}] = 0
    <3>1. With({}) = P
      OBVIOUS
    <3> HIDE DEF With, P
    <3> QED
      BY <2>2, <3>1
  <2>4. ASSUME NEW V \in SUBSET E, NEW y \in V
        PROVE  b[V] = Row(x)[y] + b[V \ {y}]
    <3>1. With(V \ {y}) = With(V) \ {<<x, y>>} /\ <<x, y>> \in With(V)
      OBVIOUS
    <3>2. With(V) \in SUBSET (D \X E) /\ With(V \ {y}) \in SUBSET (D \X E)
      BY <2>1
    <3> DEFINE w == With(V)
               q == With(V \ {y})
               i == a[q]
               j == a[P]
               z == h[<<x, y>>]
    <3>3. a[w] = z + i
      <4>1. w \in SUBSET (D \X E) /\ <<x, y>> \in w /\ q = w \ {<<x, y>>}
        BY <3>1, <3>2
      <4> HIDE DEF w, q, b, g, rows, Row
      <4> QED
        BY <1>2, <4>1 DEF Measures
    <3>4. Row(x)[y] = z /\ z \in Int /\ i \in Int /\ j \in Int
      BY <2>2, <3>2
    <3>5. b[V] = a[w] - j /\ b[V \ {y}] = i - j
      OBVIOUS
    <3> HIDE DEF b, Row, w, i, j, z
    <3> QED
      BY <3>3, <3>4, <3>5
  <2>5. Row(x) \in [E -> Int] /\ b[E] = a[With(E)] - a[P]
    OBVIOUS
  <2>6. Measures(b, Row(x), E)
    <3> HIDE DEF b, Row
    <3> QED
      BY <2>3, <2>4 DEF Measures
  <2>7. SumFunction(Row(x)) = b[E]
    <3> HIDE DEF b, Row
    <3> QED
      BY <2>5, <2>6, SumOver
  <2>8. With(E) = T \X E
    OBVIOUS
  <2>9. g[T] = a[T \X E] /\ g[T \ {x}] = a[P] /\ rows[x] = SumFunction(Row(x)) /\ a[T \X E] \in Int
    <3>1. T \X E \in SUBSET (D \X E)
      OBVIOUS
    <3> QED
      BY <3>1
  <2> DEFINE i == a[T \X E]
             j == a[P]
  <2>10. g[T] = i /\ g[T \ {x}] = j /\ rows[x] = i - j /\ i \in Int /\ j \in Int
    <3> HIDE DEF P, With, b, g, rows, Row
    <3> QED
      BY <2>2, <2>5, <2>7, <2>8, <2>9
  <2> HIDE DEF g, rows, i, j
  <2> QED
    BY <2>10
<1>5. rows \in [D -> Int]
  <2>1. ASSUME NEW x \in D PROVE SumFunction(Row(x)) \in Int
    <3>1. Row(x) \in [E -> Int] /\ Int \in {Nat, Int}
      OBVIOUS
    <3> HIDE DEF Row
    <3> QED
      BY <3>1, SumType
  <2> QED
    BY <2>1
<1>6. g[D] = a[D \X E]
  OBVIOUS
<1> HIDE DEF g, rows
<1>7. Measures(g, rows, D)
  BY <1>3, <1>4 DEF Measures
<1>8. SumFunction(rows) = g[D]
  BY <1>5, <1>7, SumOver
<1> QED
  BY <1>2, <1>6, <1>8 DEF rows, Row, RowSums

\* The pairs of two different elements.
Unlike(D) == {p \in D \X D : p[1] # p[2]}

\* The products of two different terms: the square of the sum without the squares.
LEMMA SumOfProducts ==
    ASSUME NEW D, IsFiniteSet(D), NEW f \in [D -> Int]
    PROVE  SumFunction([p \in Unlike(D) |-> f[p[1]] * f[p[2]]])
               = SumFunction(f) * SumFunction(f) - SumFunction([k \in D |-> f[k] * f[k]])
<1> DEFINE F == SumFunction(f)
           all == [p \in D \X D |-> IF p[1] = p[2] THEN 0 ELSE f[p[1]] * f[p[2]]]
           unlike == [p \in Unlike(D) |-> f[p[1]] * f[p[2]]]
           Row(k) == [l \in D |-> all[<<k, l>>]]
           square == [k \in D |-> f[k] * f[k]]
           Rest(k) == [l \in D \ {k} |-> f[l]]
<1>1. F \in Int /\ square \in [D -> Int]
  <2>1. Int \in {Nat, Int} /\ \A k \in D : f[k] \in Int /\ f[k] * f[k] \in Int
    OBVIOUS
  <2> QED
    BY <2>1, SumType
<1>2. SumFunction(unlike) = SumFunction(all)
  <2>1. IsFiniteSet(D \X D) /\ Unlike(D) \in SUBSET (D \X D)
    BY FS_Product DEF Unlike
  <2>2. all \in [D \X D -> Int] /\ unlike \in [Unlike(D) -> Int]
    <3>1. \A k, l \in D : f[k] * f[l] \in Int
      OBVIOUS
    <3> QED
      BY <3>1 DEF Unlike
  <2>3. \A p \in (D \X D) \ Unlike(D) : all[p] = 0
    BY DEF Unlike
  <2>4. \A p \in Unlike(D) : unlike[p] = all[p]
    BY DEF Unlike
  <2> HIDE DEF all, unlike
  <2> QED
    BY <2>1, <2>2, <2>3, <2>4, SumSupport
<1>3. SumFunction(all) = SumFunction([k \in D |-> SumFunction(Row(k))])
  <2>1. all \in [D \X D -> Int]
    <3>1. \A k, l \in D : f[k] * f[l] \in Int
      OBVIOUS
    <3> QED
      BY <3>1
  <2>2. RowSums(all, D, D) = [k \in D |-> SumFunction(Row(k))]
    BY DEF RowSums
  <2> HIDE DEF all, F, unlike, Row, square, Rest
  <2>3. SumFunction(all) = SumFunction(RowSums(all, D, D))
    BY <2>1, SumPairs
  <2> QED
    BY <2>2, <2>3, Zenon
<1>4. ASSUME NEW k \in D PROVE SumFunction(Row(k)) = F * f[k] + (-1) * square[k]
  <2> DEFINE scaled == [l \in D \ {k} |-> f[k] * Rest(k)[l]]
  <2>1. IsFiniteSet(D \ {k}) /\ f[k] \in Int /\ Rest(k) \in [D \ {k} -> Int]
    BY FS_Subset
  <2>2. SumFunction(scaled) = f[k] * SumFunction(Rest(k))
    <3> HIDE DEF Rest
    <3> QED
      BY <2>1, SumScale
  <2>3. F = f[k] + SumFunction(Rest(k)) /\ SumFunction(Rest(k)) \in Int
    BY SumStep
  <2>4. SumFunction(scaled) = SumFunction(Row(k))
    <3>1. \A i, j \in D : f[i] * f[j] \in Int
      OBVIOUS
    <3>2. Row(k) \in [D -> Int] /\ scaled \in [D \ {k} -> Int] /\ D \ {k} \in SUBSET D
      BY <3>1
    <3>3. \A l \in D \ (D \ {k}) : Row(k)[l] = 0
      OBVIOUS
    <3>4. \A l \in D \ {k} : scaled[l] = Row(k)[l]
      OBVIOUS
    <3> HIDE DEF scaled, Row
    <3> QED
      BY <3>2, <3>3, <3>4, SumSupport
  <2>5. square[k] = f[k] * f[k]
    OBVIOUS
  <2> DEFINE r == SumFunction(Rest(k))
             v == f[k]
  <2>6. v \in Int /\ r \in Int /\ F = v + r /\ square[k] = v * v /\ SumFunction(Row(k)) = v * r
    BY <2>1, <2>2, <2>3, <2>4, <2>5
  <2>7. v * r = (v + r) * v + (-1) * (v * v)
    <3> HIDE DEF v, r
    <3> QED
      BY <2>6
  <2> HIDE DEF F, square, Row, r
  <2> QED
    BY <2>6, <2>7
<1>5. SumFunction([k \in D |-> F * f[k]]) = F * F
  <2> HIDE DEF F
  <2> QED
    BY <1>1, SumScale DEF F
<1>6. SumFunction([k \in D |-> (-1) * square[k]]) = (-1) * SumFunction(square)
  <2> HIDE DEF square
  <2> QED
    BY <1>1, SumScale
<1> DEFINE one == [k \in D |-> F * f[k]]
           two == [k \in D |-> (-1) * square[k]]
<1>7. one \in [D -> Int] /\ two \in [D -> Int]
  <2>1. \A k \in D : f[k] \in Int /\ square[k] \in Int
    BY <1>1
  <2> HIDE DEF F, square
  <2> QED
    BY <1>1, <2>1
<1>8. SumFunction([k \in D |-> one[k] + two[k]]) = SumFunction(one) + SumFunction(two)
  <2> HIDE DEF one, two
  <2> QED
    BY <1>7, SumAdd
<1>9. [k \in D |-> SumFunction(Row(k))] = [k \in D |-> one[k] + two[k]]
  <2> HIDE DEF F, square, Row
  <2> QED
    BY <1>4
<1>10. SumFunction(square) \in Int
  <2>1. Int \in {Nat, Int}
    OBVIOUS
  <2> HIDE DEF square
  <2> QED
    BY <1>1, <2>1, SumType
<1> HIDE DEF F, square, Row, all
<1>11. SumFunction(one) = F * F /\ SumFunction(two) = (-1) * SumFunction(square)
  BY <1>5, <1>6
<1> HIDE DEF one, two
<1>12. SumFunction(unlike) = F * F + (-1) * SumFunction(square)
  BY <1>2, <1>3, <1>8, <1>9, <1>11
<1>13. F * F \in Int
  BY <1>1
<1>14. SumFunction(unlike) = F * F - SumFunction(square)
  BY <1>10, <1>12, <1>13
<1> QED
  BY <1>14 DEF F, square

\* The sizes of the classes of a set add up to its own.
LEMMA SumClasses ==
    ASSUME NEW D, IsFiniteSet(D), NEW K, IsFiniteSet(K), NEW v \in [D -> K]
    PROVE  SumFunction([k \in K |-> Cardinality({x \in D : v[x] = k})]) = Cardinality(D)
<1> DEFINE sizes == [k \in K |-> Cardinality({x \in D : v[x] = k})]
           In(T) == {x \in D : v[x] \in T}
           g == [T \in SUBSET K |-> Cardinality(In(T))]
<1>1. ASSUME NEW T PROVE IsFiniteSet({x \in D : v[x] = T}) /\ IsFiniteSet(In(T))
                         /\ Cardinality({x \in D : v[x] = T}) \in Nat /\ Cardinality(In(T)) \in Nat
  <2>1. {x \in D : v[x] = T} \in SUBSET D /\ In(T) \in SUBSET D
    OBVIOUS
  <2> QED
    BY <2>1, FS_Subset, FS_CardinalityType
<1>2. g[{}] = 0
  <2>1. In({}) = {}
    OBVIOUS
  <2> QED
    BY <2>1, FS_EmptySet
<1>3. ASSUME NEW T \in SUBSET K, NEW k \in T PROVE g[T] = sizes[k] + g[T \ {k}]
  <2> DEFINE A == {x \in D : v[x] = k}
             B == In(T \ {k})
  <2>1. In(T) = A \cup B /\ A \cap B = {}
    OBVIOUS
  <2>2. IsFiniteSet(A) /\ IsFiniteSet(B) /\ Cardinality(A) \in Nat /\ Cardinality(B) \in Nat
    BY <1>1
  <2>3. sizes[k] = Cardinality(A) /\ g[T] = Cardinality(In(T)) /\ g[T \ {k}] = Cardinality(B)
    OBVIOUS
  <2> HIDE DEF A, B, In, g, sizes
  <2>4. Cardinality(A \cup B) = Cardinality(A) + Cardinality(B) - Cardinality({})
    BY <2>1, <2>2, FS_Union
  <2>5. Cardinality({}) = 0
    BY FS_EmptySet
  <2> QED
    BY <2>1, <2>2, <2>3, <2>4, <2>5
<1>4. sizes \in [K -> Int]
  <2>1. ASSUME NEW k \in K PROVE Cardinality({x \in D : v[x] = k}) \in Int
    <3>1. Cardinality({x \in D : v[x] = k}) \in Nat
      BY <1>1
    <3> QED
      BY <3>1
  <2> QED
    BY <2>1
<1>5. g[K] = Cardinality(D)
  <2>1. In(K) = D
    OBVIOUS
  <2> QED
    BY <2>1
<1> HIDE DEF g, sizes
<1>6. Measures(g, sizes, K)
  BY <1>2, <1>3 DEF Measures
<1>7. SumFunction(sizes) = g[K]
  BY <1>4, <1>6, SumOver
<1> QED
  BY <1>5, <1>7 DEF sizes

\* A linear function of what is summed up.
LEMMA SumLinear ==
    ASSUME NEW D, IsFiniteSet(D), NEW f \in [D -> Int], NEW a \in Int, NEW b \in Int
    PROVE  SumFunction([x \in D |-> a * f[x] + b]) = a * SumFunction(f) + b * Cardinality(D)
<1> DEFINE scaled == [x \in D |-> a * f[x]]
           same == [x \in D |-> b]
<1>1. scaled \in [D -> Int] /\ same \in [D -> Int]
  <2>1. \A x \in D : a * f[x] \in Int
    OBVIOUS
  <2> QED
    BY <2>1
<1>2. SumFunction(scaled) = a * SumFunction(f) /\ SumFunction(same) = b * Cardinality(D)
  BY SumScale, SumConstant
<1>3. [x \in D |-> a * f[x] + b] = [x \in D |-> scaled[x] + same[x]]
  OBVIOUS
<1> HIDE DEF scaled, same
<1>4. SumFunction([x \in D |-> scaled[x] + same[x]]) = SumFunction(scaled) + SumFunction(same)
  BY <1>1, SumAdd
<1> QED
  BY <1>2, <1>3, <1>4

\* One more at one place.
LEMMA SumExcept ==
    ASSUME NEW D, IsFiniteSet(D), NEW f \in [D -> Int], NEW x \in D, NEW v \in Int
    PROVE  SumFunction([f EXCEPT ![x] = v]) = SumFunction(f) - f[x] + v
<1> DEFINE h == [f EXCEPT ![x] = v]
           rest == SumFunction([y \in D \ {x} |-> f[y]])
<1>1. h \in [D -> Int] /\ h[x] = v /\ f[x] \in Int
  OBVIOUS
<1>2. [y \in D \ {x} |-> h[y]] = [y \in D \ {x} |-> f[y]]
  OBVIOUS
<1>3. SumFunction(f) = f[x] + rest /\ rest \in Int
  BY SumStep
<1>4. SumFunction(h) = h[x] + SumFunction([y \in D \ {x} |-> h[y]])
  <2> HIDE DEF h
  <2> QED
    BY <1>1, SumStep
<1>5. SumFunction(h) = v + rest
  BY <1>1, <1>2, <1>4
<1> HIDE DEF h, rest
<1>6. SumFunction(h) = SumFunction(f) - f[x] + v
  BY <1>1, <1>3, <1>5
<1> QED
  BY <1>6 DEF h
===============================================================================
