----------------------------- MODULE StudyProofs -----------------------------
(***************************************************************************)
(* Theorems of the parts that MCStudy composes, for every value of their   *)
(* constants: the scope and the coverage of a synthesis, the promotion of  *)
(* models, reused results, prediction sets and evaluation splits.          *)
(***************************************************************************)
EXTENDS Prediction, ResultReuse, ModelLifecycle, CorpusSynthesis, Splits, ListLemmas

----------SynthesisNode == [of : SUBSET Documents, size : Nat]
PromptBatch == [of : SUBSET Documents, size : Nat, count : Nat]

\* What the nodes or the batches of a list stand for.
Covered(list) == UNION {list[i].of : i \in DOMAIN list}

\* A node joins the last batch or opens one: nothing that was packed is lost.
LEMMA PackNodeIsABatch ==
    ASSUME NEW batches \in Seq(PromptBatch), NEW node \in SynthesisNode
    PROVE  /\ PackNode(batches, node) \in Seq(PromptBatch) \ {<< >>}
           /\ Covered(PackNode(batches, node)) = Covered(batches) \cup node.of
<1> DEFINE opened == [of |-> node.of, size |-> node.size, count |-> 1]
           n == Len(batches)
           wider == [of |-> batches[n].of \cup node.of,
                     size |-> batches[n].size + node.size,
                     count |-> batches[n].count + 1]
<1>1. n \in Nat /\ DOMAIN batches = 1..n /\ \A i \in 1..n : batches[i] \in PromptBatch
  OBVIOUS
<1>2. CASE PackNode(batches, node) = Append(batches, opened)
  <2>1. opened \in PromptBatch
    BY DEF SynthesisNode, PromptBatch
  <2> DEFINE packed == Append(batches, opened)
  <2> HIDE DEF opened
  <2>2. packed \in Seq(PromptBatch) /\ Len(packed) = n + 1
    BY <2>1
  <2>3. /\ DOMAIN packed = 1..(n + 1)
        /\ \A i \in 1..n : packed[i] = batches[i]
        /\ packed[n + 1] = opened
    BY <2>1
  <2>4. packed # << >>
    BY <1>1, <2>3
  <2>5. opened.of = node.of
    BY DEF opened
  <2> HIDE DEF packed, n
  <2>6. Covered(packed) = Covered(batches) \cup opened.of
    BY <1>1, <2>3 DEF Covered
  <2> QED
    BY <1>2, <2>2, <2>4, <2>5, <2>6 DEF packed
<1>3. CASE batches # << >> /\ PackNode(batches, node) = Append(Front(batches), wider)
  <2>1. n > 0 /\ n \in 1..n
    BY <1>3
  <2>2. wider \in PromptBatch
    BY <1>1, <2>1 DEF SynthesisNode, PromptBatch
  <2> DEFINE front == Front(batches)
             packed == Append(front, wider)
  <2>3. /\ front \in Seq(PromptBatch)
        /\ Len(front) = n - 1
        /\ \A i \in 1..(n - 1) : front[i] = batches[i]
    BY <1>1, <2>1 DEF Front
  <2>4. wider.of = batches[n].of \cup node.of
    OBVIOUS
  <2> HIDE DEF wider, front, n
  <2>5. packed \in Seq(PromptBatch) /\ Len(packed) = (n - 1) + 1
    BY <2>2, <2>3
  <2>6. /\ DOMAIN packed = 1..n
        /\ \A i \in 1..(n - 1) : packed[i] = batches[i]
        /\ packed[n] = wider
    <3>1. DOMAIN packed = 1..n
      BY <1>1, <2>5
    <3>2. packed[n] = wider
      BY <1>1, <2>1, <2>2, <2>3
    <3>3. ASSUME NEW i \in 1..(n - 1) PROVE packed[i] = front[i]
      BY <1>1, <2>1, <2>2, <2>3
    <3> QED
      BY <2>3, <3>1, <3>2, <3>3
  <2>7. packed # << >>
    BY <2>1, <2>6
  <2>8. 1..n = (1..(n - 1)) \cup {n}
    BY <1>1, <2>1
  <2> HIDE DEF packed
  <2>9. Covered(packed) = (UNION {batches[i].of : i \in 1..(n - 1)}) \cup wider.of
    BY <2>6, <2>8 DEF Covered
  <2>10. Covered(batches) = (UNION {batches[i].of : i \in 1..(n - 1)}) \cup batches[n].of
    BY <1>1, <2>8 DEF Covered
  <2> QED
    BY <1>3, <2>4, <2>5, <2>7, <2>9, <2>10 DEF packed, front
<1> QED
  BY <1>2, <1>3 DEF PackNode, Last

\* Packing loses no node.
LEMMA PackedCoversAll ==
    ASSUME NEW all \in Seq(SynthesisNode)
    PROVE  /\ PackNodes(all) \in Seq(PromptBatch)
           /\ all # << >> => PackNodes(all) # << >>
           /\ Covered(PackNodes(all)) = Covered(all)
<1> DEFINE n == Len(all)
           A == Seq(PromptBatch)
           step == [p \in (1..n) \X A |-> PackNode(p[2], all[p[1]])]
           Packs(it) == it = [s \in SUBSET DOMAIN all |->
                                IF s = {} THEN << >>
                                ELSE LET x == Max(s) IN PackNode(it[s \ {x}], all[x])]
           packing == CHOOSE it : Packs(it)
<1>1. n \in Nat /\ DOMAIN all = 1..n /\ \A i \in 1..n : all[i] \in SynthesisNode
  OBVIOUS
<1>2. step \in [(1..n) \X A -> A]
  BY <1>1, PackNodeIsABatch
<1>3. \E it : Packs(it)
  <2> DEFINE base == << >>
  <2>1. base \in A
    OBVIOUS
  <2> HIDE DEF A, step, n, base
  <2>2. n \in Nat
    BY <1>1
  <2>3. PICK it \in [SUBSET (1..n) -> A] : FoldsOver(it, n, base, step)
    BY <1>2, <2>2, <2>1, FoldExists
  <2>4. ASSUME NEW s \in SUBSET (1..n), s # {}
        PROVE  step[<<Max(s), it[s \ {Max(s)}]>>] = PackNode(it[s \ {Max(s)}], all[Max(s)])
    <3>1. Max(s) \in 1..n
      BY <1>1, <2>4, LargestExists
    <3>2. it[s \ {Max(s)}] \in A
      OBVIOUS
    <3> QED
      BY <3>1, <3>2 DEF step
  <2>5. Packs(it)
    BY <1>1, <2>3, <2>4 DEF base, FoldsOver
  <2> QED
    BY <2>5
<1>4. Packs(packing)
  <2> HIDE DEF Packs
  <2> QED
    BY <1>3
<1>5. PackNodes(all) = packing[1..n]
  BY <1>1 DEF PackNodes, FoldLeft, MapThenFoldSet
<1> HIDE DEF packing
<1>6. packing[1..0] = << >>
  <2>1. 1..0 = {} /\ {} \in SUBSET DOMAIN all
    OBVIOUS
  <2> QED
    BY <1>4, <2>1
<1>7. ASSUME NEW k \in Nat, k + 1 <= n
      PROVE  packing[1..(k + 1)] = PackNode(packing[1..k], all[k + 1])
  <2> DEFINE s == 1..(k + 1)
  <2>1. Max(s) = k + 1
    <3>1. s \in SUBSET (1..(k + 1)) /\ k + 1 \in s
      OBVIOUS
    <3> HIDE DEF s
    <3> QED
      BY <3>1, MaxUpTo
  <2>2. s \ {k + 1} = 1..k
    OBVIOUS
  <2>3. s \in SUBSET DOMAIN all /\ s # {}
    <3> HIDE DEF n
    <3> QED
      BY <1>1, <1>7
  <2> HIDE DEF s
  <2>4. packing[s] = PackNode(packing[s \ {Max(s)}], all[Max(s)])
    BY <1>4, <2>3
  <2> QED
    BY <2>1, <2>2, <2>4 DEF s
<1> DEFINE Upto(k) == UNION {all[i].of : i \in 1..k}
           Right(k) == /\ packing[1..k] \in A
                       /\ k > 0 => packing[1..k] # << >>
                       /\ Covered(packing[1..k]) = Upto(k)
           S == {k \in Nat : k <= n => Right(k)}
<1> HIDE DEF packing
<1>8. Right(0)
  BY <1>6 DEF Covered
<1>9. ASSUME NEW k \in Nat, Right(k), k + 1 <= n PROVE Right(k + 1)
  <2>1. all[k + 1] \in SynthesisNode
    BY <1>1, <1>9
  <2>2. Upto(k + 1) = Upto(k) \cup all[k + 1].of
    <3>1. 1..(k + 1) = (1..k) \cup {k + 1}
      OBVIOUS
    <3> QED
      BY <3>1
  <2> HIDE DEF Upto
  <2> QED
    BY <1>7, <1>9, <2>1, <2>2, PackNodeIsABatch
<1>10. Right(n)
  <2> HIDE DEF Right
  <2>1. 0 \in S /\ \A k \in Nat : k \in S => k + 1 \in S
    BY <1>1, <1>8, <1>9
  <2>2. Nat \subseteq S
    <3> HIDE DEF S
    <3> QED
      BY <2>1, Inductive
  <2> QED
    BY <1>1, <2>2
<1>11. all # << >> => n > 0
  BY <1>1
<1>12. Upto(n) = Covered(all)
  <2> HIDE DEF n
  <2> QED
    BY <1>1 DEF Covered
<1> HIDE DEF Upto, n
<1> QED
  BY <1>5, <1>10, <1>11, <1>12

\* What the synthesis has to stand for.
Wanted == IF Evident # {} THEN Evident ELSE Scope

\* The answers of this level so far stand for the batches answered so far.
LevelInv ==
    /\ next \in Seq(SynthesisNode)
    /\ Len(next) < Len(PackNodes(nodes))
    /\ \A i \in 1..Len(next) : next[i].of = PackNodes(nodes)[i].of

SynthesisInv ==
    /\ Scope \subseteq Documents
    /\ reached \in {"idle", "resolving", "queued", "mapping"} => next = << >>
    /\ reached \in {"queued", "mapping"} => Scope # {}
    /\ reached \in {"reducing", "reduced", "done"} =>
           nodes \in Seq(SynthesisNode) /\ nodes # << >> /\ Covered(nodes) = Wanted
    /\ reached = "reducing" => LevelInv
    /\ reached \in {"reduced", "done"} => Len(nodes) = 1

\* The invariant says more than is promised.
LEMMA SynthesisInvImplies == SynthesisInv => NoDocumentIsLost
<1> SUFFICES ASSUME SynthesisInv, reached \in {"reduced", "done"}
             PROVE  Len(nodes) = 1 /\ nodes[1].of = Wanted
  BY DEF NoDocumentIsLost, Wanted
<1>1. nodes \in Seq(SynthesisNode) /\ Covered(nodes) = Wanted /\ Len(nodes) = 1
  BY DEF SynthesisInv
<1>2. DOMAIN nodes = {1}
  BY <1>1
<1>3. Covered(nodes) = nodes[1].of
  BY <1>2 DEF Covered
<1> QED
  BY <1>1, <1>3

\* Nothing is in scope yet.
LEMMA SynthesisInvInit == SynthesisInit => SynthesisInv
  BY DEF SynthesisInit, SynthesisInv, Scope

\* The setting of how many nodes a prompt takes stays what it was at the start.
LEMMA PackingKept ==
    ASSUME UNCHANGED fanIn
    PROVE  PackNodes(nodes)' = PackNodes(nodes')
<1>1. fanIn' = fanIn
  OBVIOUS
<1> QED
  BY <1>1 DEF PackNodes, FoldLeft, MapThenFoldSet, PackNode, Full

\* At the start of a level nothing is answered yet.
LEMMA LevelStarts ==
    ASSUME NEW all \in Seq(SynthesisNode), all # << >>
    PROVE  0 < Len(PackNodes(all))
<1>1. PackNodes(all) \in Seq(PromptBatch) /\ PackNodes(all) # << >>
  BY PackedCoversAll
<1> HIDE DEF PackNodes
<1> QED
  BY <1>1

\* The findings that reduction starts from cover what is wanted.
LEMMA ReductionBegins ==
    ASSUME SynthesisInv, BeginReduction, UNCHANGED fanIn
    PROVE  SynthesisInv'
<1> DEFINE S == IF Evident # {} THEN Evident ELSE Scope
<1>1. PICK size \in [DOMAIN Findings -> NodeSizes] :
        nodes' = [i \in DOMAIN Findings |-> [of |-> {Findings[i]}, size |-> size[i]]]
  BY DEF BeginReduction
<1>2. reached = "mapping" /\ reached' = "reducing" /\ UNCHANGED <<bound, outcome, next>>
  BY DEF BeginReduction
<1>3. Scope # {} /\ Scope \subseteq Documents /\ next = << >>
  BY <1>2 DEF SynthesisInv
<1>4. S \in SUBSET Documents /\ S # {}
  BY <1>3 DEF Evident
<1>5. IsFiniteSet(S) /\ S \in SUBSET Int
  <2>1. IsFiniteSet(Documents) /\ Documents \in SUBSET Int
    BY SynthesisAssumption, FS_Interval DEF Documents
  <2> QED
    BY <1>4, <2>1, FS_Subset
<1>6. Findings = Ascending(S)
  BY DEF Findings
<1> HIDE DEF S
<1> DEFINE N == Cardinality(S)
<1>7. /\ N \in Nat
      /\ Findings \in Bijection(1..N, S)
  BY <1>5, <1>6, AscendingLists
<1>8. /\ Findings \in [1..N -> S]
      /\ \A d \in S : \E i \in 1..N : Findings[i] = d
  BY <1>7 DEF Bijection, Injection, Surjection
<1> HIDE DEF N
<1>9. nodes' \in [1..N -> SynthesisNode]
  <2>1. \A i \in 1..N : Findings[i] \in Documents /\ size[i] \in Nat
    BY <1>4, <1>8, SynthesisAssumption
  <2> QED
    BY <1>1, <1>8, <2>1 DEF SynthesisNode
<1>10. nodes' \in Seq(SynthesisNode)
  BY <1>7, <1>9
<1>11. Covered(nodes') = S
  BY <1>1, <1>8 DEF Covered
<1>12. nodes' # << >>
  <2>1. 1..N # {}
    BY <1>4, <1>8
  <2>2. DOMAIN nodes' = 1..N
    BY <1>9
  <2>3. DOMAIN << >> = {}
    OBVIOUS
  <2> QED
    BY <2>1, <2>2, <2>3, Zenon
<1>13. Wanted' = S
  BY <1>2 DEF Wanted, S, Evident, Scope
<1>14. LevelInv'
  <2>1. 0 < Len(PackNodes(nodes'))
    BY <1>10, <1>12, LevelStarts
  <2>2. next' = << >> /\ Len(next') = 0 /\ next' \in Seq(SynthesisNode)
    BY <1>2, <1>3
  <2>3. PackNodes(nodes)' = PackNodes(nodes')
    BY PackingKept
  <2> QED
    BY <2>1, <2>2, <2>3 DEF LevelInv
<1>15. Scope' \subseteq Documents
  BY <1>2, <1>3 DEF Scope
<1> QED
  BY <1>2, <1>10, <1>11, <1>12, <1>13, <1>14, <1>15 DEF SynthesisInv, Covered

\* One more answer, an order of a level, or the last node of all: every document stays
\* covered.
LEMMA ReducePreserves ==
    ASSUME SynthesisInv, Reduce, UNCHANGED fanIn
    PROVE  SynthesisInv'
<1> DEFINE batches == PackNodes(nodes)
           n == Len(next)
<1>1. PICK size \in NodeSizes :
        LET answer == [of |-> batches[n + 1].of, size |-> size] IN
        IF n + 1 < Len(batches)
        THEN next' = Append(next, answer) /\ UNCHANGED <<nodes, reached>>
        ELSE /\ nodes' = Append(next, answer)
             /\ next' = << >>
             /\ reached' = IF Len(batches) > 1 THEN "reducing"
                           ELSE IF ~background THEN "done" ELSE "reduced"
  BY DEF Reduce
<1> DEFINE answer == [of |-> batches[n + 1].of, size |-> size]
           answers == Append(next, answer)
<1>2. reached = "reducing" /\ UNCHANGED <<bound, outcome>>
  BY DEF Reduce
<1>3. /\ nodes \in Seq(SynthesisNode) /\ nodes # << >> /\ Covered(nodes) = Wanted
      /\ LevelInv /\ Scope \subseteq Documents
  BY <1>2 DEF SynthesisInv
<1>4. /\ batches \in Seq(PromptBatch) /\ batches # << >>
      /\ Covered(batches) = Wanted
  BY <1>3, PackedCoversAll
<1>5. Wanted' = Wanted /\ Scope' \subseteq Documents
  BY <1>2, <1>3 DEF Wanted, Evident, Scope
<1>6. next \in Seq(SynthesisNode) /\ n < Len(batches) /\ \A i \in 1..n : next[i].of = batches[i].of
  BY <1>3 DEF LevelInv
<1> HIDE DEF batches
<1>7. n \in Nat /\ Len(batches) \in Nat /\ n + 1 \in 1..Len(batches)
      /\ DOMAIN batches = 1..Len(batches)
  BY <1>4, <1>6
<1>8. answer \in SynthesisNode /\ answer.of = batches[n + 1].of
  <2>1. batches[n + 1] \in PromptBatch
    BY <1>4, <1>7
  <2> QED
    BY <2>1, SynthesisAssumption DEF PromptBatch, SynthesisNode
<1> HIDE DEF answer
<1>9. /\ answers \in Seq(SynthesisNode)
      /\ Len(answers) = n + 1 /\ DOMAIN answers = 1..(n + 1)
      /\ \A i \in 1..(n + 1) : answers[i].of = batches[i].of
  BY <1>6, <1>7, <1>8
<1> HIDE DEF answers
<1>10. CASE n + 1 < Len(batches)
  <2>1. next' = answers /\ UNCHANGED <<nodes, reached>>
    BY <1>1, <1>10 DEF answers, answer
  <2>2. LevelInv'
    <3>1. PackNodes(nodes)' = batches
      BY <2>1, PackingKept DEF batches
    <3>2. Len(answers) < Len(batches) /\ \A i \in 1..Len(answers) : answers[i].of = batches[i].of
      <4> HIDE DEF n
      <4> QED
        BY <1>9, <1>10
    <3> QED
      BY <1>9, <2>1, <3>1, <3>2 DEF LevelInv
  <2> QED
    BY <1>2, <1>3, <1>5, <2>1, <2>2 DEF SynthesisInv, Covered
<1>11. CASE ~(n + 1 < Len(batches))
  <2>1. n + 1 = Len(batches)
    <3>1. Len(batches) \in Nat /\ n \in Nat /\ n + 1 <= Len(batches)
      BY <1>7
    <3> HIDE DEF n
    <3> QED
      BY <1>11, <3>1
  <2>2. /\ nodes' = answers /\ next' = << >>
        /\ reached' = IF Len(batches) > 1 THEN "reducing"
                      ELSE IF ~background THEN "done" ELSE "reduced"
    BY <1>1, <1>11 DEF answers, answer
  <2>3. Covered(answers) = Wanted
    BY <1>4, <1>7, <1>9, <2>1 DEF Covered
  <2>4. answers # << >>
    BY <1>7, <1>9
  <2>5. 0 < Len(PackNodes(answers))
    BY <1>9, <2>4, LevelStarts
  <2>6. LevelInv'
    <3>1. next' \in Seq(SynthesisNode) /\ Len(next') = 0
      BY <2>2
    <3>2. PackNodes(nodes)' = PackNodes(answers)
      BY <2>2, PackingKept
    <3> QED
      BY <2>2, <2>5, <3>1, <3>2 DEF LevelInv
  <2>7. Len(batches) <= 1 => Len(answers) = 1
    BY <1>7, <1>9, <2>1
  <2>8. Covered(nodes') = Wanted
    BY <2>2, <2>3
  <2> QED
    BY <1>5, <1>7, <1>9, <2>2, <2>4, <2>6, <2>7, <2>8 DEF SynthesisInv, Covered
<1> QED
  BY <1>10, <1>11

\* One step for each part of the work.
LEMMA SynthesisInvNext == SynthesisInv /\ [SynthesisNext]_synthesisVars => SynthesisInv'
<1> SUFFICES ASSUME SynthesisInv, [SynthesisNext]_synthesisVars PROVE SynthesisInv'
  OBVIOUS
<1>1. ASSUME UNCHANGED <<reached, bound, outcome, nodes, next, fanIn>> PROVE SynthesisInv'
  <2>1. PackNodes(nodes)' = PackNodes(nodes)
    BY <1>1, PackingKept
  <2>2. LevelInv => LevelInv'
    BY <1>1, <2>1 DEF LevelInv
  <2> QED
    BY <1>1, <2>2 DEF SynthesisInv, Wanted, Evident, Scope, Covered
<1>2. CASE UNCHANGED synthesisVars
  BY <1>1, <1>2 DEF synthesisVars
<1>3. CASE AskCancel
  BY <1>1, <1>3 DEF AskCancel
<1>4. CASE /\ Sources
           /\ UNCHANGED <<background, fanIn, reached, bound, hashed, outcome, nodes, next,
                          asked>>
  BY <1>1, <1>4
<1>5. CASE Work
  <2>1. CASE ResolveScope
    BY <2>1 DEF ResolveScope, SynthesisInv, Scope
  <2>2. CASE HashScope
    BY <2>2 DEF HashScope, SynthesisInv, Scope
  <2>3. CASE VerifyFrozen
    BY <2>3 DEF VerifyFrozen, SynthesisInv, Scope
  <2>4. ASSUME NEW d \in Documents, Retrieve(d) PROVE SynthesisInv'
    BY <2>4 DEF Retrieve, SynthesisInv, Scope
  <2>5. CASE BeginReduction
    BY <1>5, <2>5, ReductionBegins DEF Work
  <2>6. CASE Reduce
    BY <1>5, <2>6, ReducePreserves DEF Work
  <2>7. CASE ReductionFails
    BY <2>7 DEF ReductionFails, SynthesisInv, Scope
  <2>8. CASE CompleteSynthesis
    BY <2>8 DEF CompleteSynthesis, SynthesisInv, Scope, Wanted, Evident, Covered
  <2> QED
    BY <1>5, <2>1, <2>2, <2>3, <2>4, <2>5, <2>6, <2>7, <2>8 DEF Work
<1> QED
  BY <1>2, <1>3, <1>4, <1>5 DEF SynthesisNext

\* However many documents, whatever the fan-in, the budget and the sizes of the nodes:
\* the one node that reduction ends with stands for every document with evidence, or
\* for the whole scope if none has any.
THEOREM NoDocumentLost == SynthesisSpec => []NoDocumentIsLost
<1>1. SynthesisSpec => []SynthesisInv
  BY SynthesisInvInit, SynthesisInvNext, PTL DEF SynthesisSpec
<1> QED
  BY <1>1, SynthesisInvImplies, PTL

-------------------------------------------------------------------
(* CorpusSynthesis *)

\* Whatever happens to the documents between its statements and in the queue, a
\* synthesis in the background maps no document whose bound revision is not the
\* one it hashed.  Nothing more is needed for it to be inductive: the scope is
\* written before the map, and the hash is compared on the one way from the queue
\* to the map.
THEOREM HashOfTheEvidence == SynthesisSpec => []HashIsOfTheEvidence
<1>1. SynthesisInit => HashIsOfTheEvidence
  BY DEF SynthesisInit, HashIsOfTheEvidence
<1>2. HashIsOfTheEvidence /\ [SynthesisNext]_synthesisVars => HashIsOfTheEvidence'
  <2> SUFFICES ASSUME HashIsOfTheEvidence, [SynthesisNext]_synthesisVars
               PROVE  HashIsOfTheEvidence'
    OBVIOUS
  <2> USE DEF HashIsOfTheEvidence, Scope
  <2>1. CASE Work
    <3>1. background' = background
      BY <2>1 DEF Work
    <3>2. CASE ResolveScope
      BY <3>2 DEF ResolveScope
    <3>3. CASE HashScope
      BY <3>1, <3>3 DEF HashScope
    <3>4. CASE VerifyFrozen
      BY <3>1, <3>4 DEF VerifyFrozen
    <3>5. CASE \E d \in Documents : Retrieve(d)
      BY <3>1, <3>5 DEF Retrieve
    <3>6. CASE BeginReduction
      BY <3>1, <3>6 DEF BeginReduction
    <3>7. CASE Reduce
      <4>1. reached = "reducing" /\ UNCHANGED <<bound, hashed>>
        BY <3>7 DEF Reduce
      <4> QED
        BY <3>1, <4>1
    <3>8. CASE ReductionFails
      BY <3>8 DEF ReductionFails
    <3>9. CASE CompleteSynthesis
      BY <3>1, <3>9 DEF CompleteSynthesis
    <3> QED
      BY <2>1, <3>2, <3>3, <3>4, <3>5, <3>6, <3>7, <3>8, <3>9 DEF Work
  <2>2. CASE AskCancel
    BY <2>2 DEF AskCancel
  <2>3. CASE UNCHANGED <<background, reached, bound, hashed>>
    BY <2>3
  <2> QED
    BY <2>1, <2>2, <2>3 DEF SynthesisNext, synthesisVars
<1> QED
  BY <1>1, <1>2, PTL DEF SynthesisSpec

-----------------------------------------------------------------------------
(* ModelLifecycle *)

\* What a request that is to deprecate the others knows of them: each one in
\* production is among the siblings it read, or was given that status since.
RivalsInv ==
    /\ ask \in [Curators -> [at : {"rest", "read", "looked"}, model : SUBSET Models,
                             to : LifecycleStatuses, others : BOOLEAN,
                             was : LifecycleStatuses, siblings : SUBSET Models]]
    /\ statusOf \in [Models -> LifecycleStatuses]
    /\ rivals \in [Curators -> SUBSET Models]
    /\ \A r \in Curators : Promotes(r) /\ ask[r].at = "looked" =>
           \A m \in Models \ ask[r].model :
               statusOf[m] = "production" => m \in ask[r].siblings \cup rivals[r]

\* Nobody is being promoted.
LEMMA RivalsInvInit == LifecycleInit => RivalsInv
  BY DEF LifecycleInit, RivalsInv, NoAsk, LifecycleStatuses, Promotes

\* One step for each of the two writes.
LEMMA RivalsInvNext == RivalsInv /\ [LifecycleNext]_lifecycleVars => RivalsInv'
<1> SUFFICES ASSUME RivalsInv, [LifecycleNext]_lifecycleVars PROVE RivalsInv'
  OBVIOUS
<1> USE LifecycleAssumption DEF LifecycleStatuses
<1>1. ASSUME NEW r \in Curators, NEW m \in Models, NEW to \in Targets,
             NEW others \in BOOLEAN, ReadModel(r, m, to, others)
      PROVE  RivalsInv'
  BY <1>1 DEF RivalsInv, ReadModel, Promotes
<1>2. ASSUME NEW r \in Curators, ReadSiblings(r) PROVE RivalsInv'
  <2>1. Siblings(r) \in SUBSET Models
    BY DEF Siblings
  <2>2. ask'[r].at = "looked" /\ ask'[r].siblings = Siblings(r)
        /\ ask'[r].model = ask[r].model /\ ask'[r].to = ask[r].to
        /\ ask'[r].others = ask[r].others /\ ask'[r].was = ask[r].was
    BY <1>2 DEF ReadSiblings, RivalsInv
  <2>3. \A q \in Curators : q # r => ask'[q] = ask[q] /\ rivals'[q] = rivals[q]
    BY <1>2 DEF ReadSiblings, RivalsInv
  <2>4. ask' \in [Curators -> [at : {"rest", "read", "looked"}, model : SUBSET Models,
                             to : LifecycleStatuses, others : BOOLEAN,
                             was : LifecycleStatuses, siblings : SUBSET Models]]
    BY <1>2, <2>1 DEF ReadSiblings, RivalsInv
  <2>5. statusOf' = statusOf /\ rivals' \in [Curators -> SUBSET Models]
    BY <1>2 DEF ReadSiblings, RivalsInv
  <2>6. Promotes(r)' => \A m \in Models \ ask'[r].model :
               statusOf[m] = "production" => m \in ask'[r].siblings
    BY <2>2 DEF Promotes, Siblings
  <2> QED
    BY <2>2, <2>3, <2>4, <2>5, <2>6 DEF RivalsInv, Promotes
<1>3. ASSUME NEW r \in Curators, CommitStatus(r) PROVE RivalsInv'
  <2> DEFINE new == Writes(ask[r])
  <2>1. /\ statusOf' = [m \in Models |-> IF m \in DOMAIN new THEN new[m] ELSE statusOf[m]]
        /\ rivals' = [q \in Curators |->
               IF q # r /\ ask[q].at = "looked" THEN rivals[q] \cup DOMAIN new ELSE {}]
        /\ ask' = [ask EXCEPT ![r] = NoAsk]
    BY <1>3 DEF CommitStatus
  <2>2. ask[r] \in [at : {"rest", "read", "looked"}, model : SUBSET Models,
                    to : LifecycleStatuses, others : BOOLEAN,
                    was : LifecycleStatuses, siblings : SUBSET Models]
    BY DEF RivalsInv
  <2>3. new \in [DOMAIN new -> LifecycleStatuses] /\ DOMAIN new \subseteq Models
    BY <2>2 DEF Writes
  <2> HIDE DEF new
  <2>4. statusOf' \in [Models -> LifecycleStatuses]
    BY <2>1, <2>3 DEF RivalsInv
  <2>5. rivals' \in [Curators -> SUBSET Models]
    BY <2>1, <2>3 DEF RivalsInv
  <2>6. \A q \in Curators : q # r => ask'[q] = ask[q]
    BY <2>1 DEF RivalsInv
  <2>7. ask'[r] = NoAsk
    BY <2>1 DEF RivalsInv
  <2>8. ask' \in [Curators -> [at : {"rest", "read", "looked"}, model : SUBSET Models,
                             to : LifecycleStatuses, others : BOOLEAN,
                             was : LifecycleStatuses, siblings : SUBSET Models]]
    BY <2>1 DEF RivalsInv, NoAsk
  <2>9. ASSUME NEW q \in Curators, Promotes(q)', ask'[q].at = "looked",
               NEW m \in Models \ ask'[q].model, statusOf'[m] = "production"
        PROVE  m \in ask'[q].siblings \cup rivals'[q]
    <3>1. q # r
      BY <2>7, <2>9 DEF NoAsk
    <3>2. Promotes(q) /\ ask[q].at = "looked" /\ m \in Models \ ask[q].model
      BY <2>6, <2>9, <3>1 DEF Promotes
    <3>3. rivals'[q] = rivals[q] \cup DOMAIN new
      BY <2>1, <3>1, <3>2
    <3>4. CASE m \in DOMAIN new
      BY <3>3, <3>4
    <3>5. CASE m \notin DOMAIN new
      BY <2>1, <2>6, <2>9, <3>1, <3>2, <3>3, <3>5 DEF RivalsInv
    <3> QED
      BY <3>4, <3>5
  <2> QED
    BY <2>4, <2>5, <2>8, <2>9 DEF RivalsInv
<1>4. ASSUME NEW r \in Curators, AbandonStatus(r) PROVE RivalsInv'
  <2>1. ask' = [ask EXCEPT ![r] = NoAsk] /\ statusOf' = statusOf
        /\ rivals' = [rivals EXCEPT ![r] = {}]
    BY <1>4 DEF AbandonStatus
  <2> QED
    BY <2>1 DEF RivalsInv, NoAsk, Promotes
<1>5. CASE UNCHANGED lifecycleVars
  BY <1>5 DEF RivalsInv, lifecycleVars, Promotes
<1> QED
  BY <1>1, <1>2, <1>3, <1>4, <1>5 DEF LifecycleNext

\* However many requests promote, a promotion that deprecates the others leaves in
\* production only what another request wrote since it looked at them.
THEOREM PromotionIsSole == LifecycleSpec => SoleProduction
<1>1. RivalsInv /\ [LifecycleNext]_lifecycleVars =>
        [\A r \in Curators :
           Promotes(r) /\ CommitStatus(r) =>
               {m \in Models \ ask[r].model : statusOf'[m] = "production"}
                   \subseteq rivals[r]]_lifecycleVars
  <2> SUFFICES ASSUME RivalsInv, NEW r \in Curators, Promotes(r), CommitStatus(r),
                      NEW m \in Models \ ask[r].model, statusOf'[m] = "production"
               PROVE  m \in rivals[r]
    BY DEF lifecycleVars
  <2> DEFINE new == Writes(ask[r])
  <2>1. statusOf' = [x \in Models |-> IF x \in DOMAIN new THEN new[x] ELSE statusOf[x]]
    BY DEF CommitStatus
  <2>2. \A x \in DOMAIN new : x \notin ask[r].model => new[x] = "deprecated"
    BY DEF Writes
  <2>3. ask[r].siblings \subseteq DOMAIN new
    BY DEF Writes
  <2> HIDE DEF new
  <2>4. m \notin DOMAIN new /\ statusOf[m] = "production"
    BY <2>1, <2>2
  <2> QED
    BY <2>3, <2>4 DEF RivalsInv, CommitStatus
<1> QED
  BY <1>1, RivalsInvInit, RivalsInvNext, PTL DEF LifecycleSpec, SoleProduction

-----------------------------------------------------------------------------
(* ResultReuse *)

\* What was computed from what the holder, or another holder, had read; holders
\* read nothing any more, so that this stays true.
HeldInv ==
    \A a \in Analyses : at[a] = "completed" =>
        /\ identity[a] = IdentityOf(a)
        /\ result[a].operation = operation[a]
        /\ result[a].text = unitsRead[a]
        /\ \/ result[a] = Computed(a)
           \/ /\ operation[a] = "grouped"
              /\ \E b \in Analyses \ {a} :
                     /\ at[b] = "completed"
                     /\ result[b] = result[a] /\ result[b] = Computed(b)

Read(values) == values \cup {Nothing}

Stages == {"idle", "docs", "read", "computing", "queued", "claimed", "workerDocs",
           "workerRead", "workerComputing", "completed", "dropped"}

ReuseTypes ==
    /\ text \in Contents /\ metadata \in Metadata
    /\ at \in [Analyses -> Stages]
    /\ operation \in [Analyses -> Operations]
    /\ docsRead \in [Analyses -> Read(Metadata)]
    /\ unitsRead \in [Analyses -> Read(Contents)]
    /\ identity \in [Analyses -> Read([operation : Operations, checksum : Read(Contents)])]
    /\ result \in [Analyses -> Read([operation : Operations, text : Read(Contents),
                                    groups : Read(Metadata)])]

\* Nothing has been read yet.
LEMMA ReuseInitInv == ReuseInit => ReuseTypes /\ HeldInv
  BY DEF ReuseInit, ReuseTypes, HeldInv, Read, Stages

\* A step that leaves completed runs as they are and completes none.
LEMMA OthersStay ==
    ASSUME ReuseTypes, HeldInv, NEW a \in Analyses, at[a] # "completed",
           at'[a] # "completed",
           UNCHANGED <<operation, identity, result>>,
           \A b \in Analyses \ {a} :
               at'[b] = at[b] /\ docsRead'[b] = docsRead[b] /\ unitsRead'[b] = unitsRead[b]
    PROVE  HeldInv'
<1>1. ASSUME NEW c \in Analyses, at'[c] = "completed" PROVE c # a /\ at[c] = "completed"
  BY <1>1
<1>2. \A c \in Analyses \ {a} : IdentityOf(c)' = IdentityOf(c) /\ Computed(c)' = Computed(c)
  BY DEF IdentityOf, Computed
<1>3. \A c \in Analyses : at[c] = "completed" => c # a /\ at'[c] = "completed"
  OBVIOUS
<1> HIDE DEF IdentityOf, Computed
<1> QED
  BY <1>1, <1>2, <1>3 DEF HeldInv

\* One step for each thing an analysis may do.
LEMMA ReuseNextInv ==
    ReuseTypes /\ HeldInv /\ [ReuseNext]_reuseVars => ReuseTypes' /\ HeldInv'
<1> SUFFICES ASSUME ReuseTypes, HeldInv, [ReuseNext]_reuseVars
             PROVE  ReuseTypes' /\ HeldInv'
  OBVIOUS
<1>1. ASSUME NEW a \in Analyses, ReadDocuments(a) PROVE ReuseTypes' /\ HeldInv'
  <2>1. ReuseTypes'
    BY <1>1 DEF ReadDocuments, Moves, ReuseTypes, Read, Stages, corpusVars, runFields
  <2>2. /\ at[a] # "completed" /\ at'[a] # "completed"
        /\ UNCHANGED <<operation, identity, result>>
        /\ \A b \in Analyses \ {a} :
               at'[b] = at[b] /\ docsRead'[b] = docsRead[b] /\ unitsRead'[b] = unitsRead[b]
    BY <1>1 DEF ReadDocuments, Moves, ReuseTypes, Read, Stages, corpusVars, runFields
  <2> QED
    BY <2>1, <2>2, OthersStay DEF ReuseTypes
<1>2. ASSUME NEW a \in Analyses, ReadUnitTexts(a) PROVE ReuseTypes' /\ HeldInv'
  <2>1. ReuseTypes'
    BY <1>2 DEF ReadUnitTexts, Moves, ReuseTypes, Read, Stages, corpusVars, runFields
  <2>2. /\ at[a] # "completed" /\ at'[a] # "completed"
        /\ UNCHANGED <<operation, identity, result>>
        /\ \A b \in Analyses \ {a} :
               at'[b] = at[b] /\ docsRead'[b] = docsRead[b] /\ unitsRead'[b] = unitsRead[b]
    BY <1>2 DEF ReadUnitTexts, Moves, ReuseTypes, Read, Stages, corpusVars, runFields
  <2> QED
    BY <2>1, <2>2, OthersStay DEF ReuseTypes
<1>3. ASSUME NEW a \in Analyses,
             StartComputing(a) \/ Enqueue(a) \/ ClaimAnalysis(a) \/ WorkerComputes(a)
               \/ Abandon(a)
      PROVE  ReuseTypes' /\ HeldInv'
  <2>1. UNCHANGED <<operation, docsRead, unitsRead, identity, result>>
    BY <1>3 DEF StartComputing, Enqueue, ClaimAnalysis, WorkerComputes, Abandon, corpusVars, runFields
  <2>2. at[a] # "completed" /\ at'[a] # "completed" /\ at' \in [Analyses -> Stages]
        /\ \A b \in Analyses \ {a} : at'[b] = at[b]
    BY <1>3 DEF StartComputing, Enqueue, ClaimAnalysis, WorkerComputes, Abandon, Moves,
                ReuseTypes, Stages
  <2>3. UNCHANGED <<text, metadata>>
    BY <1>3 DEF StartComputing, Enqueue, ClaimAnalysis, WorkerComputes, Abandon, corpusVars
  <2> QED
    BY <2>1, <2>2, <2>3, OthersStay DEF ReuseTypes
<1>4. ASSUME NEW a \in Analyses, Persist(a) PROVE ReuseTypes' /\ HeldInv'
  <2>1. /\ at[a] # "completed" /\ at' = [at EXCEPT ![a] = "completed"]
        /\ result' = [result EXCEPT ![a] = Computed(a)]
        /\ identity' = [identity EXCEPT ![a] = IdentityOf(a)]
        /\ UNCHANGED <<operation, docsRead, unitsRead>>
    BY <1>4 DEF Persist, Moves, corpusVars
  <2>2. ReuseTypes'
    BY <1>4, <2>1 DEF ReuseTypes, Read, Stages, Persist, corpusVars, Computed, IdentityOf
  <2>3. result'[a] = Computed(a)' /\ identity'[a] = IdentityOf(a)'
    BY <2>1 DEF ReuseTypes, Computed, IdentityOf
  <2>4. result'[a].operation = operation'[a] /\ result'[a].text = unitsRead'[a]
    BY <2>3 DEF Computed
  <2>5. \A b \in Analyses \ {a} : at'[b] = at[b] /\ result'[b] = result[b]
            /\ identity'[b] = identity[b] /\ Computed(b)' = Computed(b)
            /\ IdentityOf(b)' = IdentityOf(b)
    BY <2>1 DEF ReuseTypes, Computed, IdentityOf
  <2> HIDE DEF Computed, IdentityOf
  <2> QED
    BY <2>1, <2>2, <2>3, <2>4, <2>5 DEF HeldInv
<1>5. ASSUME NEW a \in Analyses, ReuseTwin(a) PROVE ReuseTypes' /\ HeldInv'
  <2>1. /\ at[a] # "completed" /\ at' = [at EXCEPT ![a] = "completed"]
        /\ identity' = [identity EXCEPT ![a] = IdentityOf(a)]
        /\ UNCHANGED <<operation, docsRead, unitsRead>>
    BY <1>5 DEF ReuseTwin, Moves, corpusVars
  <2>2. PICK b \in Twins(a) : result' = [result EXCEPT ![a] = result[b]]
    BY <1>5 DEF ReuseTwin
  <2>3. b \in Analyses \ {a} /\ at[b] = "completed" /\ identity[b] = IdentityOf(a)
    BY <2>2 DEF Twins
  <2>4. operation[b] = operation[a] /\ unitsRead[b] = unitsRead[a]
    <3>1. IdentityOf(b) = IdentityOf(a)
      BY <2>3 DEF HeldInv
    <3>2. IdentityOf(b).operation = IdentityOf(a).operation
          /\ IdentityOf(b).checksum = IdentityOf(a).checksum
      BY <3>1
    <3> QED
      BY <3>2 DEF IdentityOf
  <2>5. ReuseTypes'
    BY <1>5, <2>1, <2>2, <2>3 DEF ReuseTypes, Read, Stages, ReuseTwin, corpusVars, IdentityOf
  <2>6. result'[a] = result[b] /\ identity'[a] = IdentityOf(a)' /\ at'[a] = "completed"
    BY <2>1, <2>2 DEF ReuseTypes, IdentityOf
  <2>7. \A c \in Analyses \ {a} : at'[c] = at[c] /\ result'[c] = result[c]
            /\ identity'[c] = identity[c] /\ Computed(c)' = Computed(c)
            /\ IdentityOf(c)' = IdentityOf(c)
    BY <2>1, <2>2 DEF ReuseTypes, Computed, IdentityOf
  <2>8. result'[a].operation = operation'[a] /\ result'[a].text = unitsRead'[a]
    BY <2>1, <2>3, <2>4, <2>6 DEF HeldInv
  <2>9. PICK c \in Analyses \ {a} :
            at[c] = "completed" /\ result[c] = result[b] /\ result[c] = Computed(c)
    BY <2>1, <2>3 DEF HeldInv
  <2>10. operation[a] # "grouped" => result[b] = Computed(b)
    BY <2>3, <2>4 DEF HeldInv
  <2>11. operation[a] # "grouped" => Computed(b) = Computed(a)'
    BY <2>1, <2>4 DEF Computed
  <2>12. \/ result'[a] = Computed(a)'
         \/ /\ operation'[a] = "grouped"
            /\ at'[c] = "completed" /\ result'[c] = result'[a] /\ result'[c] = Computed(c)'
    BY <2>1, <2>6, <2>7, <2>9, <2>10, <2>11
  <2> QED
    BY <2>1, <2>5, <2>6, <2>7, <2>8, <2>12 DEF HeldInv
<1>6. CASE ChangeText \/ ChangeMetadata \/ UNCHANGED reuseVars
  <2>1. UNCHANGED requestVars
    BY <1>6 DEF ChangeText, ChangeMetadata, requestVars, reuseVars
  <2>2. text' \in Contents /\ metadata' \in Metadata
    BY <1>6 DEF ChangeText, ChangeMetadata, reuseVars, ReuseTypes
  <2>3. ReuseTypes'
    BY <2>1, <2>2 DEF ReuseTypes, requestVars
  <2>4. HeldInv'
    BY <2>1 DEF HeldInv, requestVars, IdentityOf, Computed
  <2> QED
    BY <2>3, <2>4
<1> QED
  BY <1>1, <1>2, <1>3, <1>4, <1>5, <1>6 DEF ReuseNext

\* A completed run, reused or computed, at once or by a worker, holds what its own
\* operation makes of the texts it read, whatever is edited; only the groups of a
\* grouped analysis may be another's.
THEOREM ServedAsRequested == ReuseSpec => []ServedIsRequested
<1>1. HeldInv => ServedIsRequested
  BY DEF HeldInv, ServedIsRequested
<1> QED
  BY <1>1, ReuseInitInv, ReuseNextInv, PTL DEF ReuseSpec

-----------------------------------------------------------------------------
(* Prediction *)

\* Where the worker is decides whether the run has a set: none before the draft,
\* the draft until the worker is done.  A run that has ended has no worker.
SetInv ==
    /\ pc \in Phases
    /\ status \in RunStatuses
    /\ set \in {"none", "draft", "published"}
    /\ pc \in {"idle", "freeze", "draft"} => set = "none"
    /\ pc \in {"read", "store", "storeLast", "check", "complete"} => set = "draft"
    /\ status \in {"completed", "failed"} => pc = "done"
    /\ pc = "idle" => status \in {"queued", "cancelled"}

\* A queued run has no set.
LEMMA SetInvInit == PredictionInit => SetInv /\ OutcomeHasItsSet
  BY DEF PredictionInit, SetInv, OutcomeHasItsSet, Phases, RunStatuses, Active

\* One step for each thing that may happen to a run.
LEMMA SetInvNext ==
    SetInv /\ OutcomeHasItsSet /\ [PredictionNext]_predictionAllVars
        => SetInv' /\ OutcomeHasItsSet'
<1> SUFFICES ASSUME SetInv, OutcomeHasItsSet, [PredictionNext]_predictionAllVars
             PROVE  SetInv' /\ OutcomeHasItsSet'
  OBVIOUS
<1> USE DEF SetInv, OutcomeHasItsSet, Phases, RunStatuses, Active, Working, SeesCancel
<1>1. CASE Claim
  BY <1>1 DEF Claim
<1>2. CASE Freeze
  BY <1>2 DEF Freeze
<1>3. CASE Draft
  BY <1>3 DEF Draft
<1>4. CASE ReadPage
  <2>1. UNCHANGED <<status, set, rows>> /\ pc = "read"
        /\ pc' \in {"unwind", "store", "storeLast", "check", "read"}
    BY <1>4 DEF ReadPage
  <2> QED
    BY <2>1
<1>5. CASE StorePage
  <2>1. UNCHANGED <<status, set>> /\ pc \in {"store", "storeLast"}
        /\ pc' \in {"read", "check", "lost"}
    BY <1>5 DEF StorePage
  <2> QED
    BY <2>1
<1>6. CASE LastCheck
  BY <1>6 DEF LastCheck
<1>7. CASE Finish
  BY <1>7 DEF Finish, Discard, SeenStatus
<1>8. CASE Unwind
  BY <1>8 DEF Unwind, Discard
<1>9. CASE Fail
  BY <1>9 DEF Fail, Discard, SeenStatus
<1>10. CASE Die
  BY <1>10 DEF Die
<1>11. CASE RequestCancel
  BY <1>11 DEF RequestCancel
<1>12. CASE CommitCancel
  BY <1>12 DEF CommitCancel
<1>13. CASE \E u \in units : Annotate(u)
  BY <1>13 DEF Annotate
<1>14. CASE \E d \in Docs : ResegmentUnderPrediction(d)
  <2>1. UNCHANGED <<pc, status, set>> /\ rows' = rows \cap units'
    BY <1>14 DEF ResegmentUnderPrediction
  <2> QED
    BY <2>1
<1>15. CASE UNCHANGED predictionAllVars
  BY <1>15 DEF predictionAllVars, predictionVars
<1> QED
  BY <1>1, <1>2, <1>3, <1>4, <1>5, <1>6, <1>7, <1>8, <1>9, <1>10, <1>11, <1>12, <1>13,
     <1>14, <1>15 DEF PredictionNext

\* Whatever interrupts a prediction (a cancellation, stale or not, a refused
\* completion, an error, a death, a document segmented under it), its set is
\* published exactly with the run, and gone with it.
THEOREM SetFollowsRun == PredictionSpec => []OutcomeHasItsSet
  BY SetInvInit, SetInvNext, PTL DEF PredictionSpec

\* Units are of the bounds, one generation of each document's.
ListingInv ==
    /\ units \in SUBSET Unit
    /\ generation \in [Docs -> 0..MaxGeneration]
    /\ \A u, v \in units : u.doc = v.doc => u.gen = v.gen

\* There are finitely many units.
LEMMA UnitIsFinite == IsFiniteSet(Unit)
<1> DEFINE S == (Docs \X (1..MaxUnits)) \X (0..MaxGeneration)
           f == [t \in S |-> [doc |-> t[1][1], pos |-> t[1][2], gen |-> t[2]]]
<1>1. IsFiniteSet(Docs) /\ IsFiniteSet(1..MaxUnits) /\ IsFiniteSet(0..MaxGeneration)
  BY TextUnitsAssumption, FS_Interval
<1>2. IsFiniteSet(S)
  BY <1>1, FS_Product
<1>3. f \in [S -> Unit]
  BY DEF Unit
<1>4. \A u \in Unit : \E t \in S : f[t] = u
  <2> SUFFICES ASSUME NEW u \in Unit PROVE \E t \in S : f[t] = u
    OBVIOUS
  <2>1. <<<<u.doc, u.pos>>, u.gen>> \in S
    BY DEF Unit
  <2>2. f[<<<<u.doc, u.pos>>, u.gen>>] = [doc |-> u.doc, pos |-> u.pos, gen |-> u.gen]
    BY <2>1
  <2>3. u = [doc |-> u.doc, pos |-> u.pos, gen |-> u.gen]
    BY DEF Unit
  <2> QED
    BY <2>1, <2>2, <2>3
<1>5. f \in Surjection(S, Unit)
  BY <1>3, <1>4, Fun_IsSurj
<1> QED
  BY <1>2, <1>5, FS_Surjection

\* The listing is an order.
Order == {p \in units \X units : Before(p[1], p[2])}

\* The listing orders the units.
LEMMA ListingIsOrdered ==
    ASSUME ListingInv
    PROVE  /\ IsFiniteSet(units) /\ StrictOrder(Order, units)
           /\ \A u \in units : Index(u) = RankOf(Order, units)[u]
<1>1. IsFiniteSet(units)
  BY UnitIsFinite, FS_Subset DEF ListingInv
<1>2. \A u \in units : u.doc \in Nat /\ u.pos \in Nat /\ u.gen \in Nat
         /\ u = [doc |-> u.doc, pos |-> u.pos, gen |-> u.gen]
  <2> SUFFICES ASSUME NEW u \in Unit
               PROVE  /\ u.doc \in Nat /\ u.pos \in Nat /\ u.gen \in Nat
                      /\ u = [doc |-> u.doc, pos |-> u.pos, gen |-> u.gen]
    BY DEF ListingInv
  <2>1. u.doc \in Docs /\ u.pos \in 1..MaxUnits /\ u.gen \in 0..MaxGeneration
    BY DEF Unit
  <2>2. u = [doc |-> u.doc, pos |-> u.pos, gen |-> u.gen]
    BY DEF Unit
  <2> QED
    BY <2>1, <2>2, TextUnitsAssumption
<1>3. \A u, v \in units : <<u, v>> \in Order <=> Before(u, v)
  BY DEF Order
<1>4. \A u \in units : ~Before(u, u)
  BY <1>2 DEF Before
<1>5. \A u, v, w \in units : Before(u, v) /\ Before(v, w) => Before(u, w)
  BY <1>2 DEF Before
<1>6. ASSUME NEW u \in units, NEW v \in units, u # v PROVE Before(u, v) \/ Before(v, u)
  <2>1. u.doc = v.doc => u.gen = v.gen
    BY DEF ListingInv
  <2> QED
    BY <1>2, <1>6, <2>1 DEF Before
<1>7. StrictOrder(Order, units)
  BY <1>3, <1>4, <1>5, <1>6 DEF StrictOrder
<1>8. ASSUME NEW u \in units PROVE Index(u) = RankOf(Order, units)[u]
  <2>1. {v \in units : Before(v, u)} = {v \in units : <<v, u>> \in Order}
    BY <1>3
  <2> QED
    BY <2>1 DEF Index, RankOf
<1> QED
  BY <1>1, <1>7, <1>8

First(n) == {u \in units : Index(u) < n}

\* A page and those before it are the first units of the listing, and all of them
\* if the page is short.
LEMMA PagesCover ==
    ASSUME ListingInv, NEW n \in Nat
    PROVE  LET found == PageAt(n)
               size == Cardinality(found)
           IN  /\ size \in Nat /\ size <= PageSize
               /\ size = PageSize => First(n) \cup found = First(n + size)
               /\ size < PageSize => First(n) \cup found = units
<1> DEFINE N == Cardinality(units)
           found == PageAt(n)
<1> USE PredictionAssumption
<1>1. N \in Nat
  BY ListingIsOrdered, FS_CardinalityType
<1>2. \A u \in units : Index(u) \in 0..(N - 1)
  BY ListingIsOrdered, Ranks DEF Bijection, Injection
<1>3. \A u \in units : Index(u) \in Nat /\ Index(u) < N
  BY <1>1, <1>2
<1>4. CASE n + PageSize <= N
  <2>1. found = {u \in units : n <= RankOf(Order, units)[u]
                               /\ RankOf(Order, units)[u] < n + PageSize}
    BY ListingIsOrdered DEF PageAt
  <2>2. Cardinality(found) = (n + PageSize) - n
    <3>1. n + PageSize \in Nat /\ n <= n + PageSize
      OBVIOUS
    <3>2. LET T == {u \in units : n <= RankOf(Order, units)[u]
                                  /\ RankOf(Order, units)[u] < n + PageSize}
          IN  IsFiniteSet(T) /\ Cardinality(T) = (n + PageSize) - n
      BY <1>4, <3>1, RankedBetween, ListingIsOrdered
    <3> QED
      BY <2>1, <3>2
  <2>3. Cardinality(found) = PageSize
    BY <2>2
  <2>4. First(n) \cup found = First(n + PageSize)
    BY <1>3 DEF First, PageAt
  <2> QED
    BY <2>3, <2>4
<1>5. CASE N < n + PageSize /\ n <= N
  <2>1. found = {u \in units : n <= RankOf(Order, units)[u]
                               /\ RankOf(Order, units)[u] < N}
    <3>1. found = {u \in units : n <= Index(u) /\ Index(u) < N}
      BY <1>1, <1>3, <1>5 DEF PageAt
    <3> QED
      BY <3>1, ListingIsOrdered
  <2>2. Cardinality(found) = N - n
    BY <1>1, <1>5, <2>1, RankedBetween, ListingIsOrdered
  <2>3. First(n) \cup found = units
    BY <1>1, <1>3, <1>5 DEF First, PageAt
  <2> QED
    BY <1>1, <1>5, <2>2, <2>3
<1>6. CASE N < n
  <2>1. found = {} /\ First(n) = units
    BY <1>1, <1>3, <1>6 DEF PageAt, First
  <2> QED
    BY <2>1, FS_EmptySet
<1> QED
  BY <1>1, <1>4, <1>5, <1>6

\* What has been stored is what the listing has up to the offset, but for the
\* units left out, and all of the listing once the last page is stored.
PagesInv ==
    /\ pc \in {"idle", "freeze", "draft"} => rows = {} /\ listed = {} /\ offset = 0
    /\ pc = "read" => rows = First(offset) \ frozen
    /\ pc = "store" => rows \cup page = First(offset) \ frozen
    /\ pc = "storeLast" => rows \cup page = units \ frozen
    /\ pc \in {"check", "complete"} \/ set = "published" => rows = units \ frozen
    /\ Working \/ set = "published" => listed = rows

SelectionInv ==
    /\ ListingInv
    /\ offset \in Nat
    /\ onlyNew \in BOOLEAN
    /\ ~onlyNew => frozen = {}
    /\ ~disturbed => PagesInv

\* Nothing is stored.
LEMMA SelectionInvInit == PredictionInit => SelectionInv
<1> SUFFICES ASSUME PredictionInit PROVE SelectionInv
  OBVIOUS
<1> USE DEF PredictionInit
<1>1. PICK n \in [Docs -> 0..MaxUnits] :
          units = UNION {SegmentedInto(d, n[d], 0) : d \in Docs}
  BY DEF UnitsInit
<1>2. ASSUME NEW u \in units PROVE u \in Unit /\ u.gen = 0
  <2>1. PICK d \in Docs : u \in SegmentedInto(d, n[d], 0)
    BY <1>1
  <2>2. PICK p \in 1..n[d] : u = [doc |-> d, pos |-> p, gen |-> 0]
    BY <2>1 DEF SegmentedInto
  <2>3. n[d] \in 0..MaxUnits
    OBVIOUS
  <2>4. p \in 1..MaxUnits /\ 0 \in 0..MaxGeneration
    BY <2>3, TextUnitsAssumption
  <2> QED
    BY <2>2, <2>4 DEF Unit
<1>3. generation \in [Docs -> 0..MaxGeneration]
  BY TextUnitsAssumption DEF UnitsInit
<1>4. ListingInv
  BY <1>2, <1>3 DEF ListingInv
<1>5. PagesInv
  BY DEF PagesInv, Working
<1> QED
  BY <1>4, <1>5 DEF SelectionInv

\* Segmenting a document again replaces its units by those of one new generation.
LEMMA SegmentingKeepsListing ==
    ASSUME ListingInv, NEW d \in Docs, SegmentDocument(d)
    PROVE  ListingInv'
<1> DEFINE g == generation[d] + 1
<1>1. PICK n \in 0..MaxUnits : units' = (units \ UnitsOf(d)) \cup SegmentedInto(d, n, g)
  BY DEF SegmentDocument
<1>2. g \in 0..MaxGeneration /\ generation' = [generation EXCEPT ![d] = g]
  BY TextUnitsAssumption DEF SegmentDocument, ListingInv
<1> HIDE DEF g
<1>3. ASSUME NEW u \in SegmentedInto(d, n, g) PROVE u \in Unit /\ u.doc = d /\ u.gen = g
  <2>1. PICK p \in 1..n : u = [doc |-> d, pos |-> p, gen |-> g]
    BY DEF SegmentedInto
  <2>2. p \in 1..MaxUnits
    BY TextUnitsAssumption
  <2> QED
    BY <1>2, <2>1, <2>2 DEF Unit
<1>4. \A u \in units' : u \in SegmentedInto(d, n, g) \/ (u \in units /\ u.doc # d)
  BY <1>1 DEF UnitsOf
<1>5. units' \in SUBSET Unit
  BY <1>3, <1>4 DEF ListingInv
<1>6. generation' \in [Docs -> 0..MaxGeneration]
  BY <1>2 DEF ListingInv
<1>7. ASSUME NEW u \in units', NEW v \in units', u.doc = v.doc PROVE u.gen = v.gen
  BY <1>3, <1>4, <1>7 DEF ListingInv
<1> QED
  BY <1>5, <1>6, <1>7 DEF ListingInv

\* One step for each thing that may happen to a run or to the units.
LEMMA SelectionInvNext ==
    SelectionInv /\ SetInv /\ OutcomeHasItsSet /\ [PredictionNext]_predictionAllVars
        => SelectionInv'
<1> SUFFICES ASSUME SelectionInv, SetInv, OutcomeHasItsSet,
                    [PredictionNext]_predictionAllVars
             PROVE  SelectionInv'
  OBVIOUS
<1>1. CASE \E d \in Docs : ResegmentUnderPrediction(d)
  <2>1. PICK d \in Docs : ResegmentUnderPrediction(d)
    BY <1>1
  <2>2. ListingInv'
    BY <2>1, SegmentingKeepsListing DEF ResegmentUnderPrediction, SelectionInv
  <2>3. UNCHANGED <<onlyNew, frozen, offset, pc, set, listed>> /\ rows' = rows \cap units'
        /\ (disturbed' <=> disturbed \/ pc # "idle")
    BY <2>1 DEF ResegmentUnderPrediction, runVars
  <2>4. ~disturbed' => PagesInv'
    BY <2>3 DEF PagesInv, SelectionInv, SetInv, Working
  <2> QED
    BY <2>2, <2>3, <2>4 DEF SelectionInv
<1>2. ASSUME UNCHANGED <<unitVars, onlyNew, disturbed>>, offset' \in Nat,
             ~onlyNew => frozen' = {},
             ~disturbed => PagesInv'
      PROVE  SelectionInv'
  BY <1>2 DEF SelectionInv, ListingInv, unitVars
<1>3. ASSUME UNCHANGED units PROVE \A n : First(n)' = First(n)
  BY <1>3 DEF First, Index
<1> USE DEF SetInv, Phases, Working, runVars, unitVars
<1>4. CASE Claim
  BY <1>2, <1>4 DEF Claim, SelectionInv, PagesInv
<1>5. CASE Freeze
  BY <1>2, <1>5 DEF Freeze, SelectionInv, PagesInv
<1>6. CASE Draft
  <2>1. First(0) = {}
    <3>1. \A u \in units : Index(u) \in Nat
      BY ListingIsOrdered, Ranks DEF Bijection, Injection, SelectionInv
    <3> QED
      BY <3>1 DEF First
  <2> QED
    BY <1>2, <1>3, <1>6, <2>1 DEF Draft, SelectionInv, PagesInv
<1>7. CASE ReadPage
  <2> DEFINE found == PageAt(offset)
             size == Cardinality(found)
  <2>1. /\ size \in Nat /\ size <= PageSize
        /\ size = PageSize => First(offset) \cup found = First(offset + size)
        /\ size < PageSize => First(offset) \cup found = units
    BY PagesCover DEF SelectionInv
  <2>2. /\ pc = "read" /\ page' = found \ frozen /\ offset' = offset + size
        /\ pc' = IF found # {} /\ SeesCancel THEN "unwind"
                 ELSE IF page' # {} THEN IF size < PageSize THEN "storeLast" ELSE "store"
                 ELSE IF size < PageSize THEN "check" ELSE "read"
        /\ UNCHANGED <<unitVars, runVars, disturbed, frozen, set, rows, listed>>
    BY <1>7 DEF ReadPage
  <2> HIDE DEF found, size
  <2>3. offset' \in Nat
    BY <2>1, <2>2 DEF SelectionInv
  <2>4. set # "published"
    BY <2>2
  <2>5. ASSUME ~disturbed PROVE PagesInv'
    <3>1. rows = First(offset) \ frozen /\ listed = rows
      BY <2>2, <2>5 DEF SelectionInv, PagesInv
    <3>2. rows \cup page' = (First(offset) \cup found) \ frozen
      BY <2>2, <3>1
    <3>3. size = PageSize => rows \cup page' = First(offset)' \ frozen
      <4>1. First(offset + size) = First(offset)'
        BY <2>2 DEF First, Index
      <4> QED
        BY <2>1, <3>2, <4>1
    <3>4. size < PageSize => rows \cup page' = units \ frozen
      BY <2>1, <3>2
    <3>5. size = PageSize \/ size < PageSize
      BY <2>1, PredictionAssumption
    <3>6. UNCHANGED <<units, frozen, set, rows, listed>>
      BY <2>2
    <3>7. pc' = "read" => page' = {} /\ size = PageSize
      BY <2>2, <3>5
    <3>8. pc' = "check" => page' = {} /\ size < PageSize
      BY <2>2
    <3>9. pc' = "store" => size = PageSize
      BY <2>2, <3>5
    <3>10. pc' = "storeLast" => size < PageSize
      BY <2>2
    <3>11. pc' \in {"unwind", "storeLast", "store", "check", "read"}
      BY <2>2
    <3> QED
      BY <2>4, <3>1, <3>3, <3>4, <3>6, <3>7, <3>8, <3>9, <3>10, <3>11 DEF PagesInv
  <2> QED
    BY <1>2, <2>2, <2>3, <2>5 DEF SelectionInv
<1>8. CASE StorePage
  BY <1>2, <1>3, <1>8 DEF StorePage, SelectionInv, PagesInv
<1>9. CASE LastCheck
  BY <1>2, <1>3, <1>9 DEF LastCheck, SelectionInv, PagesInv
<1>10. CASE Finish
  BY <1>2, <1>3, <1>10 DEF Finish, Discard, SelectionInv, PagesInv
<1>11. CASE Unwind
  BY <1>2, <1>3, <1>11 DEF Unwind, Discard, SelectionInv, PagesInv
<1>12. CASE Fail
  BY <1>2, <1>3, <1>12 DEF Fail, Discard, SelectionInv, PagesInv
<1>13. CASE Die
  BY <1>2, <1>3, <1>13 DEF Die, SelectionInv, PagesInv, OutcomeHasItsSet
<1>14. CASE RequestCancel
  BY <1>2, <1>3, <1>14 DEF RequestCancel, SelectionInv, PagesInv
<1>15. CASE CommitCancel
  BY <1>2, <1>3, <1>15 DEF CommitCancel, SelectionInv, PagesInv
<1>16. CASE \E u \in units : Annotate(u)
  BY <1>2, <1>3, <1>16 DEF Annotate, SelectionInv, PagesInv
<1>17. CASE UNCHANGED predictionAllVars
  BY <1>2, <1>3, <1>17 DEF predictionAllVars, predictionVars, SelectionInv, PagesInv
<1> QED
  BY <1>1, <1>4, <1>5, <1>6, <1>7, <1>8, <1>9, <1>10, <1>11, <1>12, <1>13, <1>14, <1>15,
     <1>16, <1>17 DEF PredictionNext

\* However many documents, units and pages there are, and whatever is annotated,
\* cancelled or fails meanwhile: a published set has a prediction of every unit
\* that the frozen selection does not leave out, and of no other.
THEOREM PublishedWhole == PredictionSpec => []PublishedIsWhole
<1>1. SelectionInv => PublishedIsWhole
  BY DEF SelectionInv, PagesInv, PublishedIsWhole
<1> QED
  BY <1>1, SetInvInit, SetInvNext, SelectionInvInit, SelectionInvNext, PTL DEF PredictionSpec

-----------------------------------------------------------------------------
(* Splits *)

\* Positions in a pool lead back to its rows: those of the groups held out, and the others.
LEMMA DivideParts ==
    ASSUME NEW S \in SUBSET Rows, NEW G
    PROVE  Divide(S, G) = [stays |-> {i \in S : valueOf[i] \notin G},
                           held |-> {i \in S : valueOf[i] \in G}]
<1> DEFINE pool == Pool(S)
           N == Cardinality(S)
           held == Positions(pool, G)
<1>1. IsFiniteSet(S) /\ S \in SUBSET Int
  <2>1. IsFiniteSet(Rows) /\ Rows \in SUBSET Int
    BY SplitsAssumption, FS_Interval DEF Rows
  <2> QED
    BY <2>1, FS_Subset
<1>2. pool \in Bijection(1..N, S)
  BY <1>1, AscendingLists DEF Pool
<1> HIDE DEF pool, N
<1>3. /\ DOMAIN pool = 1..N /\ \A p \in 1..N : pool[p] \in S
      /\ \A p, q \in 1..N : pool[p] = pool[q] => p = q
      /\ \A i \in S : \E p \in 1..N : pool[p] = i
  BY <1>2 DEF Bijection, Injection, Surjection, IsInjective
<1>4. held = {p \in 1..N : valueOf[pool[p]] \in G}
  BY <1>3 DEF Positions
<1>5. At(pool, held) = {i \in S : valueOf[i] \in G}
  BY <1>3, <1>4 DEF At
<1>6. At(pool, DOMAIN pool \ held) = {i \in S : valueOf[i] \notin G}
  BY <1>3, <1>4 DEF At
<1>7. Divide(S, G) = [stays |-> At(pool, DOMAIN pool \ held), held |-> At(pool, held)]
  BY DEF Divide, pool
<1> HIDE DEF held
<1> QED
  BY <1>5, <1>6, <1>7

\* A split of all rows that keeps the groups apart.
Complete(s) == GroupsApart(s) /\ s.train \cup s.val \cup s.test = Rows

\* Dividing twice gives three parts, apart by group and together all rows.
LEMMA DividedIsComplete ==
    ASSUME NEW G, NEW H
    PROVE  LET rest == Divide(Rows, G).stays
               test == Divide(Rows, G).held
           IN  /\ Complete(Split(rest, {}, test))
               /\ Complete(Split(Divide(rest, H).stays, Divide(rest, H).held, test))
<1> DEFINE rest == {i \in Rows : valueOf[i] \notin G}
           test == {i \in Rows : valueOf[i] \in G}
           train == {i \in rest : valueOf[i] \notin H}
           val == {i \in rest : valueOf[i] \in H}
<1>1. Divide(Rows, G).stays = rest /\ Divide(Rows, G).held = test
  BY DivideParts
<1>2. Divide(rest, H).stays = train /\ Divide(rest, H).held = val
  <2>1. rest \in SUBSET Rows
    OBVIOUS
  <2> HIDE DEF rest
  <2> QED
    BY <2>1, DivideParts
<1>3. Complete(Split(rest, {}, test))
  BY DEF Complete, GroupsApart, Split, ValuesIn
<1>4. Complete(Split(train, val, test))
  BY DEF Complete, GroupsApart, Split, ValuesIn
<1> HIDE DEF rest, test, train, val
<1> QED
  BY <1>1, <1>2, <1>3, <1>4

\* So do grouped splits.
LEMMA GroupedHolds ==
    ASSUME NEW multilabel, NEW preferred, PlanGrouped(multilabel, preferred)
    PROVE  NothingLeaks'
<1>1. PICK G : \/ splits' = {Split(Divide(Rows, G).stays, {}, Divide(Rows, G).held)}
               \/ \E H : splits' = {Split(Divide(Divide(Rows, G).stays, H).stays,
                                          Divide(Divide(Rows, G).stays, H).held,
                                          Divide(Rows, G).held)}
  <2>1. PICK G : LET first == Divide(Rows, G)
                     rest == first.stays
                 IN  \/ splits' = {Split(rest, {}, first.held)}
                     \/ \E H : LET second == Divide(rest, H)
                               IN  splits' = {Split(second.stays, second.held, first.held)}
    BY Zenon DEF PlanGrouped
  <2> QED
    BY <2>1
<1>2. PICK s : splits' = {s} /\ Complete(s)
  BY <1>1, DividedIsComplete
<1>3. method' = "grouped" /\ UNCHANGED valueOf
  BY DEF PlanGrouped, rowVars
<1>4. ASSUME NEW t \in splits'
      PROVE  GroupsApart(t)' /\ t.train \cup t.val \cup t.test = Rows
  BY <1>2, <1>3 DEF Complete, GroupsApart, ValuesIn
<1> QED
  BY <1>3, <1>4 DEF NothingLeaks, TemporalPlans, Rows

\* The inner folds of a nested plan, and what each of them validates.
LEMMA NestedHolds ==
    ASSUME valueOf \in [Rows -> Values \cup {Unknown}], NEW multilabel, PlanNested(multilabel)
    PROVE  NothingLeaks'
<1>1. PICK f \in Folds(Rows, FoldCount(Rows, multilabel, OuterSplits)) :
        PlanNested(multilabel)!3!(f)
  BY Zenon DEF PlanNested
<1>2. PICK k \in Range(f) :
        LET outer == Fold(Rows, f, k)
            rest == outer.stays
            alone == Split(rest, {}, outer.held)
        IN  IF Cardinality(ValuesIn(rest)) < 2 THEN splits' = {alone}
            ELSE \E g \in Folds(rest, FoldCount(rest, multilabel, InnerSplits)) :
                     splits' = {alone} \cup
                         {LET part == Fold(rest, g, j)
                          IN  Split(part.stays, part.held, outer.held) : j \in Range(g)}
  BY <1>1
<1>3. method' = "nested" /\ UNCHANGED valueOf /\ \A i \in Rows : valueOf[i] # Unknown
  BY DEF PlanNested, rowVars
<1> DEFINE G == {v \in DOMAIN f : f[v] = k}
           rest == Divide(Rows, G).stays
           test == Divide(Rows, G).held
           alone == Split(rest, {}, test)
           H(g, j) == {v \in DOMAIN g : g[v] = j}
           inner(g, j) == Split(Divide(rest, H(g, j)).stays, Divide(rest, H(g, j)).held, test)
<1>4. \/ splits' = {alone}
      \/ \E g \in Folds(rest, FoldCount(rest, multilabel, InnerSplits)) :
           splits' = {alone} \cup {inner(g, j) : j \in Range(g)}
  BY <1>2 DEF Fold
<1>5. rest = {i \in Rows : valueOf[i] \notin G} /\ test = {i \in Rows : valueOf[i] \in G}
  BY DivideParts
<1>6. Complete(alone) /\ \A g, j : Complete(inner(g, j))
  <2> HIDE DEF G, H
  <2> QED
    BY DividedIsComplete
<1>7. alone.val = {} /\ alone.test = test
  BY DEF Split
<1>8. \A g, j : inner(g, j).val = {i \in rest : valueOf[i] \in H(g, j)}
  <2> SUFFICES ASSUME NEW g, NEW j
               PROVE  inner(g, j).val = {i \in rest : valueOf[i] \in H(g, j)}
    OBVIOUS
  <2>1. rest \in SUBSET Rows
    BY <1>5
  <2> HIDE DEF rest, H
  <2>2. Divide(rest, H(g, j)).held = {i \in rest : valueOf[i] \in H(g, j)}
    BY <2>1, DivideParts
  <2> QED
    BY <2>2 DEF Split
<1> HIDE DEF alone, inner
<1>9. \A s \in splits' : Complete(s)
  BY <1>4, <1>6
<1>10. ASSUME NEW i \in Rows, \A s \in splits' : i \notin s.test, Cardinality(splits') > 1
      PROVE  Cardinality({s \in splits' : i \in s.val}) = 1
  <2>1. i \in rest
    <3>1. alone \in splits'
      BY <1>4
    <3> QED
      BY <1>5, <1>7, <1>10, <3>1
  <2>2. splits' # {alone}
    BY <1>10, FS_Singleton
  <2>3. PICK g \in Folds(rest, FoldCount(rest, multilabel, InnerSplits)) :
          splits' = {alone} \cup {inner(g, j) : j \in Range(g)}
    BY <1>4, <2>2
  <2>4. DOMAIN g = ValuesIn(rest)
    BY <2>3 DEF Folds
  <2>5. valueOf[i] \in DOMAIN g
    BY <1>3, <2>1, <2>4 DEF ValuesIn
  <2> DEFINE own == inner(g, g[valueOf[i]])
  <2>6. own \in splits'
    BY <2>3, <2>5 DEF Range
  <2>7. \A j : i \in inner(g, j).val <=> g[valueOf[i]] = j
    BY <1>8, <2>1, <2>5
  <2>8. {s \in splits' : i \in s.val} = {own}
    BY <1>7, <2>3, <2>6, <2>7
  <2> HIDE DEF own
  <2> QED
    BY <2>8, FS_Singleton
<1>11. ASSUME NEW s \in splits'
       PROVE  GroupsApart(s)' /\ s.train \cup s.val \cup s.test = Rows
  BY <1>3, <1>9 DEF Complete, GroupsApart, ValuesIn
<1> QED
  BY <1>3, <1>10, <1>11 DEF NothingLeaks, TemporalPlans, Rows

\* Leaving one value out.
LEMMA LeaveOneOutHolds ==
    ASSUME NEW most, LeaveOneOut(most)
    PROVE  NothingLeaks'
<1>1. method' = "leaveOut" /\ UNCHANGED valueOf
  BY DEF LeaveOneOut, rowVars
<1>2. \A s \in splits' : \E v : s = Split(RowsOf(ValuesIn(Rows) \ {v}), {}, RowsOf({v}))
  BY DEF LeaveOneOut
<1>3. ASSUME NEW s \in splits' PROVE GroupsApart(s)
  BY <1>2, <1>3 DEF GroupsApart, Split, ValuesIn, RowsOf
<1>4. ASSUME NEW s \in splits' PROVE GroupsApart(s)'
  BY <1>1, <1>3, <1>4 DEF GroupsApart, ValuesIn
<1> QED
  BY <1>1, <1>4 DEF NothingLeaks, TemporalPlans

\* From some values to others.
LEMMA TransferHolds ==
    ASSUME NEW A, NEW B, Transfer(A, B)
    PROVE  NothingLeaks'
<1>1. method' = "transfer" /\ UNCHANGED valueOf
  BY DEF Transfer, rowVars
<1>2. splits' = {Split(RowsOf(A \ {Unknown}), {}, RowsOf(B \ {Unknown}))}
  BY DEF Transfer
<1>3. (A \cap B) \ {Unknown} = {}
  BY DEF Transfer
<1>4. ASSUME NEW s \in splits' PROVE GroupsApart(s)
  BY <1>2, <1>3 DEF GroupsApart, Split, ValuesIn, RowsOf
<1>5. ASSUME NEW s \in splits' PROVE GroupsApart(s)'
  BY <1>1, <1>4, <1>5 DEF GroupsApart, ValuesIn
<1> QED
  BY <1>1, <1>5 DEF NothingLeaks, TemporalPlans

\* What is known of the rows from the start.
RowsInv ==
    /\ valueOf \in [Rows -> Values \cup {Unknown}]
    /\ stored = "numbers" => ValuesIn(Rows) \cap Undated = {}

\* Every value in use has its place.
LEMMA PlacesAreNumbers ==
    ASSUME RowsInv
    PROVE  \A v \in ValuesIn(Rows) : v \in Values /\ Place(v) \in Nat /\ Place(v) \in Places
<1> SUFFICES ASSUME NEW v \in ValuesIn(Rows)
             PROVE  v \in Values /\ Place(v) \in Nat /\ Place(v) \in Places
  OBVIOUS
<1>1. v \in Values
  BY DEF RowsInv, ValuesIn
<1>2. CASE stored = "numbers"
  <2>1. v \in Values \ Undated
    BY <1>1, <1>2 DEF RowsInv
  <2>2. Moment[v] \in Nat
    BY <2>1, SplitsAssumption
  <2> QED
    BY <1>1, <1>2, <2>2 DEF Place, Places
<1>3. CASE stored # "numbers"
  BY <1>1, <1>3, SplitsAssumption DEF Place, Places
<1> QED
  BY <1>2, <1>3

\* The periods: every place that some row has, once, earliest first.
LEMMA PeriodsListed ==
    ASSUME RowsInv
    PROVE  /\ Len(Periods) \in Nat /\ Len(Periods) = Cardinality(Places)
           /\ \A k \in 1..Len(Periods) : Periods[k] \in Places /\ Periods[k] \in Nat
           /\ \A k \in 1..Len(Periods) : RowsAt({Periods[k]}) # {}
           /\ \A j, k \in 1..Len(Periods) : j < k => Periods[j] < Periods[k]
<1>1. \A p \in Places : p \in Nat /\ \E i \in Rows : valueOf[i] # Unknown /\ Place(valueOf[i]) = p
  <2> SUFFICES ASSUME NEW p \in Places
               PROVE  p \in Nat /\ \E i \in Rows : valueOf[i] # Unknown /\ Place(valueOf[i]) = p
    OBVIOUS
  <2>1. PICK v \in ValuesIn(Rows) : p = Place(v)
    BY DEF Places
  <2>2. PICK i \in Rows : valueOf[i] = v /\ v # Unknown
    BY DEF ValuesIn
  <2> QED
    BY <2>1, <2>2, PlacesAreNumbers
<1>2. IsFiniteSet(Places)
  <2>1. IsFiniteSet(Rows)
    BY SplitsAssumption, FS_Interval DEF Rows
  <2> DEFINE D == {i \in Rows : valueOf[i] # Unknown}
             f == [i \in D |-> Place(valueOf[i])]
  <2>2. IsFiniteSet(D)
    BY <2>1, FS_Subset
  <2>3. \A i \in D : f[i] \in Places
    BY DEF Places, ValuesIn
  <2>4. \A p \in Places : \E i \in D : f[i] = p
    BY <1>1
  <2>5. f \in Surjection(D, Places)
    <3> HIDE DEF D
    <3>1. f \in [D -> Places]
      BY <2>3
    <3> HIDE DEF f
    <3> QED
      BY <2>4, <3>1 DEF Surjection
  <2> QED
    BY <2>2, <2>5, FS_Surjection
<1>3. Places \in SUBSET Int
  BY <1>1
<1> DEFINE N == Cardinality(Places)
<1>4. /\ N \in Nat /\ Len(Periods) = N
      /\ Periods \in Bijection(1..N, Places)
      /\ \A i, j \in 1..N : i < j => Periods[i] < Periods[j]
  BY <1>2, <1>3, AscendingLists DEF Periods
<1>5. \A k \in 1..N : Periods[k] \in Places
  <2> HIDE DEF N
  <2> QED
    BY <1>4 DEF Bijection, Injection
<1> HIDE DEF N
<1>6. \A k \in 1..N : Periods[k] \in Nat /\ RowsAt({Periods[k]}) # {}
  BY <1>1, <1>5 DEF RowsAt
<1> QED
  BY <1>4, <1>5, <1>6 DEF N

\* A temporal split: on both sides there are rows, and what is tested is placed later.
Later(s) ==
    /\ s.train # {} /\ s.test # {} /\ s.val = {}
    /\ \A i \in s.train \cup s.test : i \in Rows /\ valueOf[i] # Unknown
    /\ \A i \in s.train, j \in s.test : Place(valueOf[i]) < Place(valueOf[j])

\* Rows of some places and rows of greater ones are such a split.
LEMMA LaterPlaces ==
    ASSUME RowsInv, NEW P, NEW Q, RowsAt(P) # {}, RowsAt(Q) # {},
           \A p \in P \cap Places, q \in Q \cap Places : p < q
    PROVE  Later(Split(RowsAt(P), {}, RowsAt(Q)))
<1>1. ASSUME NEW i \in RowsAt(P), NEW j \in RowsAt(Q)
      PROVE  Place(valueOf[i]) < Place(valueOf[j])
  <2>1. valueOf[i] \in ValuesIn(Rows) /\ valueOf[j] \in ValuesIn(Rows)
    BY DEF RowsAt, ValuesIn
  <2>2. Place(valueOf[i]) \in P \cap Places /\ Place(valueOf[j]) \in Q \cap Places
    BY <2>1, PlacesAreNumbers DEF RowsAt
  <2> QED
    BY <2>2
<1> DEFINE s == Split(RowsAt(P), {}, RowsAt(Q))
<1>2. s.train = RowsAt(P) /\ s.val = {} /\ s.test = RowsAt(Q)
  BY DEF Split
<1>3. \A i \in RowsAt(P) \cup RowsAt(Q) : i \in Rows /\ valueOf[i] # Unknown
  BY DEF RowsAt
<1> HIDE DEF s
<1>4. Later(s)
  BY <1>1, <1>2, <1>3 DEF Later
<1> QED
  BY <1>4 DEF s

\* A side that is placed later has no value of the other.
LEMMA LaterIsApart ==
    ASSUME RowsInv, NEW s, Later(s)
    PROVE  GroupsApart(s)
<1>1. ASSUME NEW i \in s.train, NEW j \in s.test PROVE valueOf[i] # valueOf[j]
  <2>1. valueOf[i] \in ValuesIn(Rows) /\ valueOf[j] \in ValuesIn(Rows)
    BY DEF Later, ValuesIn
  <2>2. Place(valueOf[i]) \in Nat /\ Place(valueOf[j]) \in Nat
    BY <2>1, PlacesAreNumbers
  <2>3. Place(valueOf[i]) < Place(valueOf[j])
    BY DEF Later
  <2>4. Place(valueOf[i]) # Place(valueOf[j])
    BY <2>2, <2>3
  <2> QED
    BY <2>4
<1>2. ValuesIn({}) = {}
  BY DEF ValuesIn
<1> QED
  BY <1>1, <1>2 DEF Later, GroupsApart, ValuesIn

\* Where places follow time, what is placed later is later.
LEMMA LaterIsTestedLater ==
    ASSUME RowsInv, SortedByTime, NEW s, Later(s)
    PROVE  TestedLater(s)
<1> SUFFICES ASSUME NEW i \in s.train, NEW j \in s.test
             PROVE  /\ {valueOf[i], valueOf[j]} \cap Undated = {}
                    /\ Moment[valueOf[i]] < Moment[valueOf[j]]
  BY DEF TestedLater
<1> DEFINE v == valueOf[i]
           w == valueOf[j]
<1>1. v \in ValuesIn(Rows) /\ w \in ValuesIn(Rows) /\ Place(v) < Place(w)
  BY DEF Later, ValuesIn
<1> HIDE DEF v, w
<1>2. ValuesIn(Rows) \cap Undated = {}
  BY DEF RowsInv, SortedByTime
<1>3. Moment[v] < Moment[w]
  BY <1>1 DEF SortedByTime, Place
<1>4. {v, w} \cap Undated = {}
  BY <1>1, <1>2
<1> QED
  BY <1>3, <1>4 DEF v, w

\* What every temporal plan needs of its splits, the number of windows apart.
LEMMA TemporalHolds ==
    ASSUME RowsInv, UNCHANGED rowVars, method' \in TemporalPlans,
           \A s \in splits' : Later(s),
           method' = "expanding" /\ splits' # {} => Cardinality(splits') = Cardinality(Places) - 1
    PROVE  NothingLeaks'
<1>1. UNCHANGED valueOf /\ UNCHANGED stored
  BY DEF rowVars
<1>2. Places' = Places
  BY <1>1 DEF Places, Place, ValuesIn, Rows
<1>3. SortedByTime' <=> SortedByTime
  BY <1>1 DEF SortedByTime, ValuesIn, Rows
<1>4. ASSUME NEW s \in splits'
      PROVE  /\ GroupsApart(s)' /\ s.train # {} /\ s.test # {}
             /\ SortedByTime' => TestedLater(s)'
  <2>1. Later(s)
    BY <1>4
  <2>2. GroupsApart(s) /\ (SortedByTime => TestedLater(s))
    BY <2>1, LaterIsApart, LaterIsTestedLater
  <2>3. GroupsApart(s)' <=> GroupsApart(s)
    BY <1>1 DEF GroupsApart, ValuesIn
  <2>4. TestedLater(s)' <=> TestedLater(s)
    BY <1>1 DEF TestedLater
  <2> QED
    BY <1>3, <2>1, <2>2, <2>3, <2>4 DEF Later
<1>5. method' \notin {"grouped", "nested"}
  BY DEF TemporalPlans
<1> QED
  BY <1>2, <1>4, <1>5 DEF NothingLeaks

\* A cut-off in time.
LEMMA HoldoutHolds ==
    ASSUME RowsInv, Holdout
    PROVE  NothingLeaks'
<1> DEFINE n == Len(Periods)
           middle == n \div 2
           cutoff == Periods[middle]
           early == {p \in Places : p <= cutoff}
           s == Split(RowsAt(early), {}, RowsAt(Places \ early))
<1>1. n >= 2 /\ splits' = {s} /\ method' = "holdout" /\ UNCHANGED rowVars
  BY DEF Holdout
<1>2. n \in Nat
  BY PeriodsListed
<1>3. middle \in 1..n /\ n \in 1..n /\ middle < n
  <2> HIDE DEF n
  <2> QED
    BY <1>1, <1>2
<1> HIDE DEF n, middle
<1>4. /\ cutoff \in Places /\ cutoff \in Nat /\ RowsAt({cutoff}) # {}
      /\ Periods[n] \in Places /\ Periods[n] \in Nat /\ RowsAt({Periods[n]}) # {}
      /\ cutoff < Periods[n]
  BY <1>3, PeriodsListed DEF n
<1>5. \A p \in Places : p \in Nat
  BY PlacesAreNumbers DEF Places
<1> HIDE DEF cutoff
<1>6. cutoff \in early /\ Periods[n] \in Places \ early
  BY <1>4
<1>7. \A p \in early, q \in Places \ early : p < q
  BY <1>4, <1>5
<1>8. RowsAt(early) # {} /\ RowsAt(Places \ early) # {}
  <2> HIDE DEF early
  <2> QED
    BY <1>4, <1>6 DEF RowsAt
<1> HIDE DEF early
<1>9. Later(s)
  BY <1>7, <1>8, LaterPlaces
<1> HIDE DEF s
<1>10. \A t \in splits' : Later(t)
  BY <1>1, <1>9
<1> QED
  BY <1>1, <1>10, TemporalHolds DEF TemporalPlans

\* Windows in time.
LEMMA WindowsHold ==
    ASSUME RowsInv, NEW size \in Nat, NEW fewest, Windows(size, fewest)
    PROVE  NothingLeaks'
<1> DEFINE n == Len(Periods)
           Preceding(k) == {Periods[j] : j \in (IF size = 0 THEN 1 ELSE k - size)..(k - 1)}
           first == IF size = 0 THEN 2 ELSE size + 1
           window(k) == Split(RowsAt(Preceding(k)), {}, RowsAt({Periods[k]}))
<1>1. splits' = IF n < fewest THEN {} ELSE {window(k) : k \in first..n}
  BY DEF Windows
<1>2. /\ method' = (IF size = 0 THEN "expanding" ELSE "rolling")
      /\ UNCHANGED rowVars
  BY DEF Windows
<1>3. n \in Nat /\ first \in Nat /\ first >= 2
  BY PeriodsListed
<1>4. ASSUME NEW k \in first..n PROVE Later(window(k))
  <2>1. k \in 1..n /\ k - 1 \in 1..n
        /\ k - 1 \in (IF size = 0 THEN 1 ELSE k - size)..(k - 1)
        /\ (IF size = 0 THEN 1 ELSE k - size)..(k - 1) \subseteq 1..n
    <3> HIDE DEF n
    <3> QED
      BY <1>3
  <2>2. Periods[k - 1] \in Preceding(k)
    BY <2>1
  <2>3. \A p \in Preceding(k) : p < Periods[k]
    <3> SUFFICES ASSUME NEW j \in (IF size = 0 THEN 1 ELSE k - size)..(k - 1)
                 PROVE  Periods[j] < Periods[k]
      OBVIOUS
    <3>1. j \in 1..n /\ j < k
      <4> HIDE DEF n
      <4> QED
        BY <1>3, <2>1
    <3> QED
      BY <2>1, <3>1, PeriodsListed
  <2> HIDE DEF Preceding
  <2>4. RowsAt(Preceding(k)) # {}
    <3>1. RowsAt({Periods[k - 1]}) # {}
      BY <2>1, PeriodsListed
    <3> QED
      BY <2>2, <3>1 DEF RowsAt
  <2>5. RowsAt({Periods[k]}) # {}
    BY <2>1, PeriodsListed
  <2>6. \A p \in Preceding(k) \cap Places, q \in {Periods[k]} \cap Places : p < q
    BY <2>3
  <2> QED
    BY <2>4, <2>5, <2>6, LaterPlaces
<1>5. ASSUME NEW s \in splits' PROVE Later(s)
  <2>1. PICK k \in first..n : s = window(k)
    BY <1>1, <1>5
  <2> HIDE DEF window, n, first
  <2> QED
    BY <1>4, <2>1
<1>6. ASSUME size = 0, splits' # {} PROVE Cardinality(splits') = Cardinality(Places) - 1
  <2>1. splits' = {window(k) : k \in 2..n}
    BY <1>1, <1>6
  <2>2. ASSUME NEW j \in 2..n, NEW k \in 2..n, window(j) = window(k) PROVE j = k
    <3>1. window(j).test = RowsAt({Periods[j]}) /\ window(k).test = RowsAt({Periods[k]})
      BY DEF Split
    <3>2. j \in 1..n /\ k \in 1..n
      <4> HIDE DEF n
      <4> QED
        BY <1>3
    <3>3. PICK i \in RowsAt({Periods[j]}) : TRUE
      BY <3>2, PeriodsListed
    <3>4. Periods[j] = Periods[k]
      <4>1. RowsAt({Periods[j]}) = RowsAt({Periods[k]})
        BY <2>2, <3>1
      <4> QED
        BY <3>3, <4>1 DEF RowsAt
    <3>5. /\ j < k => Periods[j] < Periods[k]
          /\ k < j => Periods[k] < Periods[j]
          /\ Periods[j] \in Nat /\ Periods[k] \in Nat
      BY <3>2, PeriodsListed
    <3> HIDE DEF n
    <3> QED
      BY <1>3, <3>4, <3>5
  <2>3. n >= 2
    <3> HIDE DEF n, window
    <3>1. 2..n # {}
      BY <1>6, <2>1
    <3> QED
      BY <1>3, <3>1
  <2> DEFINE f == [k \in 2..n |-> window(k)]
  <2>4. f \in Bijection(2..n, splits')
    <3> HIDE DEF window, n
    <3>1. f \in [2..n -> splits'] /\ \A k \in 2..n : f[k] = window(k)
      BY <2>1
    <3>2. f \in Injection(2..n, splits')
      BY <2>2, <3>1 DEF Injection, IsInjective
    <3>3. f \in Surjection(2..n, splits')
      BY <2>1, <3>1 DEF Surjection
    <3> QED
      BY <3>2, <3>3 DEF Bijection
  <2>5. IsFiniteSet(2..n) /\ Cardinality(2..n) = n - 1
    <3> HIDE DEF n
    <3>1. 2 \in Int /\ n \in Int
      BY <1>3
    <3>2. IsFiniteSet(2..n) /\ Cardinality(2..n) = IF 2 > n THEN 0 ELSE n - 2 + 1
      BY <3>1, FS_Interval
    <3> QED
      BY <1>3, <2>3, <3>2
  <2>6. Cardinality(splits') = Cardinality(2..n)
    <3> HIDE DEF f, n
    <3> QED
      BY <2>4, <2>5, FS_Bijection, Fun_ExistsBij
  <2>7. n = Cardinality(Places)
    BY PeriodsListed
  <2> QED
    BY <2>5, <2>6, <2>7
<1>7. method' \in TemporalPlans /\ (method' = "expanding" => size = 0)
  BY <1>2 DEF TemporalPlans
<1> HIDE DEF n, first, window, Preceding
<1> QED
  BY <1>2, <1>5, <1>6, <1>7, TemporalHolds

\* Nothing is planned twice: a plan starts from the rows as they came.
SplitsInv ==
    /\ RowsInv
    /\ method = "none" => splits = {}
    /\ NothingLeaks

\* No plan has been made.
LEMMA SplitsInvInit == SplitsInit => SplitsInv
  BY DEF SplitsInit, SplitsInv, RowsInv, NothingLeaks, TemporalPlans

\* One step for each kind of plan.
LEMMA SplitsInvNext == SplitsInv /\ [SplitsNext]_splitsVars => SplitsInv'
<1> SUFFICES ASSUME SplitsInv, [SplitsNext]_splitsVars PROVE SplitsInv'
  OBVIOUS
<1>1. RowsInv
  BY DEF SplitsInv
<1>2. CASE UNCHANGED splitsVars
  <2>1. UNCHANGED <<valueOf, stored, method, splits>>
    BY <1>2 DEF splitsVars, rowVars
  <2>2. Places' = Places /\ (SortedByTime' <=> SortedByTime)
    BY <2>1 DEF Places, Place, SortedByTime, ValuesIn, Rows
  <2>3. \A s : (GroupsApart(s)' <=> GroupsApart(s)) /\ (TestedLater(s)' <=> TestedLater(s))
    BY <2>1 DEF GroupsApart, TestedLater, ValuesIn
  <2>4. NothingLeaks'
    BY <2>1, <2>2, <2>3 DEF SplitsInv, NothingLeaks, Rows
  <2> QED
    BY <2>1, <2>4 DEF SplitsInv, RowsInv, ValuesIn, Rows
<1>3. CASE SplitsNext
  <2>1. NothingLeaks'
    <3>1. \A multilabel, preferred : PlanGrouped(multilabel, preferred) => NothingLeaks'
      BY GroupedHolds
    <3>2. \A multilabel : PlanNested(multilabel) => NothingLeaks'
      BY <1>1, NestedHolds DEF RowsInv
    <3>3. \A most : LeaveOneOut(most) => NothingLeaks'
      BY LeaveOneOutHolds
    <3>4. \A A, B : Transfer(A, B) => NothingLeaks'
      BY TransferHolds
    <3>5. Holdout => NothingLeaks'
      BY <1>1, HoldoutHolds
    <3>6. \A size \in 0..2 : \A fewest : Windows(size, fewest) => NothingLeaks'
      BY <1>1, WindowsHold
    <3> QED
      BY <1>3, <3>1, <3>2, <3>3, <3>4, <3>5, <3>6 DEF SplitsNext
  <2>2. UNCHANGED rowVars /\ method' # "none"
    BY <1>3 DEF SplitsNext, PlanGrouped, PlanNested, LeaveOneOut, Transfer, Holdout, Windows
  <2> QED
    BY <1>1, <2>1, <2>2 DEF SplitsInv, RowsInv, rowVars, ValuesIn, Rows
<1> QED
  BY <1>2, <1>3

\* However many rows, groups and folds there are and however the library draws
\* them, no plan puts rows of one group on both sides, the plans that promise it
\* use every row, and what a temporal plan tests lies later in time than all it
\* trains on, if the field holds numbers or texts that sort by time.
THEOREM LeaksNothing == SplitsSpec => []NothingLeaks
<1>1. SplitsSpec => []SplitsInv
  BY SplitsInvInit, SplitsInvNext, PTL DEF SplitsSpec
<1>2. SplitsInv => NothingLeaks
  BY DEF SplitsInv
<1> QED
  BY <1>1, <1>2, PTL

\* Where every value tells its time and texts sort by it (ISO dates do), all
\* temporal plans of validation_splits keep what the module says of them.
THEOREM DatesTestLater ==
    ASSUME Undated = {}, \A v, w \in Values : v < w => Moment[v] < Moment[w]
    PROVE  SplitsSpec => []TestsLieLater
<1>1. SplitsInv => TestsLieLater
  <2> SUFFICES ASSUME SplitsInv PROVE TestsLieLater
    OBVIOUS
  <2>1. ValuesIn(Rows) \subseteq Values
    BY DEF SplitsInv, RowsInv, ValuesIn
  <2>2. SortedByTime
    BY <2>1 DEF SortedByTime
  <2> QED
    BY <2>2 DEF SplitsInv, NothingLeaks, TestsLieLater
<1> QED
  BY <1>1, SplitsInvInit, SplitsInvNext, PTL DEF SplitsSpec
=============================================================================
