----------------------------- MODULE PartsProofs -----------------------------
(***************************************************************************)
(* Theorems of parts that MCParts composes, for every value of their       *)
(* constants: what an answer is given to read and what it may cite, what   *)
(* becomes of the requests that wait for one another's embeddings, that    *)
(* the most similar pairs are found without keeping all of them, and that  *)
(* the coefficients of agreement agree.                                    *)
(***************************************************************************)
EXTENDS RagAnswer, EmbeddingFlight, Similarity, Reliability, ListLemmas

-----------------------------------------------------------------------------
(* EmbeddingFlight *)

States == {"none", "pending", "vector", "error", "cancelled"}

FlightType ==
    /\ inflight \in [Keys -> Embedders \cup {NoOwner}]
    /\ future \in [Embedders -> [Keys -> States]]
    /\ progress \in [Embedders -> {"idle", "embedding", "storing", "waiting"} \cup Ended]
    /\ DOMAIN waits = Embedders

\* What a call waits for was registered.
WaitsForRegistered ==
    \A c \in Embedders :
        /\ DOMAIN waits[c] \subseteq Nat
        /\ \A i \in DOMAIN waits[c] :
             waits[c][i] \in Embedders \X Keys /\ StateOf(waits[c][i]) # "none"

\* A future is open only while its owner embeds, or because it was cancelled.
OpenIsEmbedded ==
    \A c \in Embedders, k \in Keys :
        future[c][k] = "pending" => progress[c] \in {"embedding", "cancelled"}

FlightInv == FlightType /\ WaitsForRegistered /\ OpenIsEmbedded

\* A call that waits, waits for the earliest future that is open.
LEMMA AwaitedIsOpen ==
    ASSUME FlightInv, NEW c \in Embedders, AfterWaiting(c) = "waiting"
    PROVE  Awaited(c) \in Embedders \X Keys /\ StateOf(Awaited(c)) = "pending"
<1> DEFINE open == {i \in DOMAIN waits[c] : StateOf(waits[c][i]) # "vector"}
           first == CHOOSE i \in open : \A j \in open : i <= j
<1>1. open \in SUBSET Nat /\ open # {}
  BY DEF FlightInv, WaitsForRegistered, AfterWaiting
<1>2. \E i \in open : \A j \in open : i <= j
  <2> HIDE DEF open
  <2> QED
    BY <1>1, LeastNatural
<1>3. first \in open /\ \A j \in open : first <= j
  <2> HIDE DEF open
  <2> QED
    BY <1>2
<1>4. StateOf(waits[c][first]) \in States \ {"none", "vector"}
  BY <1>3 DEF FlightInv, FlightType, WaitsForRegistered, StateOf
<1>5. StateOf(waits[c][first]) = "pending"
  <2>1. AfterWaiting(c) =
          CASE StateOf(waits[c][first]) = "pending" -> "waiting"
            [] StateOf(waits[c][first]) = "error" -> "failed"
            [] StateOf(waits[c][first]) = "cancelled" -> "cancelled"
    BY <1>1 DEF AfterWaiting
  <2> HIDE DEF first
  <2> QED
    BY <1>4, <2>1 DEF States
<1>6. \A j \in DOMAIN waits[c] : j < first => StateOf(waits[c][j]) # "pending"
  <2> SUFFICES ASSUME NEW j \in DOMAIN waits[c], j < first, StateOf(waits[c][j]) = "pending"
               PROVE  FALSE
    OBVIOUS
  <2>1. j \in open
    OBVIOUS
  <2>2. first \in Nat /\ j \in Nat /\ first <= j
    BY <1>1, <1>3, <2>1
  <2> HIDE DEF first
  <2> QED
    BY <2>2
<1>7. \E i \in DOMAIN waits[c] :
        /\ StateOf(waits[c][i]) = "pending"
        /\ \A j \in DOMAIN waits[c] : j < i => StateOf(waits[c][j]) # "pending"
  <2>1. first \in DOMAIN waits[c]
    BY <1>3
  <2> QED
    BY <2>1, <1>5, <1>6
<1>8. PICK i \in DOMAIN waits[c] :
        Awaited(c) = waits[c][i] /\ StateOf(waits[c][i]) = "pending"
  <2> HIDE DEF first, open
  <2> QED
    BY <1>7 DEF Awaited
<1> QED
  BY <1>8 DEF FlightInv, WaitsForRegistered

\* What is done leaves no future open but those of the cancelled.
LEMMA FlightInvImplies == FlightInv => WaitersAreServed
<1> SUFFICES ASSUME FlightInv, NEW c \in Embedders, progress[c] = "waiting",
                    AfterWaiting(c) = "waiting"
             PROVE  progress[Awaited(c)[1]] \in {"embedding", "cancelled"}
  BY DEF WaitersAreServed
<1>1. Awaited(c) \in Embedders \X Keys /\ StateOf(Awaited(c)) = "pending"
  BY AwaitedIsOpen
<1> QED
  BY <1>1 DEF FlightInv, OpenIsEmbedded, StateOf

\* Nobody has asked for anything.
LEMMA FlightInvInit == FlightInit => FlightInv
  BY FlightAssumption DEF FlightInit, FlightInv, FlightType, WaitsForRegistered, OpenIsEmbedded,
     States, Ended

\* What a step that settles futures and moves one call on has to keep.
LEMMA FlightMoves ==
    ASSUME FlightInv, NEW c \in Embedders, NEW step \in {"storing", "waiting"} \cup Ended,
           Reaches(c, step),
           inflight' \in [Keys -> Embedders \cup {NoOwner}],
           future' \in [Embedders -> [Keys -> States]],
           \A d \in Embedders, k \in Keys :
              /\ future[d][k] # "none" => future'[d][k] # "none"
              /\ future'[d][k] = "pending" => future[d][k] = "pending",
           step = "cancelled" \/ (\A k \in Keys : future'[c][k] # "pending")
    PROVE  FlightInv'
<1>1. FlightType'
  BY DEF FlightInv, FlightType, Reaches, Ended
<1>2. \A d \in Embedders : waits'[d] = waits[d] \/ waits'[d] = << >>
  BY DEF FlightInv, FlightType, Reaches
<1>3. WaitsForRegistered'
  <2> SUFFICES ASSUME NEW d \in Embedders
               PROVE  /\ DOMAIN waits'[d] \subseteq Nat
                      /\ \A i \in DOMAIN waits'[d] :
                           /\ waits'[d][i] \in Embedders \X Keys
                           /\ future'[waits'[d][i][1]][waits'[d][i][2]] # "none"
    BY DEF WaitsForRegistered, StateOf
  <2>1. CASE waits'[d] = << >>
    BY <2>1
  <2>2. CASE waits'[d] = waits[d]
    BY <2>2 DEF FlightInv, WaitsForRegistered, StateOf
  <2> QED
    BY <1>2, <2>1, <2>2
<1>4. OpenIsEmbedded'
  BY DEF FlightInv, FlightType, OpenIsEmbedded, Reaches
<1> QED
  BY <1>1, <1>3, <1>4 DEF FlightInv

\* A look in the cache, with all its registrations and the futures it will wait for.
LEMMA LookKeeps ==
    ASSUME FlightInv, NEW c \in Embedders, NEW texts \in TextLists, Look(c, texts)
    PROVE  FlightInv'
<1>1. PICK hits \in SUBSET Keys : Look(c, texts)!2!(hits)
  BY DEF Look
<1> DEFINE Key(i) == KeyOf[texts[i]]
           missing == {i \in DOMAIN texts : Key(i) \notin hits}
           Spelled(i) == \E j \in missing : j < i /\ Key(j) = Key(i)
           shared == {i \in missing : Key(i) # NoKey /\ (UnderWay(Key(i)) \/ Spelled(i))}
           own == {Key(i) : i \in missing \ shared} \ {NoKey}
           Registrant(k) == IF UnderWay(k) THEN inflight[k] ELSE c
<1>2. /\ progress[c] = "idle"
      /\ inflight' = [k \in Keys |-> IF k \in own THEN c ELSE inflight[k]]
      /\ future' = [future EXCEPT ![c] = [k \in Keys |-> IF k \in own THEN "pending" ELSE @[k]]]
      /\ waits' = [waits EXCEPT ![c] = [i \in shared |-> <<Registrant(Key(i)), Key(i)>>]]
      /\ progress' = [progress EXCEPT ![c] = IF missing = {} THEN "done"
                                             ELSE IF missing # shared THEN "embedding"
                                             ELSE "waiting"]
  BY <1>1 DEF Look
<1>3. texts \in Seq(DOMAIN KeyOf) /\ DOMAIN texts \subseteq Nat
  BY FlightAssumption
<1>4. \A i \in missing : Key(i) # NoKey => Key(i) \in Keys
  BY <1>3 DEF Keys
<1>5. missing \in SUBSET Nat
  BY <1>3
\* The earliest spelling of a key that nobody embeds makes this call its owner.
<1>6. ASSUME NEW i \in shared, ~UnderWay(Key(i)) PROVE Key(i) \in own
  <2> DEFINE same == {j \in missing : Key(j) = Key(i)}
  <2>1. same \in SUBSET Nat /\ i \in same
    BY <1>5
  <2>2. PICK first \in same : \A j \in same : first <= j
    <3> HIDE DEF same
    <3> QED
      BY <2>1, LeastNatural
  <2>3. ~Spelled(first)
    BY <2>2, <1>5
  <2>4. ~UnderWay(Key(first))
    BY <1>6, <2>2
  <2>5. Key(first) # NoKey /\ Key(first) = Key(i) /\ first \in missing
    BY <2>2
  <2>6. first \notin shared
    BY <2>3, <2>4
  <2> QED
    BY <2>5, <2>6
<1>7. own \subseteq Keys
  BY <1>4
<1>8. own # {} => missing # shared /\ missing # {}
  OBVIOUS
<1>9. \A i \in shared : Key(i) \in Keys
  BY <1>4
<1>10. shared \in SUBSET Nat
  BY <1>5
<1>11. \A k \in Keys : /\ future'[c][k] = IF k \in own THEN "pending" ELSE future[c][k]
                       /\ UnderWay(k) => /\ inflight[k] \in Embedders
                                         /\ future[inflight[k]][k] = "pending"
  BY <1>2 DEF FlightInv, FlightType, UnderWay
<1>12. \A d \in Embedders : d # c => future'[d] = future[d] /\ progress'[d] = progress[d]
                                     /\ waits'[d] = waits[d]
  BY <1>2 DEF FlightInv, FlightType
<1>13. waits'[c] = [i \in shared |-> <<Registrant(Key(i)), Key(i)>>]
  BY <1>2 DEF FlightInv, FlightType
<1> HIDE DEF own, shared, missing
<1>14. FlightType'
  <2>1. inflight' \in [Keys -> Embedders \cup {NoOwner}]
    BY <1>2 DEF FlightInv, FlightType
  <2>2. future' \in [Embedders -> [Keys -> States]]
    BY <1>2 DEF FlightInv, FlightType, States
  <2>3. progress' \in [Embedders -> {"idle", "embedding", "storing", "waiting"} \cup Ended]
    BY <1>2 DEF FlightInv, FlightType, Ended
  <2>4. DOMAIN waits' = Embedders
    BY <1>2 DEF FlightInv, FlightType
  <2> QED
    BY <2>1, <2>2, <2>3, <2>4 DEF FlightType
<1>15. \A d \in Embedders, k \in Keys : future[d][k] # "none" => future'[d][k] # "none"
  BY <1>11, <1>12
<1>16. WaitsForRegistered'
  <2> SUFFICES ASSUME NEW d \in Embedders
               PROVE  /\ DOMAIN waits'[d] \subseteq Nat
                      /\ \A i \in DOMAIN waits'[d] :
                           /\ waits'[d][i] \in Embedders \X Keys
                           /\ future'[waits'[d][i][1]][waits'[d][i][2]] # "none"
    BY DEF WaitsForRegistered, StateOf
  <2>1. CASE d # c
    BY <2>1, <1>12, <1>15 DEF FlightInv, WaitsForRegistered, StateOf
  <2>2. CASE d = c
    <3>1. DOMAIN waits'[c] = shared /\ \A i \in shared : waits'[c][i] = <<Registrant(Key(i)), Key(i)>>
      BY <1>13
    <3>2. ASSUME NEW i \in shared
          PROVE  /\ <<Registrant(Key(i)), Key(i)>> \in Embedders \X Keys
                 /\ future'[Registrant(Key(i))][Key(i)] # "none"
      <4> DEFINE k == Key(i)
      <4>1. k \in Keys
        BY <1>9
      <4>2. CASE UnderWay(k)
        BY <4>1, <4>2, <1>11, <1>15
      <4>3. CASE ~UnderWay(k)
        BY <4>1, <4>3, <1>6, <1>11
      <4> QED
        BY <4>2, <4>3
    <3> HIDE DEF Registrant, Key
    <3>3. ASSUME NEW i \in DOMAIN waits'[c]
          PROVE  /\ waits'[c][i] \in Embedders \X Keys
                 /\ future'[waits'[c][i][1]][waits'[c][i][2]] # "none"
      <4>1. i \in shared /\ waits'[c][i] = <<Registrant(Key(i)), Key(i)>>
        BY <3>1, <3>3
      <4>2. waits'[c][i][1] = Registrant(Key(i)) /\ waits'[c][i][2] = Key(i)
        BY <4>1
      <4> QED
        BY <3>2, <4>1, <4>2
    <3>4. DOMAIN waits'[c] \subseteq Nat
      BY <1>10, <3>1
    <3> QED
      BY <2>2, <3>3, <3>4
  <2> QED
    BY <2>1, <2>2
<1>17. OpenIsEmbedded'
  <2> SUFFICES ASSUME NEW d \in Embedders, NEW k \in Keys, future'[d][k] = "pending"
               PROVE  progress'[d] \in {"embedding", "cancelled"}
    BY DEF OpenIsEmbedded
  <2>1. CASE d # c
    BY <2>1, <1>12 DEF FlightInv, OpenIsEmbedded
  <2>2. CASE d = c
    <3>1. future[c][k] # "pending"
      BY <1>2 DEF FlightInv, OpenIsEmbedded
    <3>2. k \in own
      BY <3>1, <2>2, <1>11
    <3> QED
      BY <3>2, <2>2, <1>2, <1>8 DEF FlightInv, FlightType
  <2> QED
    BY <2>1, <2>2
<1> QED
  BY <1>14, <1>16, <1>17 DEF FlightInv

\* Settling a caller's futures settles those still open, and no others.
LEMMA ResolvedSettles ==
    ASSUME FlightInv, NEW c \in Embedders, NEW as \in {"vector", "error"},
           future' = Resolved(c, as)
    PROVE  /\ future' \in [Embedders -> [Keys -> States]]
           /\ \A k \in Keys : future'[c][k] # "pending"
           /\ \A d \in Embedders, k \in Keys :
                /\ future[d][k] # "none" => future'[d][k] # "none"
                /\ future'[d][k] = "pending" => future[d][k] = "pending"
  BY DEF FlightInv, FlightType, Resolved, States

\* Dropping one's own keys leaves the others under way.
LEMMA WithoutOwnIsTyped ==
    ASSUME FlightInv, NEW c \in Embedders
    PROVE  WithoutOwn(c) \in [Keys -> Embedders \cup {NoOwner}]
  BY DEF FlightInv, FlightType, WithoutOwn

\* With nothing of one's own to store one waits, or is done.
LEMMA AfterWaitingIsAStep ==
    ASSUME FlightInv, NEW c \in Embedders
    PROVE  AfterWaiting(c) \in {"waiting", "done", "failed", "cancelled"}
<1> DEFINE open == {i \in DOMAIN waits[c] : StateOf(waits[c][i]) # "vector"}
           first == CHOOSE i \in open : \A j \in open : i <= j
<1>1. CASE open = {}
  BY <1>1 DEF AfterWaiting
<1>2. CASE open # {}
  <2>1. open \in SUBSET Nat
    BY DEF FlightInv, WaitsForRegistered
  <2>2. first \in open
    <3> HIDE DEF open
    <3> QED
      BY <1>2, <2>1, LeastNatural
  <2>3. StateOf(waits[c][first]) \in States \ {"none", "vector"}
    <3>1. first \in DOMAIN waits[c] /\ StateOf(waits[c][first]) # "vector"
      BY <2>2
    <3> HIDE DEF first
    <3> QED
      BY <3>1 DEF FlightInv, FlightType, WaitsForRegistered, StateOf
  <2>4. AfterWaiting(c) =
          CASE StateOf(waits[c][first]) = "pending" -> "waiting"
            [] StateOf(waits[c][first]) = "error" -> "failed"
            [] StateOf(waits[c][first]) = "cancelled" -> "cancelled"
    BY <1>2 DEF AfterWaiting
  <2> HIDE DEF first
  <2> QED
    BY <2>3, <2>4 DEF States
<1> QED
  BY <1>1, <1>2

\* One step for each thing a caller may do.
LEMMA FlightInvNext == FlightInv /\ [FlightNext]_flightVars => FlightInv'
<1> SUFFICES ASSUME FlightInv, [FlightNext]_flightVars PROVE FlightInv'
  OBVIOUS
<1>1. CASE UNCHANGED flightVars
  BY <1>1 DEF flightVars, FlightInv, FlightType, WaitsForRegistered, OpenIsEmbedded, StateOf
<1>2. ASSUME NEW c \in Embedders, NEW texts \in TextLists, Look(c, texts) PROVE FlightInv'
  BY <1>2, LookKeeps
<1>3. ASSUME NEW c \in Embedders, EmbedAnswers(c) PROVE FlightInv'
  <2>1. Reaches(c, IF Registered(c) = {} THEN AfterWaiting(c) ELSE "storing")
    BY <1>3 DEF EmbedAnswers
  <2>2. (IF Registered(c) = {} THEN AfterWaiting(c) ELSE "storing")
            \in {"storing", "waiting"} \cup Ended
    BY AfterWaitingIsAStep DEF Ended
  <2>3. inflight' \in [Keys -> Embedders \cup {NoOwner}]
    BY <1>3 DEF EmbedAnswers, FlightInv, FlightType
  <2>4. future' = Resolved(c, "vector")
    BY <1>3 DEF EmbedAnswers
  <2> QED
    BY <2>1, <2>2, <2>3, <2>4, ResolvedSettles, FlightMoves
<1>4. ASSUME NEW c \in Embedders, EmbedFails(c) PROVE FlightInv'
  <2>1. future' = Resolved(c, "error") /\ inflight' = WithoutOwn(c) /\ Reaches(c, "failed")
    BY <1>4 DEF EmbedFails
  <2> QED
    BY <2>1, ResolvedSettles, WithoutOwnIsTyped, FlightMoves DEF Ended
<1>5. ASSUME NEW c \in Embedders, StoreVectors(c) PROVE FlightInv'
  <2>1. inflight' = WithoutOwn(c) /\ Reaches(c, AfterWaiting(c)) /\ UNCHANGED future
    BY <1>5 DEF StoreVectors
  <2>2. AfterWaiting(c) \in {"storing", "waiting"} \cup Ended
    BY AfterWaitingIsAStep DEF Ended
  <2>3. \A k \in Keys : future[c][k] # "pending"
    BY <1>5 DEF StoreVectors, FlightInv, OpenIsEmbedded
  <2> QED
    BY <2>1, <2>2, <2>3, WithoutOwnIsTyped, FlightMoves DEF FlightInv, FlightType
<1>6. ASSUME NEW c \in Embedders, Wake(c) PROVE FlightInv'
  <2>1. UNCHANGED inflight /\ Reaches(c, AfterWaiting(c)) /\ UNCHANGED future
    BY <1>6 DEF Wake
  <2>2. AfterWaiting(c) \in {"storing", "waiting"} \cup Ended
    BY AfterWaitingIsAStep DEF Ended
  <2>3. \A k \in Keys : future[c][k] # "pending"
    BY <1>6 DEF Wake, FlightInv, OpenIsEmbedded
  <2> QED
    BY <2>1, <2>2, <2>3, FlightMoves DEF FlightInv, FlightType
<1>7. ASSUME NEW c \in Embedders, TimedOut(c) PROVE FlightInv'
  <2>1. UNCHANGED inflight /\ Reaches(c, "cancelled")
    BY <1>7 DEF TimedOut
  <2>2. /\ future' \in [Embedders -> [Keys -> States]]
        /\ \A d \in Embedders, k \in Keys :
              /\ future[d][k] # "none" => future'[d][k] # "none"
              /\ future'[d][k] = "pending" => future[d][k] = "pending"
    <3>1. CASE progress[c] = "waiting" /\ AfterWaiting(c) = "waiting"
      <4>1. Awaited(c) \in Embedders \X Keys
        BY <3>1, AwaitedIsOpen
      <4>2. PICK d \in Embedders, k \in Keys : Awaited(c)[1] = d /\ Awaited(c)[2] = k
        BY <4>1
      <4>3. future' = [future EXCEPT ![d] = [@ EXCEPT ![k] = "cancelled"]]
        BY <1>7, <3>1, <4>2 DEF TimedOut
      <4> QED
        BY <4>3 DEF FlightInv, FlightType, States
    <3>2. CASE ~(progress[c] = "waiting" /\ AfterWaiting(c) = "waiting")
      BY <1>7, <3>2 DEF TimedOut, FlightInv, FlightType
    <3> QED
      BY <3>1, <3>2
  <2> QED
    BY <2>1, <2>2, FlightMoves DEF FlightInv, FlightType, Ended
<1> QED
  BY <1>1, <1>2, <1>3, <1>4, <1>5, <1>6, <1>7 DEF FlightNext

\* However many callers ask for however many keys, and whatever the provider, the
\* store and the timeouts do: a caller waits only for a future that was registered by
\* a caller who is still embedding its key or has been cancelled, never for its own,
\* and an embedding that failed has failed those who waited for it.
THEOREM WaitersServed == FlightSpec => []WaitersAreServed
<1>1. FlightSpec => []FlightInv
  BY FlightInvInit, FlightInvNext, PTL DEF FlightSpec
<1> QED
  BY <1>1, FlightInvImplies, PTL

-----------------------------------------------------------------------------
(* RagAnswer: the answer *)

\* What is presented as valid was validated against the context.
LEMMA ValidIsGrounded ==
    ASSUME NEW claims, NEW noEvidence, NEW out, out = Validate(claims, noEvidence)
    PROVE  /\ out.status = "valid" =>
                /\ \A ids \in out.claims : ids # {} /\ ids \subseteq Ids(context)
                /\ \A ids \in out.claims : \A c \in ids : DocOf[c] \in scope
                /\ \A a, b \in UNION out.claims : DocOf[a] = DocOf[b] => RevOf[a] = RevOf[b]
           /\ out.status = "no_evidence" => out.claims = {}
<1> DEFINE ValidIds(claim) == {c \in claim \cap Ids(context) : ChunkAuthorized(c)}
           accepted == {ValidIds(claim) : claim \in claims} \ {{}}
           rejected == \E claim \in claims : ValidIds(claim) # claim
           status ==
            IF ~RetrievedRevisionsConsistent THEN "revision_mismatch"
            ELSE IF noEvidence /\ claims = {} THEN "no_evidence"
            ELSE IF accepted = {} /\ ~noEvidence
                 THEN IF claims = {} THEN "missing_claims" ELSE "invalid"
            ELSE IF rejected THEN IF accepted = {} THEN "invalid" ELSE "partial"
            ELSE "valid"
<1>1. out = [status |-> status, claims |-> IF status = "revision_mismatch" THEN {} ELSE accepted]
  BY DEF Validate
<1>2. \A ids \in accepted : ids # {} /\ ids \subseteq Ids(context)
  OBVIOUS
<1>3. \A ids \in accepted : \A c \in ids : DocOf[c] \in scope
  BY DEF ChunkAuthorized
<1>4. RetrievedRevisionsConsistent =>
        \A a, b \in Ids(context) : DocOf[a] = DocOf[b] => RevOf[a] = RevOf[b]
  BY DEF RetrievedRevisionsConsistent, Ids
<1>5. status = "valid" => RetrievedRevisionsConsistent
  OBVIOUS
<1>6. status = "no_evidence" => claims = {}
  OBVIOUS
<1>7. claims = {} => accepted = {}
  OBVIOUS
<1> HIDE DEF status, accepted
<1>8. out.status = status /\ (status # "revision_mismatch" => out.claims = accepted)
  BY <1>1
<1> QED
  BY <1>2, <1>3, <1>4, <1>5, <1>6, <1>7, <1>8

\* Only AnswerQuestion writes an answer, and it writes what Validate made of the claims.
LEMMA GroundedNext == AnswerIsGrounded /\ [RANext]_answerVars => AnswerIsGrounded'
<1> SUFFICES ASSUME AnswerIsGrounded, [RANext]_answerVars PROVE AnswerIsGrounded'
  OBVIOUS
<1>1. CASE UNCHANGED answerVars
  BY <1>1 DEF answerVars, AnswerIsGrounded, Ids
<1>2. CASE FindLists \/ Fuse \/ Expand \/ Rerank \/ Cap
  BY <1>2 DEF FindLists, Fuse, Expand, Rerank, Cap, AnswerIsGrounded
<1>3. CASE Select
  <2>1. stage' = "answered" => answer' = [status |-> "no_context", claims |-> {}]
    BY <1>3 DEF Select
  <2> QED
    BY <2>1 DEF AnswerIsGrounded
<1>4. CASE AnswerQuestion
  <2>1. UNCHANGED <<scope, context>>
    BY <1>4 DEF AnswerQuestion
  <2>2. PICK out \in Outputs :
          IF Failed(out) /\ tries = 0 THEN UNCHANGED <<answer, stage>>
          ELSE /\ answer' = IF Failed(out) THEN [out EXCEPT !.claims = {}] ELSE out
               /\ stage' = "answered"
    BY <1>4 DEF AnswerQuestion
  <2>3. \/ \E claims, noEvidence : out = Validate(claims, noEvidence)
        \/ out = [status |-> "unstructured", claims |-> {}]
    BY DEF Outputs
  <2>4. out = [status |-> out.status, claims |-> out.claims]
    BY <2>3 DEF Validate
  <2>5. CASE Failed(out)
    <3>1. [out EXCEPT !.claims = {}].claims = {}
          /\ [out EXCEPT !.claims = {}].status = out.status
      BY <2>4
    <3>2. out.status # "valid"
      BY <2>5 DEF Failed
    <3>3. stage' = "answered" => answer'.claims = {} /\ answer'.status # "valid"
      BY <1>4, <2>2, <2>5, <3>1, <3>2 DEF AnswerQuestion
    <3> QED
      BY <3>3 DEF AnswerIsGrounded
  <2>6. CASE ~Failed(out)
    <3>1. answer' = out
      BY <2>2, <2>6
    <3>2. out.status \in {"valid", "no_evidence"}
      BY <2>6 DEF Failed
    <3>3. PICK claims, noEvidence : out = Validate(claims, noEvidence)
      <4>1. out # [status |-> "unstructured", claims |-> {}]
        BY <3>2
      <4> QED
        BY <2>3, <4>1
    <3>4. /\ out.status = "valid" =>
               /\ \A ids \in out.claims : ids # {} /\ ids \subseteq Ids(context)
               /\ \A ids \in out.claims : \A c \in ids : DocOf[c] \in scope
               /\ \A a, b \in UNION out.claims : DocOf[a] = DocOf[b] => RevOf[a] = RevOf[b]
          /\ out.status = "no_evidence" => out.claims = {}
      BY <3>3, ValidIsGrounded
    <3>5. Ids(context)' = Ids(context)
      BY <2>1 DEF Ids
    <3> QED
      BY <2>1, <3>1, <3>2, <3>4, <3>5 DEF AnswerIsGrounded
  <2> QED
    BY <2>5, <2>6
<1> QED
  BY <1>1, <1>2, <1>3, <1>4 DEF RANext

\* Whatever was retrieved and whatever the model writes, an answer presented as
\* validated cites, with every claim, chunks of its context, in the question's scope
\* and of one revision of each document; any other answer claims nothing.
THEOREM AnswersAreGrounded == RASpec => []AnswerIsGrounded
<1>1. RAInit => AnswerIsGrounded
  BY DEF RAInit, AnswerIsGrounded
<1> QED
  BY <1>1, GroundedNext, PTL DEF RASpec

-----------------------------------------------------------------------------
(* RagAnswer: the context *)

Parents == {ParentOf[c] : c \in Chunks} \cup {NoParent}

\* A candidate, and lists of them in which no chunk appears twice.
Candidates ==
    [id : Chunks, score : Int, rank : Nat, parent : Parents, holds : BOOLEAN,
     size : Nat \ {0}]

CandidateLists ==
    {list \in Seq(Candidates) : \A i, j \in DOMAIN list : list[i].id = list[j].id => i = j}

-----------------------------------------------------------------------------
(* Going through a list *)

\* The cost of a list is the cost of its chunks, one after the other.
LEMMA SpendGoes ==
    ASSUME NEW list \in Seq(Candidates)
    PROVE  \E run \in [0..Len(list) -> Nat] :
              /\ run[0] = 0
              /\ \A k \in 1..Len(list) : run[k] = run[k - 1] + Cost(list[k])
              /\ Used(list) = run[Len(list)]
<1> DEFINE n == Len(list)
           step == [p \in (1..n) \X Nat |-> Spend(p[2], list[p[1]])]
           Spends(it) == it = [s \in SUBSET DOMAIN list |->
                                 IF s = {} THEN 0
                                 ELSE LET x == Max(s) IN Spend(it[s \ {x}], list[x])]
           spending == CHOOSE it : Spends(it)
<1>1. n \in Nat /\ DOMAIN list = 1..n /\ \A i \in 1..n : list[i] \in Candidates
  OBVIOUS
<1>2. \A x \in Candidates : Cost(x) \in Nat
  BY RagAnswerAssumption DEF Cost, Candidates
<1>3. step \in [(1..n) \X Nat -> Nat]
  BY <1>1, <1>2 DEF Spend
<1> HIDE DEF step, n
<1>4. \E it : Spends(it)
  <2>1. PICK it \in [SUBSET (1..n) -> Nat] : FoldsOver(it, n, 0, step)
    BY <1>1, <1>3, FoldExists
  <2>2. ASSUME NEW s \in SUBSET (1..n), s # {}
        PROVE  step[<<Max(s), it[s \ {Max(s)}]>>] = Spend(it[s \ {Max(s)}], list[Max(s)])
    <3>1. Max(s) \in 1..n
      BY <1>1, <2>2, LargestExists
    <3>2. it[s \ {Max(s)}] \in Nat
      OBVIOUS
    <3> QED
      BY <3>1, <3>2 DEF step
  <2>3. Spends(it)
    BY <1>1, <2>1, <2>2 DEF FoldsOver
  <2> QED
    BY <2>3
<1>5. Spends(spending)
  <2> HIDE DEF Spends
  <2> QED
    BY <1>4
<1>6. Used(list) = spending[1..n]
  BY <1>1 DEF Used, FoldLeft, MapThenFoldSet
<1> HIDE DEF spending
<1>7. spending[{}] = 0
  <2>1. {} \in SUBSET DOMAIN list
    OBVIOUS
  <2> QED
    BY <1>5, <2>1
<1>8. ASSUME NEW s \in SUBSET (1..n), s # {}, spending[s \ {Max(s)}] \in Nat
      PROVE  spending[s] = step[<<Max(s), spending[s \ {Max(s)}]>>]
  <2>1. Max(s) \in 1..n
    BY <1>1, <1>8, LargestExists
  <2>2. step[<<Max(s), spending[s \ {Max(s)}]>>] = Spend(spending[s \ {Max(s)}], list[Max(s)])
    BY <1>8, <2>1 DEF step
  <2>3. s \in SUBSET DOMAIN list
    BY <1>1
  <2>4. spending[s] = Spend(spending[s \ {Max(s)}], list[Max(s)])
    BY <1>5, <1>8, <2>3
  <2> QED
    BY <2>2, <2>4
<1>9. PICK run \in [0..n -> Nat] :
         /\ run[0] = 0
         /\ \A k \in 1..n : run[k] = step[<<k, run[k - 1]>>]
         /\ spending[1..n] = run[n]
  <2> DEFINE A == Nat
             base == 0
  <2>1. base \in A /\ step \in [(1..n) \X A -> A] /\ n \in Nat
    BY <1>1, <1>3
  <2>2. FoldsWithin(spending, n, A, base, step)
    BY <1>7, <1>8 DEF FoldsWithin
  <2> HIDE DEF A, base
  <2>3. GoesThrough(spending, n, A, base, step)
    BY <2>1, <2>2, FoldRuns
  <2> QED
    BY <2>3 DEF A, base, GoesThrough
<1>10. ASSUME NEW k \in 1..n PROVE run[k] = run[k - 1] + Cost(list[k])
  <2>1. k - 1 \in 0..n /\ run[k - 1] \in Nat
    BY <1>1
  <2> QED
    BY <1>9, <2>1 DEF step, Spend
<1> QED
  BY <1>6, <1>9, <1>10 DEF n

\* It is a natural number,
LEMMA UsedIsACount ==
    ASSUME NEW list \in Seq(Candidates)
    PROVE  Used(list) \in Nat
<1>1. PICK run \in [0..Len(list) -> Nat] : Used(list) = run[Len(list)]
  BY SpendGoes
<1> QED
  BY <1>1

\* nothing for an empty list.
LEMMA UsedOfNone == Used(<< >>) = 0
<1> DEFINE none == << >>
<1>1. none \in Seq(Candidates) /\ Len(none) = 0
  OBVIOUS
<1> HIDE DEF none
<1>2. Used(none) = 0
  BY <1>1, SpendGoes
<1> QED
  BY <1>2 DEF none

\* One more chunk costs what it costs.
LEMMA UsedOfOneMore ==
    ASSUME NEW list \in Seq(Candidates), NEW x \in Candidates
    PROVE  Used(Append(list, x)) = Used(list) + Cost(x)
<1> DEFINE n == Len(list)
           more == Append(list, x)
<1>1. /\ n \in Nat /\ more \in Seq(Candidates) /\ Len(more) = n + 1
      /\ \A k \in 1..n : more[k] = list[k]
      /\ more[n + 1] = x
  OBVIOUS
<1>2. PICK run \in [0..n -> Nat] :
         /\ run[0] = 0
         /\ \A k \in 1..n : run[k] = run[k - 1] + Cost(list[k])
         /\ Used(list) = run[n]
  BY SpendGoes
<1> HIDE DEF more, n
<1>3. PICK ran \in [0..(n + 1) -> Nat] :
         /\ ran[0] = 0
         /\ \A k \in 1..(n + 1) : ran[k] = ran[k - 1] + Cost(more[k])
         /\ Used(more) = ran[n + 1]
  <2>1. \E ran \in [0..Len(more) -> Nat] :
         /\ ran[0] = 0
         /\ \A k \in 1..Len(more) : ran[k] = ran[k - 1] + Cost(more[k])
         /\ Used(more) = ran[Len(more)]
    BY <1>1, SpendGoes
  <2> QED
    BY <1>1, <2>1
<1> DEFINE S == {k \in Nat : k <= n => ran[k] = run[k]}
<1>4. 0 \in S
  BY <1>2, <1>3
<1>5. ASSUME NEW k \in Nat, k \in S PROVE k + 1 \in S
  <2> SUFFICES ASSUME k + 1 <= n PROVE ran[k + 1] = run[k + 1]
    OBVIOUS
  <2>1. k + 1 \in 1..n /\ k + 1 \in 1..(n + 1) /\ (k + 1) - 1 = k /\ ran[k] = run[k]
    BY <1>1, <1>5
  <2>2. run[k + 1] = run[k] + Cost(list[k + 1])
    BY <1>2, <2>1
  <2>3. ran[k + 1] = ran[k] + Cost(more[k + 1])
    BY <1>3, <2>1
  <2> QED
    BY <1>1, <2>1, <2>2, <2>3
<1>6. n \in S
  <2> HIDE DEF S
  <2> QED
    BY <1>1, <1>4, <1>5, Inductive
<1>7. ran[n] = run[n]
  BY <1>1, <1>6
<1>8. n + 1 \in 1..(n + 1) /\ (n + 1) - 1 = n
  BY <1>1
<1>9. ran[n + 1] = ran[n] + Cost(x)
  BY <1>1, <1>3, <1>8
<1> QED
  BY <1>2, <1>3, <1>7, <1>9 DEF more

\* Keeping and packing make lists of candidates.
LEMMA KeepStays ==
    ASSUME NEW kept \in Seq(Candidates), NEW x \in Candidates
    PROVE  Keep(kept, x) \in Seq(Candidates)
BY DEF Keep

\* A cut chunk costs its heading and what is left of it.
LEMMA CutFits ==
    ASSUME NEW x \in Candidates, NEW room \in Nat, room >= 1
    PROVE  /\ CutTo(x, room) \in Candidates
           /\ CutTo(x, room).id = x.id
           /\ Cost(CutTo(x, room)) <= 1 + room
<1> DEFINE size == IF room < x.size THEN room ELSE x.size
           cut == CutTo(x, room)
<1>1. size \in Nat \ {0} /\ size <= room
  BY DEF Candidates
<1>2. cut.id = x.id /\ cut.size = size /\ cut.holds = FALSE
  BY DEF CutTo, Candidates
<1>3. cut = [[x EXCEPT !.size = size] EXCEPT !.holds = FALSE]
  BY DEF CutTo
<1> HIDE DEF size
<1>4. cut \in Candidates
  BY <1>1, <1>3 DEF Candidates
<1>5. Cost(cut) = 1 + size
  BY <1>1, <1>2 DEF Cost
<1> QED
  BY <1>1, <1>2, <1>4, <1>5

\* What is added is the chunk, or what is left of it.
LEMMA AddStays ==
    ASSUME NEW packed \in Seq(Candidates), NEW x \in Candidates
    PROVE  Add(packed, x) \in Seq(Candidates)
<1> DEFINE room == Budget - Used(packed) - 1
<1>1. Budget \in Nat /\ Used(packed) \in Nat
  BY UsedIsACount, RagAnswerAssumption
<1>2. room >= 1 => CutTo(x, room) \in Candidates
  <2> SUFFICES ASSUME room >= 1 PROVE CutTo(x, room) \in Candidates
    OBVIOUS
  <2>1. room \in Nat
    BY <1>1
  <2> HIDE DEF room
  <2> QED
    BY <2>1, CutFits
<1>3. \/ Add(packed, x) = packed
      \/ Add(packed, x) = Append(packed, x)
      \/ room >= 1 /\ Add(packed, x) = Append(packed, CutTo(x, room))
  BY DEF Add
<1> HIDE DEF room
<1> QED
  BY <1>2, <1>3

\* Keeping goes through the sorted candidates from the first to the last.
LEMMA KeepGoes ==
    ASSUME NEW list, NEW sorted \in Seq(Candidates),
           sorted = Listed(Range(list), Priority)
    PROVE  \E run \in [0..Len(sorted) -> Seq(Candidates)] :
              /\ run[0] = << >>
              /\ \A k \in 1..Len(sorted) : run[k] = Keep(run[k - 1], sorted[k])
              /\ SelectContextChunks(list) = run[Len(sorted)]
<1> DEFINE n == Len(sorted)
           A == Seq(Candidates)
           base == << >>
           step == [p \in (1..n) \X A |-> Keep(p[2], sorted[p[1]])]
           Goes(it) == it = [s \in SUBSET DOMAIN sorted |->
                               IF s = {} THEN base
                               ELSE LET x == Max(s) IN Keep(it[s \ {x}], sorted[x])]
           going == CHOOSE it : Goes(it)
<1>1. /\ n \in Nat /\ DOMAIN sorted = 1..n /\ \A i \in 1..n : sorted[i] \in Candidates
      /\ base \in A
  OBVIOUS
<1>2. step \in [(1..n) \X A -> A]
  BY <1>1, KeepStays
<1>3. SelectContextChunks(list) = going[1..n]
  BY <1>1 DEF SelectContextChunks, FoldLeft, MapThenFoldSet
<1> HIDE DEF step, n, A, base
<1>4. \E it : Goes(it)
  <2>1. PICK it \in [SUBSET (1..n) -> A] : FoldsOver(it, n, base, step)
    BY <1>1, <1>2, FoldExists
  <2>2. ASSUME NEW s \in SUBSET (1..n), s # {}
        PROVE  step[<<Max(s), it[s \ {Max(s)}]>>] = Keep(it[s \ {Max(s)}], sorted[Max(s)])
    <3>1. Max(s) \in 1..n
      BY <1>1, <2>2, LargestExists
    <3>2. it[s \ {Max(s)}] \in A
      OBVIOUS
    <3> QED
      BY <3>1, <3>2 DEF step
  <2>3. Goes(it)
    BY <1>1, <2>1, <2>2 DEF FoldsOver
  <2> QED
    BY <2>3
<1>5. Goes(going)
  <2> HIDE DEF Goes
  <2> QED
    BY <1>4
<1> HIDE DEF going
<1>6. going[{}] = base
  <2>1. {} \in SUBSET DOMAIN sorted
    OBVIOUS
  <2> QED
    BY <1>5, <2>1
<1>7. ASSUME NEW s \in SUBSET (1..n), s # {}, going[s \ {Max(s)}] \in A
      PROVE  going[s] = step[<<Max(s), going[s \ {Max(s)}]>>]
  <2>1. Max(s) \in 1..n
    BY <1>1, <1>7, LargestExists
  <2>2. step[<<Max(s), going[s \ {Max(s)}]>>] = Keep(going[s \ {Max(s)}], sorted[Max(s)])
    BY <1>7, <2>1 DEF step
  <2>3. s \in SUBSET DOMAIN sorted
    BY <1>1
  <2>4. going[s] = Keep(going[s \ {Max(s)}], sorted[Max(s)])
    BY <1>5, <1>7, <2>3
  <2> QED
    BY <2>2, <2>4
<1>8. FoldsWithin(going, n, A, base, step)
  BY <1>6, <1>7 DEF FoldsWithin
<1>9. GoesThrough(going, n, A, base, step)
  BY <1>1, <1>2, <1>8, FoldRuns
<1>10. PICK run \in [0..n -> A] :
          /\ run[0] = base
          /\ \A k \in 1..n : run[k] = step[<<k, run[k - 1]>>]
          /\ going[1..n] = run[n]
  BY <1>9 DEF GoesThrough
<1>11. ASSUME NEW k \in 1..n PROVE run[k] = Keep(run[k - 1], sorted[k])
  <2>1. k - 1 \in 0..n /\ run[k - 1] \in A
    BY <1>1
  <2> QED
    BY <1>10, <2>1 DEF step
<1> QED
  BY <1>3, <1>10, <1>11 DEF n, A, base

\* Packing goes through the list it is given from the first to the last.
LEMMA AddGoes ==
    ASSUME NEW list \in Seq(Candidates)
    PROVE  \E run \in [0..Len(list) -> Seq(Candidates)] :
              /\ run[0] = << >>
              /\ \A k \in 1..Len(list) : run[k] = Add(run[k - 1], list[k])
              /\ Pack(list) = run[Len(list)]
<1> DEFINE n == Len(list)
           A == Seq(Candidates)
           base == << >>
           step == [p \in (1..n) \X A |-> Add(p[2], list[p[1]])]
           Goes(it) == it = [s \in SUBSET DOMAIN list |->
                               IF s = {} THEN base
                               ELSE LET x == Max(s) IN Add(it[s \ {x}], list[x])]
           going == CHOOSE it : Goes(it)
<1>1. /\ n \in Nat /\ DOMAIN list = 1..n /\ \A i \in 1..n : list[i] \in Candidates
      /\ base \in A
  OBVIOUS
<1>2. step \in [(1..n) \X A -> A]
  BY <1>1, AddStays
<1>3. Pack(list) = going[1..n]
  BY <1>1 DEF Pack, FoldLeft, MapThenFoldSet
<1> HIDE DEF step, n, A, base
<1>4. \E it : Goes(it)
  <2>1. PICK it \in [SUBSET (1..n) -> A] : FoldsOver(it, n, base, step)
    BY <1>1, <1>2, FoldExists
  <2>2. ASSUME NEW s \in SUBSET (1..n), s # {}
        PROVE  step[<<Max(s), it[s \ {Max(s)}]>>] = Add(it[s \ {Max(s)}], list[Max(s)])
    <3>1. Max(s) \in 1..n
      BY <1>1, <2>2, LargestExists
    <3>2. it[s \ {Max(s)}] \in A
      OBVIOUS
    <3> QED
      BY <3>1, <3>2 DEF step
  <2>3. Goes(it)
    BY <1>1, <2>1, <2>2 DEF FoldsOver
  <2> QED
    BY <2>3
<1>5. Goes(going)
  <2> HIDE DEF Goes
  <2> QED
    BY <1>4
<1> HIDE DEF going
<1>6. going[{}] = base
  <2>1. {} \in SUBSET DOMAIN list
    OBVIOUS
  <2> QED
    BY <1>5, <2>1
<1>7. ASSUME NEW s \in SUBSET (1..n), s # {}, going[s \ {Max(s)}] \in A
      PROVE  going[s] = step[<<Max(s), going[s \ {Max(s)}]>>]
  <2>1. Max(s) \in 1..n
    BY <1>1, <1>7, LargestExists
  <2>2. step[<<Max(s), going[s \ {Max(s)}]>>] = Add(going[s \ {Max(s)}], list[Max(s)])
    BY <1>7, <2>1 DEF step
  <2>3. s \in SUBSET DOMAIN list
    BY <1>1
  <2>4. going[s] = Add(going[s \ {Max(s)}], list[Max(s)])
    BY <1>5, <1>7, <2>3
  <2> QED
    BY <2>2, <2>4
<1>8. FoldsWithin(going, n, A, base, step)
  BY <1>6, <1>7 DEF FoldsWithin
<1>9. GoesThrough(going, n, A, base, step)
  BY <1>1, <1>2, <1>8, FoldRuns
<1>10. PICK run \in [0..n -> A] :
          /\ run[0] = base
          /\ \A k \in 1..n : run[k] = step[<<k, run[k - 1]>>]
          /\ going[1..n] = run[n]
  BY <1>9 DEF GoesThrough
<1>11. ASSUME NEW k \in 1..n PROVE run[k] = Add(run[k - 1], list[k])
  <2>1. k - 1 \in 0..n /\ run[k - 1] \in A
    BY <1>1
  <2> QED
    BY <1>10, <2>1 DEF step
<1> QED
  BY <1>3, <1>10, <1>11 DEF n, A, base

\* A list names finitely many elements.
LEMMA ListIsFinite ==
    ASSUME NEW S, NEW list \in Seq(S)
    PROVE  IsFiniteSet(Range(list)) /\ Range(list) \in SUBSET S
<1> DEFINE n == Len(list)
           T == Range(list)
<1>1. n \in Nat /\ DOMAIN list = 1..n /\ list \in [1..n -> S]
  OBVIOUS
<1>2. IsFiniteSet(1..n)
  BY <1>1, FS_Interval
<1>3. T = {list[i] : i \in 1..n}
  BY <1>1 DEF Range
<1> HIDE DEF T, n
<1>4. list \in Surjection(1..n, T)
  <2>1. list \in [1..n -> T]
    BY <1>1, <1>3
  <2>2. \A x \in T : \E i \in 1..n : list[i] = x
    BY <1>3
  <2> QED
    BY <2>1, <2>2 DEF Surjection
<1>5. IsFiniteSet(T)
  BY <1>2, <1>4, FS_Surjection
<1> QED
  BY <1>1, <1>3, <1>5 DEF T

\* The priority of candidates is an order, total but for the same chunk.
LEMMA PriorityOrders ==
    ASSUME NEW x \in Candidates, NEW y \in Candidates, NEW z \in Candidates
    PROVE  /\ ~Priority(x, x)
           /\ Priority(x, y) /\ Priority(y, z) => Priority(x, z)
           /\ x.id # y.id => Priority(x, y) \/ Priority(y, x)
<1>1. \A u \in Candidates : u.id \in Nat /\ u.score \in Int /\ u.rank \in Nat
  BY RagAnswerAssumption DEF Candidates
<1>2. /\ x.id \in Int /\ x.score \in Int /\ x.rank \in Int
      /\ y.id \in Int /\ y.score \in Int /\ y.rank \in Int
      /\ z.id \in Int /\ z.score \in Int /\ z.rank \in Int
  BY <1>1
<1>3. ~Priority(x, x)
  BY <1>2 DEF Priority
<1>4. Priority(x, y) /\ Priority(y, z) => Priority(x, z)
  BY <1>2 DEF Priority
<1>5. x.id # y.id => Priority(x, y) \/ Priority(y, x)
  BY <1>2 DEF Priority
<1> QED
  BY <1>3, <1>4, <1>5

\* By priority the candidates stand in one order, each once.
LEMMA PriorityLists ==
    ASSUME NEW list \in CandidateLists, NEW sorted, sorted = Listed(Range(list), Priority)
    PROVE  /\ sorted \in Seq(Candidates)
           /\ Range(sorted) = Range(list)
           /\ \A i, j \in 1..Len(sorted) : i < j => Priority(sorted[i], sorted[j])
<1> DEFINE S == Range(list)
           R == {p \in Candidates \X Candidates : Priority(p[1], p[2])}
           N == Cardinality(S)
<1>1. IsFiniteSet(S) /\ S \in SUBSET Candidates /\ N \in Nat
  BY ListIsFinite, FS_CardinalityType DEF CandidateLists
<1>2. \A x, y \in S : x.id = y.id => x = y
  BY DEF Range, CandidateLists
<1> HIDE DEF S
<1>3. StrictOrder(R, S)
  <2>1. \A x, y \in S : <<x, y>> \in R <=> Priority(x, y)
    BY <1>1
  <2>2. ASSUME NEW x \in S, NEW y \in S, NEW z \in S
        PROVE  /\ ~Priority(x, x)
               /\ Priority(x, y) /\ Priority(y, z) => Priority(x, z)
               /\ x # y => Priority(x, y) \/ Priority(y, x)
    <3>1. x \in Candidates /\ y \in Candidates /\ z \in Candidates
      BY <1>1
    <3>2. x # y => x.id # y.id
      BY <1>2
    <3> HIDE DEF R, N
    <3> QED
      BY <3>1, <3>2, PriorityOrders
  <2> HIDE DEF R
  <2> QED
    BY <2>1, <2>2 DEF StrictOrder
<1>4. \A x \in S : RankOf(R, S)[x] = Cardinality({y \in S : Priority(y, x)})
  <2> SUFFICES ASSUME NEW x \in S
               PROVE  RankOf(R, S)[x] = Cardinality({y \in S : Priority(y, x)})
    OBVIOUS
  <2>1. {y \in S : <<y, x>> \in R} = {y \in S : Priority(y, x)}
    BY <1>1
  <2> QED
    BY <2>1 DEF RankOf
<1>5. sorted = [k \in 1..N |-> CHOOSE x \in S : Cardinality({y \in S : Priority(y, x)}) = k - 1]
  BY DEF Listed, S
<1>6. sorted = [k \in 1..N |-> CHOOSE x \in S : RankOf(R, S)[x] = k - 1]
  <2> HIDE DEF R, N
  <2> QED
    BY <1>4, <1>5
<1>7. /\ sorted \in Bijection(1..N, S)
      /\ \A i, j \in 1..N : i < j => <<sorted[i], sorted[j]>> \in R
  BY <1>1, <1>3, <1>6, ListedByRank
<1> HIDE DEF N
<1>8. sorted \in [1..N -> S] /\ \A x \in S : \E i \in 1..N : sorted[i] = x
  BY <1>7 DEF Bijection, Injection, Surjection
<1>9. sorted \in Seq(Candidates) /\ Len(sorted) = N /\ DOMAIN sorted = 1..N
  BY <1>1, <1>8
<1>10. Range(sorted) = S
  BY <1>8, <1>9 DEF Range
<1> QED
  BY <1>7, <1>9, <1>10 DEF S

-----------------------------------------------------------------------------
(* What is kept *)

\* Whether two candidates repeat each other is a matter of their chunks, either way.
LEMMA DuplicatesById ==
    ASSUME NEW x, NEW y, NEW u, NEW v, x.id = u.id, y.id = v.id
    PROVE  Duplicates(x, y) <=> Duplicates(v, u)
BY DEF Duplicates

\* Keeping lets nothing be repeated, and leaves out only what repeats a better one.
LEMMA KeptIsSound ==
    ASSUME NEW list \in CandidateLists
    PROVE  LET kept == SelectContextChunks(list)
           IN  /\ kept \in Seq(Candidates)
               /\ Range(kept) \in SUBSET Range(list)
               /\ \A x, y \in Range(kept) : x # y => ~Duplicates(x, y)
               /\ \A x \in Range(list) :
                     \/ x \in Range(kept)
                     \/ \E y \in Range(list) : Priority(y, x) /\ Duplicates(x, y)
<1> DEFINE sorted == Listed(Range(list), Priority)
           n == Len(sorted)
<1>1. /\ sorted \in Seq(Candidates)
      /\ Range(sorted) = Range(list)
      /\ \A i, j \in 1..Len(sorted) : i < j => Priority(sorted[i], sorted[j])
  BY PriorityLists
<1>2. PICK run \in [0..Len(sorted) -> Seq(Candidates)] :
         /\ run[0] = << >>
         /\ \A k \in 1..Len(sorted) : run[k] = Keep(run[k - 1], sorted[k])
         /\ SelectContextChunks(list) = run[Len(sorted)]
  <2> HIDE DEF sorted
  <2>1. sorted = Listed(Range(list), Priority)
    BY DEF sorted
  <2> QED
    BY <1>1, <2>1, KeepGoes
<1> HIDE DEF sorted
<1>3. n \in Nat /\ DOMAIN sorted = 1..n /\ \A i \in 1..n : sorted[i] \in Candidates
  BY <1>1
<1> DEFINE Sound(k) ==
              /\ Range(run[k]) \in SUBSET {sorted[i] : i \in 1..k}
              /\ \A x, y \in Range(run[k]) : x # y => ~Duplicates(x, y)
              /\ \A i \in 1..k : \/ sorted[i] \in Range(run[k])
                                 \/ \E j \in 1..(i - 1) : Duplicates(sorted[i], sorted[j])
           S == {k \in Nat : k <= n => Sound(k)}
<1>4. Sound(0)
  <2>1. Range(run[0]) = {}
    BY <1>2 DEF Range
  <2>2. 1..0 = {}
    OBVIOUS
  <2> QED
    BY <2>1, <2>2
<1>5. ASSUME NEW k \in Nat, k + 1 <= n, Sound(k) PROVE Sound(k + 1)
  <2> DEFINE x == sorted[k + 1]
             before == run[k]
             after == run[k + 1]
  <2>1. k + 1 \in 1..n /\ (k + 1) - 1 = k /\ k \in 0..n
    BY <1>3, <1>5
  <2>2. after = Keep(before, x)
    BY <1>2, <2>1
  <2>3. before \in Seq(Candidates) /\ x \in Candidates
    BY <1>2, <1>3, <2>1
  <2>4. 1..(k + 1) = 1..k \cup {k + 1}
    BY <1>5
  <2>5. Range(Append(before, x)) = Range(before) \cup {x}
    <3> HIDE DEF before, x
    <3>1. /\ DOMAIN before = 1..Len(before) /\ Len(before) \in Nat
          /\ DOMAIN Append(before, x) = 1..(Len(before) + 1)
          /\ \A i \in 1..Len(before) : Append(before, x)[i] = before[i]
          /\ Append(before, x)[Len(before) + 1] = x
      BY <2>3
    <3>2. 1..(Len(before) + 1) = 1..Len(before) \cup {Len(before) + 1}
      BY <3>1
    <3> QED
      BY <3>1, <3>2 DEF Range
  <2>6. CASE \E y \in Range(before) : Duplicates(x, y)
    <3>1. after = before
      BY <2>2, <2>6 DEF Keep, Range
    <3>2. PICK y \in Range(before) : Duplicates(x, y)
      BY <2>6
    <3>3. PICK j \in 1..k : y = sorted[j]
      BY <1>5, <3>2
    <3>4. j \in 1..((k + 1) - 1) /\ Duplicates(sorted[k + 1], sorted[j])
      BY <2>1, <3>2, <3>3
    <3> HIDE DEF x, before, after
    <3>5. Range(after) \in SUBSET {sorted[i] : i \in 1..(k + 1)}
      BY <1>5, <2>4, <3>1 DEF before
    <3>6. \A u, v \in Range(after) : u # v => ~Duplicates(u, v)
      BY <1>5, <3>1 DEF before
    <3>7. \A i \in 1..(k + 1) : \/ sorted[i] \in Range(after)
                                \/ \E m \in 1..(i - 1) : Duplicates(sorted[i], sorted[m])
      BY <1>5, <2>4, <3>1, <3>4 DEF before
    <3> QED
      BY <3>5, <3>6, <3>7 DEF after
  <2>7. CASE ~ \E y \in Range(before) : Duplicates(x, y)
    <3>1. after = Append(before, x)
      BY <2>2, <2>7 DEF Keep, Range
    <3>2. \A y \in Range(before) : ~Duplicates(x, y) /\ ~Duplicates(y, x)
      BY <2>7, DuplicatesById
    <3> HIDE DEF before, after
    <3>3. Range(after) = Range(before) \cup {x}
      BY <2>5, <3>1
    <3>4. Range(after) \in SUBSET {sorted[i] : i \in 1..(k + 1)}
      BY <1>5, <2>4, <3>3 DEF before
    <3>5. \A i \in 1..(k + 1) : \/ sorted[i] \in Range(after)
                                \/ \E m \in 1..(i - 1) : Duplicates(sorted[i], sorted[m])
      BY <1>5, <2>4, <3>3 DEF before
    <3>6. \A u, v \in Range(after) : u # v => ~Duplicates(u, v)
      <4> HIDE DEF x
      <4> QED
        BY <1>5, <3>2, <3>3 DEF before
    <3> QED
      BY <3>4, <3>5, <3>6 DEF after
  <2> QED
    BY <2>6, <2>7
<1>6. Sound(n)
  <2> HIDE DEF Sound
  <2>1. 0 \in S /\ \A k \in Nat : k \in S => k + 1 \in S
    BY <1>3, <1>4, <1>5
  <2>2. n \in S
    <3> HIDE DEF S
    <3> QED
      BY <1>3, <2>1, Inductive
  <2> QED
    BY <1>3, <2>2
<1> DEFINE kept == SelectContextChunks(list)
<1>7. kept = run[n] /\ kept \in Seq(Candidates)
  BY <1>2, <1>3
<1> HIDE DEF kept
<1>8. Range(sorted) = {sorted[i] : i \in 1..n}
  BY <1>3 DEF Range
<1>9. ASSUME NEW x \in Range(list), x \notin Range(kept)
      PROVE  \E y \in Range(list) : Priority(y, x) /\ Duplicates(x, y)
  <2>1. PICK i \in 1..n : x = sorted[i]
    BY <1>1, <1>8
  <2>2. PICK j \in 1..(i - 1) : Duplicates(sorted[i], sorted[j])
    BY <1>6, <1>7, <1>9, <2>1
  <2>3. j \in 1..n /\ j < i
    BY <1>3
  <2>4. Priority(sorted[j], sorted[i]) /\ sorted[j] \in Range(list)
    BY <1>1, <1>8, <2>3
  <2> QED
    BY <2>1, <2>2, <2>4
<1>10. Range(kept) \in SUBSET Range(list)
  BY <1>1, <1>6, <1>7, <1>8
<1>11. \A x, y \in Range(kept) : x # y => ~Duplicates(x, y)
  BY <1>6, <1>7
<1> QED
  BY <1>7, <1>9, <1>10, <1>11 DEF kept

-----------------------------------------------------------------------------
(* What is packed *)

\* A list packed up to some place is within the budget, names each chunk once, and
\* misses a chunk only if the budget is used up.
PackedFrom(packed, list, k) ==
    /\ packed \in Seq(Candidates)
    /\ Used(packed) <= Budget
    /\ \A i, j \in DOMAIN packed : packed[i].id = packed[j].id => i = j
    /\ \A i \in DOMAIN packed : \E m \in 1..k : packed[i].id = list[m].id
    /\ \A m \in 1..k : list[m].id \in Ids(packed) \/ Used(packed) >= Budget - 1

\* An empty context is packed from nothing.
LEMMA PackedStarts ==
    ASSUME NEW list
    PROVE  PackedFrom(<< >>, list, 0)
<1>1. Used(<< >>) = 0 /\ Budget \in Nat
  BY UsedOfNone, RagAnswerAssumption
<1> QED
  BY <1>1 DEF PackedFrom

\* One more candidate fits, is cut to what is left, or finds the budget used up.
LEMMA PackedGrows ==
    ASSUME NEW list \in CandidateLists, NEW k \in Nat, k + 1 <= Len(list), NEW packed,
           PackedFrom(packed, list, k)
    PROVE  PackedFrom(Add(packed, list[k + 1]), list, k + 1)
<1> DEFINE x == list[k + 1]
           room == Budget - Used(packed) - 1
           cut == CutTo(x, room)
           n == Len(packed)
           used == Used(packed)
<1>1. /\ x \in Candidates
      /\ list \in Seq(Candidates) /\ DOMAIN list = 1..Len(list) /\ Len(list) \in Nat
  <2>1. list \in Seq(Candidates)
    BY DEF CandidateLists
  <2>2. DOMAIN list = 1..Len(list) /\ Len(list) \in Nat
    BY <2>1
  <2>3. k + 1 \in 1..Len(list)
    BY <2>2
  <2> QED
    BY <2>1, <2>2, <2>3
<1>2. packed \in Seq(Candidates) /\ n \in Nat /\ DOMAIN packed = 1..n
  BY DEF PackedFrom
<1>3. Budget \in Nat /\ used \in Nat /\ used <= Budget
  BY <1>2, UsedIsACount, RagAnswerAssumption DEF PackedFrom
<1>4. \A m \in 1..k : list[m].id # x.id
  <2> SUFFICES ASSUME NEW m \in 1..k PROVE list[m].id # x.id
    OBVIOUS
  <2>1. m \in DOMAIN list /\ k + 1 \in DOMAIN list /\ m # k + 1
    BY <1>1
  <2> QED
    BY <2>1 DEF CandidateLists
<1>5. 1..(k + 1) = 1..k \cup {k + 1}
  OBVIOUS
<1>6. ASSUME NEW y \in Candidates, y.id = x.id, used + Cost(y) <= Budget
      PROVE  PackedFrom(Append(packed, y), list, k + 1)
  <2> DEFINE more == Append(packed, y)
  <2>1. /\ more \in Seq(Candidates) /\ DOMAIN more = 1..n \cup {n + 1}
        /\ \A i \in 1..n : more[i] = packed[i]
        /\ more[n + 1] = y
    <3>1. /\ more \in Seq(Candidates) /\ DOMAIN more = 1..(n + 1)
          /\ \A i \in 1..n : more[i] = packed[i]
          /\ more[n + 1] = y
      BY <1>2, <1>6
    <3>2. 1..(n + 1) = 1..n \cup {n + 1}
      BY <1>2
    <3> QED
      BY <3>1, <3>2
  <2>2. Used(more) = used + Cost(y) /\ Cost(y) \in Nat
    <3>1. Cost(y) \in Nat
      BY <1>6, RagAnswerAssumption DEF Cost, Candidates
    <3> QED
      BY <1>2, <1>6, <3>1, UsedOfOneMore
  <2>3. Ids(more) = Ids(packed) \cup {y.id}
    <3> HIDE DEF more, n
    <3> QED
      BY <1>2, <2>1 DEF Ids
  <2> HIDE DEF more, used, x
  <2>4. Used(more) <= Budget /\ Used(more) >= used /\ Used(more) \in Nat
    BY <1>3, <1>6, <2>2
  <2>5. \A m \in 1..k : list[m].id \in Ids(packed) \/ used >= Budget - 1
    BY DEF PackedFrom, used
  <2>6. \A m \in 1..(k + 1) : list[m].id \in Ids(more) \/ Used(more) >= Budget - 1
    <3>1. list[k + 1].id \in Ids(more)
      BY <1>6, <2>3 DEF x
    <3>2. \A m \in 1..k : list[m].id \in Ids(more) \/ Used(more) >= Budget - 1
      BY <1>3, <2>3, <2>4, <2>5
    <3> QED
      BY <1>5, <3>1, <3>2
  <2>7. \A i \in 1..n : \E m \in 1..k : packed[i].id = list[m].id
    BY <1>2 DEF PackedFrom
  <2>8. \A i \in 1..n : packed[i].id # y.id
    BY <1>4, <1>6, <2>7
  <2>9. \A i, j \in 1..n : packed[i].id = packed[j].id => i = j
    BY <1>2 DEF PackedFrom
  <2> HIDE DEF n
  <2>10. \A i, j \in DOMAIN more : more[i].id = more[j].id => i = j
    BY <2>1, <2>8, <2>9
  <2>11. \A i \in DOMAIN more : \E m \in 1..(k + 1) : more[i].id = list[m].id
    <3>1. \A i \in 1..n : \E m \in 1..(k + 1) : more[i].id = list[m].id
      BY <1>5, <2>1, <2>7
    <3>2. more[n + 1].id = list[k + 1].id /\ k + 1 \in 1..(k + 1)
      BY <1>6, <2>1 DEF x
    <3> QED
      BY <2>1, <3>1, <3>2
  <2> QED
    BY <2>1, <2>4, <2>6, <2>10, <2>11 DEF PackedFrom, more
<1>7. CASE used + Cost(x) <= Budget
  <2>1. Add(packed, x) = Append(packed, x)
    BY <1>7 DEF Add
  <2> QED
    BY <1>1, <1>6, <1>7, <2>1
<1>8. CASE ~(used + Cost(x) <= Budget) /\ room >= 1
  <2>1. Add(packed, x) = Append(packed, cut)
    BY <1>8 DEF Add
  <2>2. room \in Nat /\ used + (1 + room) = Budget
    BY <1>3, <1>8
  <2> HIDE DEF room, x, used
  <2>3. cut \in Candidates /\ cut.id = x.id /\ Cost(cut) <= 1 + room
    BY <1>1, <1>8, <2>2, CutFits
  <2>4. Cost(cut) \in Nat
    BY <2>3, RagAnswerAssumption DEF Cost, Candidates
  <2>5. used + Cost(cut) <= Budget
    BY <1>3, <2>2, <2>3, <2>4
  <2>6. PackedFrom(Append(packed, cut), list, k + 1)
    BY <1>6, <2>3, <2>5
  <2> QED
    BY <2>1, <2>6 DEF x
<1>9. CASE ~(used + Cost(x) <= Budget) /\ ~(room >= 1)
  <2>1. Add(packed, x) = packed
    BY <1>9 DEF Add
  <2>2. used >= Budget - 1
    BY <1>3, <1>9
  <2>3. \A i \in DOMAIN packed : \E m \in 1..(k + 1) : packed[i].id = list[m].id
    BY <1>5 DEF PackedFrom
  <2> QED
    BY <2>1, <2>2, <2>3 DEF PackedFrom
<1> QED
  BY <1>7, <1>8, <1>9

\* So it is at the end of the list.
LEMMA PackedIsSound ==
    ASSUME NEW list \in CandidateLists
    PROVE  PackedFrom(Pack(list), list, Len(list))
<1> DEFINE n == Len(list)
<1>1. list \in Seq(Candidates) /\ n \in Nat
  BY DEF CandidateLists
<1>2. PICK run \in [0..n -> Seq(Candidates)] :
         /\ run[0] = << >>
         /\ \A k \in 1..n : run[k] = Add(run[k - 1], list[k])
         /\ Pack(list) = run[n]
  BY <1>1, AddGoes
<1> DEFINE S == {k \in Nat : k <= n => PackedFrom(run[k], list, k)}
<1>3. 0 \in S
  BY <1>2, PackedStarts
<1>4. ASSUME NEW k \in Nat, k \in S PROVE k + 1 \in S
  <2> SUFFICES ASSUME k + 1 <= n PROVE PackedFrom(run[k + 1], list, k + 1)
    OBVIOUS
  <2>1. k + 1 \in 1..n /\ (k + 1) - 1 = k
    BY <1>1
  <2>2. run[k + 1] = Add(run[k], list[k + 1])
    BY <1>2, <2>1
  <2>3. PackedFrom(run[k], list, k)
    BY <1>1, <1>4
  <2> QED
    BY <2>2, <2>3, PackedGrows
<1>5. n \in S
  <2> HIDE DEF S
  <2> QED
    BY <1>1, <1>3, <1>4, Inductive
<1> QED
  BY <1>1, <1>2, <1>5

-----------------------------------------------------------------------------
(* The context *)

\* In whatever order the kept candidates are presented, each stands there once.
LEMMA OrdersList ==
    ASSUME NEW list \in CandidateLists, NEW order \in Orders(SelectContextChunks(list))
    PROVE  /\ order \in CandidateLists
           /\ Range(order) = Range(SelectContextChunks(list))
<1> DEFINE kept == SelectContextChunks(list)
           S == Range(kept)
           N == Cardinality(S)
<1>1. kept \in Seq(Candidates) /\ S \in SUBSET Range(list)
  BY KeptIsSound
<1>2. IsFiniteSet(S) /\ S \in SUBSET Candidates
  BY <1>1, ListIsFinite
<1>3. N \in Nat
  BY <1>2, FS_CardinalityType
<1>4. order \in [1..N -> S] /\ \A i, j \in 1..N : i # j => order[i] # order[j]
  BY DEF Orders, SetToSeqs
<1> HIDE DEF kept
<1>5. \A x, y \in S : x.id = y.id => x = y
  BY <1>1 DEF Range, CandidateLists
<1> HIDE DEF N, S
<1>6. order \in Seq(Candidates) /\ DOMAIN order = 1..N
  BY <1>2, <1>3, <1>4
<1>7. order \in CandidateLists
  BY <1>4, <1>5, <1>6 DEF CandidateLists
<1>8. order \in Surjection(1..N, S)
  <2>1. order \in Injection(1..N, S)
    BY <1>4 DEF Injection, IsInjective
  <2>2. Cardinality(1..N) = N
    BY <1>3, FS_Interval
  <2> QED
    BY <1>2, <2>1, <2>2, FS_Injection DEF N
<1>9. Range(order) = S
  BY <1>6, <1>8 DEF Surjection, Range
<1> QED
  BY <1>7, <1>9 DEF S, kept

\* What the context promises, of the candidates it was chosen from.
Sound(ctx, list) ==
    /\ Used(ctx) <= Budget
    /\ \A i, j \in DOMAIN ctx : i # j => ~Duplicates(ctx[i], ctx[j])
    /\ \A i \in DOMAIN list :
           \/ list[i].id \in Ids(ctx)
           \/ \E j \in DOMAIN list : Priority(list[j], list[i])
                                     /\ Duplicates(list[i], list[j])
           \/ Used(ctx) >= Budget - 1

\* Keeping and packing together: what is presented is sound in any of the orders.
LEMMA ChosenIsSound ==
    ASSUME NEW list \in CandidateLists, NEW order \in Orders(SelectContextChunks(list))
    PROVE  Sound(Pack(order), list)
<1> DEFINE kept == SelectContextChunks(list)
           ctx == Pack(order)
           n == Len(order)
<1>1. order \in CandidateLists /\ Range(order) = Range(kept)
  BY OrdersList
<1>2. PackedFrom(ctx, order, n)
  BY <1>1, PackedIsSound
<1>3. order \in Seq(Candidates) /\ n \in Nat /\ DOMAIN order = 1..n
  BY <1>1 DEF CandidateLists
<1>4. /\ \A x, y \in Range(kept) : x # y => ~Duplicates(x, y)
      /\ \A x \in Range(list) :
            \/ x \in Range(kept)
            \/ \E y \in Range(list) : Priority(y, x) /\ Duplicates(x, y)
  BY KeptIsSound
<1> HIDE DEF kept, ctx, n
<1>5. ASSUME NEW i \in DOMAIN ctx, NEW j \in DOMAIN ctx, i # j
      PROVE  ~Duplicates(ctx[i], ctx[j])
  <2>1. PICK m \in 1..n : ctx[i].id = order[m].id
    BY <1>2 DEF PackedFrom
  <2>2. PICK p \in 1..n : ctx[j].id = order[p].id
    BY <1>2 DEF PackedFrom
  <2>3. ctx[i].id # ctx[j].id
    BY <1>2, <1>5 DEF PackedFrom
  <2>4. order[m] # order[p] /\ order[m] \in Range(kept) /\ order[p] \in Range(kept)
    BY <1>1, <1>3, <2>1, <2>2, <2>3 DEF Range
  <2>5. ~Duplicates(order[p], order[m])
    BY <1>4, <2>4
  <2> QED
    BY <2>1, <2>2, <2>5, DuplicatesById
<1>6. ASSUME NEW i \in DOMAIN list
      PROVE  \/ list[i].id \in Ids(ctx)
             \/ \E j \in DOMAIN list : Priority(list[j], list[i]) /\ Duplicates(list[i], list[j])
             \/ Used(ctx) >= Budget - 1
  <2>1. CASE list[i] \in Range(kept)
    <3>1. PICK m \in 1..n : list[i] = order[m]
      BY <1>1, <1>3, <2>1 DEF Range
    <3> QED
      BY <1>2, <3>1 DEF PackedFrom
  <2>2. CASE list[i] \notin Range(kept)
    <3>1. PICK y \in Range(list) : Priority(y, list[i]) /\ Duplicates(list[i], y)
      BY <1>4, <2>2 DEF Range
    <3>2. PICK j \in DOMAIN list : y = list[j]
      BY <3>1 DEF Range
    <3> QED
      BY <3>1, <3>2
  <2> QED
    BY <2>1, <2>2
<1>7. Used(ctx) <= Budget
  BY <1>2 DEF PackedFrom
<1> QED
  BY <1>5, <1>6, <1>7 DEF Sound, ctx

-----------------------------------------------------------------------------
(* The candidates *)

\* The product of the denominators, a recursive function, is a natural number.
LEMMA UnitIsNatural == Unit[MaxList] \in Nat
<1> DEFINE U(m, f) == f = [n \in 0..m |-> IF n = 0 THEN 1 ELSE (RrfK + n) * f[n - 1]]
           S == {m \in Nat : \E f \in [0..m -> Nat] : U(m, f)}
<1>1. RrfK \in Nat /\ MaxList \in Nat
  BY RagAnswerAssumption
<1>2. 0 \in S
  <2> DEFINE f == [n \in 0..0 |-> 1]
  <2>1. f \in [0..0 -> Nat] /\ U(0, f)
    OBVIOUS
  <2> QED
    BY <2>1
<1>3. ASSUME NEW m \in Nat, m \in S PROVE m + 1 \in S
  <2>1. PICK f \in [0..m -> Nat] : U(m, f)
    BY <1>3
  <2> DEFINE last == (RrfK + (m + 1)) * f[m]
             g == [n \in 0..(m + 1) |-> IF n = m + 1 THEN last ELSE f[n]]
  <2>2. last \in Nat
    <3>1. f[m] \in Nat /\ RrfK + (m + 1) \in Nat
      BY <1>1
    <3> QED
      BY <3>1
  <2> HIDE DEF last
  <2>3. g \in [0..(m + 1) -> Nat]
    BY <2>2
  <2>4. ASSUME NEW n \in 0..(m + 1)
        PROVE  g[n] = IF n = 0 THEN 1 ELSE (RrfK + n) * g[n - 1]
    <3>1. CASE n = m + 1
      <4>1. n # 0 /\ n - 1 = m /\ g[m] = f[m] /\ g[n] = last
        BY <3>1
      <4> QED
        BY <3>1, <4>1 DEF last
    <3>2. CASE n # m + 1 /\ n # 0
      <4>1. n \in 0..m /\ n - 1 \in 0..m /\ n - 1 \in 0..(m + 1) /\ n - 1 # m + 1
        BY <3>2
      <4>2. f[n] = (RrfK + n) * f[n - 1]
        BY <2>1, <3>2, <4>1
      <4>3. g[n] = f[n] /\ g[n - 1] = f[n - 1]
        BY <3>2, <4>1
      <4> QED
        BY <3>2, <4>2, <4>3
    <3>3. CASE n = 0 /\ n # m + 1
      <4>1. f[0] = 1 /\ g[0] = f[0]
        BY <2>1, <3>3
      <4> QED
        BY <3>3, <4>1
    <3> QED
      BY <3>1, <3>2, <3>3
  <2>5. U(m + 1, g)
    <3>1. g = [n \in 0..(m + 1) |-> g[n]]
      OBVIOUS
    <3> HIDE DEF g
    <3> QED
      BY <2>4, <3>1
  <2> HIDE DEF g, U
  <2> QED
    BY <2>3, <2>5
<1>4. MaxList \in S
  <2> HIDE DEF S
  <2> QED
    BY <1>1, <1>2, <1>3, Inductive
<1>5. PICK f \in [0..MaxList -> Nat] : U(MaxList, f)
  BY <1>4
<1>6. U(MaxList, Unit)
  <2>1. Unit = CHOOSE u : U(MaxList, u)
    BY DEF Unit
  <2> HIDE DEF U
  <2> QED
    BY <1>5, <2>1
<1> DEFINE T == {m \in Nat : m <= MaxList => Unit[m] \in Nat}
<1>7. 0 \in T
  BY <1>1, <1>6
<1>8. ASSUME NEW m \in Nat, m \in T PROVE m + 1 \in T
  <2> SUFFICES ASSUME m + 1 <= MaxList PROVE Unit[m + 1] \in Nat
    OBVIOUS
  <2>1. m + 1 \in 0..MaxList /\ m + 1 # 0 /\ (m + 1) - 1 = m /\ Unit[m] \in Nat
    BY <1>1, <1>8
  <2>2. Unit[m + 1] = (RrfK + (m + 1)) * Unit[m]
    BY <1>6, <2>1
  <2>3. RrfK + (m + 1) \in Nat
    BY <1>1
  <2> QED
    BY <2>1, <2>2, <2>3
<1>9. MaxList \in T
  <2> HIDE DEF T
  <2> QED
    BY <1>1, <1>7, <1>8, Inductive
<1> QED
  BY <1>1, <1>9

\* So scores are integers.
LEMMA ReciprocalIsANumber ==
    ASSUME NEW rank \in Nat
    PROVE  Reciprocal(rank) \in Int
<1>1. RrfK + rank \in Nat /\ RrfK + rank > 0
  BY RagAnswerAssumption
<1>2. Unit[MaxList] \in Int
  BY UnitIsNatural
<1> QED
  BY <1>1, <1>2 DEF Reciprocal

\* What fusion makes of a chunk, a score and a rank.
LEMMA ItemIsACandidate ==
    ASSUME NEW c \in Chunks, NEW score \in Int, NEW rank \in Nat
    PROVE  Item(c, score, rank) \in Candidates /\ Item(c, score, rank).id = c
BY RagAnswerAssumption DEF Item, Candidates, Parents

\* A ranked list names each chunk at one place.
LEMMA RankedListIs ==
    ASSUME NEW l \in RankedLists
    PROVE  /\ l \in Seq(Chunks) /\ Len(l) \in Nat /\ DOMAIN l = 1..Len(l)
           /\ \A i, j \in 1..Len(l) : l[i] = l[j] => i = j
           /\ \A c \in Range(l) : RankIn(l, c) \in 1..Len(l) /\ l[RankIn(l, c)] = c
<1>1. PICK n \in 0..MaxList : l \in [1..n -> Chunks] /\ IsInjective(l)
  BY DEF RankedLists
<1>2. n \in Nat
  BY RagAnswerAssumption
<1>3. l \in Seq(Chunks) /\ Len(l) = n /\ DOMAIN l = 1..n
  BY <1>1, <1>2
<1>4. \A i, j \in 1..n : l[i] = l[j] => i = j
  BY <1>1, <1>3 DEF IsInjective
<1>5. \A c \in Range(l) : RankIn(l, c) \in 1..n /\ l[RankIn(l, c)] = c
  BY <1>3 DEF Range, RankIn
<1> QED
  BY <1>2, <1>3, <1>4, <1>5

\* A single list becomes candidates as it is.
LEMMA SingleListIs ==
    ASSUME NEW l \in RankedLists
    PROVE  SingleList(l) \in CandidateLists
<1> DEFINE n == Len(l)
           list == SingleList(l)
<1>1. /\ n \in Nat /\ \A i \in 1..n : l[i] \in Chunks
      /\ \A i, j \in 1..n : l[i] = l[j] => i = j
  BY RankedListIs
<1>2. list = [i \in 1..n |-> Item(l[i], Reciprocal(i), i)]
  BY DEF SingleList
<1> HIDE DEF n, list
<1>3. ASSUME NEW i \in 1..n PROVE list[i] \in Candidates /\ list[i].id = l[i]
  <2>1. i \in Nat /\ l[i] \in Chunks
    BY <1>1
  <2> QED
    BY <1>2, <2>1, ReciprocalIsANumber, ItemIsACandidate
<1>4. list \in Seq(Candidates) /\ DOMAIN list = 1..n
  BY <1>1, <1>2, <1>3
<1> QED
  BY <1>1, <1>3, <1>4 DEF CandidateLists, list

\* Fusing two ranked lists names every chunk of either once.
LEMMA FusedIs ==
    ASSUME NEW d \in RankedLists, NEW l \in RankedLists
    PROVE  ReciprocalRankFusion(d, l) \in CandidateLists
<1> DEFINE Found(c) == IF c \in Range(d) THEN RankIn(d, c) ELSE Len(d) + RankIn(l, c)
           Fused(c) == Contribution(d, c) + Contribution(l, c)
           Sooner(a, b) ==
               Fused(a) > Fused(b) \/ (Fused(a) = Fused(b) /\ Found(a) < Found(b))
           S == Range(d) \cup Range(l)
           N == Cardinality(S)
           R == {p \in S \X S : Sooner(p[1], p[2])}
           order == [k \in 1..N |->
                       CHOOSE x \in S : Cardinality({y \in S : Sooner(y, x)}) = k - 1]
           fused == ReciprocalRankFusion(d, l)
<1>1. IsFiniteSet(S) /\ S \in SUBSET Chunks /\ N \in Nat
  <2>1. d \in Seq(Chunks) /\ l \in Seq(Chunks)
    BY RankedListIs
  <2>2. IsFiniteSet(Range(d)) /\ IsFiniteSet(Range(l)) /\ S \in SUBSET Chunks
    BY <2>1, ListIsFinite
  <2>3. IsFiniteSet(S)
    BY <2>2, FS_Union
  <2> QED
    BY <2>2, <2>3, FS_CardinalityType
<1>2. fused = [i \in 1..Len(order) |-> Item(order[i], Fused(order[i]), i)]
  BY DEF ReciprocalRankFusion, Listed
<1>3. \A c \in S : Fused(c) \in Int
  <2>1. \A c : Contribution(d, c) \in Int /\ Contribution(l, c) \in Int
    BY RankedListIs, ReciprocalIsANumber DEF Contribution
  <2> QED
    BY <2>1
<1>4. \A a \in S : Found(a) \in Int
  BY RankedListIs
<1>5. \A a, b \in S : a # b => Found(a) # Found(b)
  <2> SUFFICES ASSUME NEW a \in S, NEW b \in S, Found(a) = Found(b) PROVE a = b
    BY Zenon
  <2>1. Len(d) \in Nat
    BY RankedListIs
  <2>2. \A c \in S : c \in Range(d) => Found(c) <= Len(d) /\ d[Found(c)] = c
    BY RankedListIs
  <2>3. \A c \in S : c \notin Range(d) => Found(c) > Len(d) /\ l[Found(c) - Len(d)] = c
    <3> SUFFICES ASSUME NEW c \in S, c \notin Range(d)
                 PROVE  Found(c) > Len(d) /\ l[Found(c) - Len(d)] = c
      OBVIOUS
    <3>1. RankIn(l, c) \in Nat \ {0} /\ l[RankIn(l, c)] = c
      BY RankedListIs
    <3>2. Found(c) = Len(d) + RankIn(l, c)
      OBVIOUS
    <3> HIDE DEF Found
    <3>3. Found(c) - Len(d) = RankIn(l, c)
      BY <2>1, <3>1, <3>2
    <3> QED
      BY <2>1, <3>1, <3>2, <3>3
  <2> HIDE DEF Found, S
  <2> QED
    BY <1>4, <2>1, <2>2, <2>3
<1>6. StrictOrder(R, S)
  <2>1. \A a, b \in S : <<a, b>> \in R <=> Sooner(a, b)
    OBVIOUS
  <2> HIDE DEF R, Fused, Found, S
  <2>2. ASSUME NEW a \in S, NEW b \in S, NEW c \in S
        PROVE  /\ ~Sooner(a, a)
               /\ Sooner(a, b) /\ Sooner(b, c) => Sooner(a, c)
               /\ a # b => Sooner(a, b) \/ Sooner(b, a)
    <3>1. /\ Fused(a) \in Int /\ Fused(b) \in Int /\ Fused(c) \in Int
          /\ Found(a) \in Int /\ Found(b) \in Int /\ Found(c) \in Int
      BY <1>3, <1>4
    <3>2. a # b => Found(a) # Found(b)
      BY <1>5
    <3> QED
      BY <3>1, <3>2
  <2> HIDE DEF Sooner
  <2> QED
    BY <2>1, <2>2 DEF StrictOrder
<1>7. \A x \in S : RankOf(R, S)[x] = Cardinality({y \in S : Sooner(y, x)})
  <2> HIDE DEF Sooner, S
  <2> SUFFICES ASSUME NEW x \in S
               PROVE  RankOf(R, S)[x] = Cardinality({y \in S : Sooner(y, x)})
    OBVIOUS
  <2>1. {y \in S : <<y, x>> \in R} = {y \in S : Sooner(y, x)}
    OBVIOUS
  <2> QED
    BY <2>1 DEF RankOf
<1> HIDE DEF Fused, Found
<1>8. order = [k \in 1..N |-> CHOOSE x \in S : RankOf(R, S)[x] = k - 1]
  <2> HIDE DEF R, N, Sooner, S
  <2> QED
    BY <1>7
<1>9. order \in Bijection(1..N, S)
  <2> HIDE DEF order, R, S
  <2> QED
    BY <1>1, <1>6, <1>8, ListedByRank DEF N
<1> HIDE DEF order, N, fused
<1>10. order \in [1..N -> S] /\ \A i, j \in 1..N : order[i] = order[j] => i = j
  BY <1>9 DEF Bijection, Injection, IsInjective
<1>11. order \in Seq(Chunks) /\ Len(order) = N
  BY <1>1, <1>10
<1>12. ASSUME NEW i \in 1..N PROVE fused[i] \in Candidates /\ fused[i].id = order[i]
  <2>1. order[i] \in Chunks /\ order[i] \in S /\ i \in Nat
    BY <1>1, <1>10
  <2>2. fused[i] = Item(order[i], Fused(order[i]), i)
    BY <1>2, <1>11
  <2>3. Fused(order[i]) \in Int
    BY <1>3, <2>1
  <2> QED
    BY <2>1, <2>2, <2>3, ItemIsACandidate
<1>13. fused \in Seq(Candidates) /\ DOMAIN fused = 1..N
  BY <1>1, <1>2, <1>11, <1>12
<1> QED
  BY <1>10, <1>12, <1>13 DEF CandidateLists, fused

\* A list cut short names no chunk twice either.
LEMMA Shortened ==
    ASSUME NEW list \in CandidateLists, NEW m \in Nat, m <= Len(list)
    PROVE  SubSeq(list, 1, m) \in CandidateLists
<1>1. list \in Seq(Candidates) /\ DOMAIN list = 1..Len(list) /\ Len(list) \in Nat
  BY DEF CandidateLists
<1> DEFINE new == SubSeq(list, 1, m)
<1>2. new = [i \in 1..m |-> list[i]]
  BY <1>1
<1>3. \A i \in 1..m : i \in DOMAIN list /\ list[i] \in Candidates
  BY <1>1
<1> HIDE DEF new
<1>4. new \in Seq(Candidates) /\ DOMAIN new = 1..m /\ \A i \in 1..m : new[i] = list[i]
  BY <1>2, <1>3
<1>5. new \in CandidateLists
  BY <1>3, <1>4 DEF CandidateLists
<1> QED
  BY <1>5 DEF new

\* Changing anything of the candidates but their ids keeps the list one.
LEMMA Reworked ==
    ASSUME NEW list \in CandidateLists, NEW n \in Nat, n <= Len(list), NEW new,
           new = [i \in 1..n |-> new[i]],
           \A i \in 1..n : new[i] \in Candidates /\ new[i].id = list[i].id
    PROVE  new \in CandidateLists
<1>1. list \in Seq(Candidates) /\ DOMAIN list = 1..Len(list) /\ Len(list) \in Nat
  BY DEF CandidateLists
<1>2. new \in Seq(Candidates) /\ DOMAIN new = 1..n
  OBVIOUS
<1>3. \A i \in 1..n : i \in DOMAIN list
  BY <1>1
<1> QED
  BY <1>2, <1>3 DEF CandidateLists

\* Parents' texts change no id.
LEMMA ExpandedIs ==
    ASSUME NEW list \in CandidateLists
    PROVE  ExpandParents(list) \in CandidateLists
<1> DEFINE n == Len(list)
           new == ExpandParents(list)
           First(i) == /\ ParentOf[list[i].id] # NoParent
                       /\ \A j \in 1..(i - 1) : ParentOf[list[j].id] # ParentOf[list[i].id]
<1>1. list \in Seq(Candidates) /\ DOMAIN list = 1..n /\ n \in Nat
  BY DEF CandidateLists
<1>2. new = [i \in 1..n |->
                [list[i] EXCEPT !.parent = ParentOf[list[i].id], !.holds = First(i),
                                !.size = IF First(i) THEN ParentSize ELSE @]]
  BY <1>1 DEF ExpandParents
<1> HIDE DEF new, n, First
<1>3. ASSUME NEW i \in 1..n PROVE new[i] \in Candidates /\ new[i].id = list[i].id
  <2> DEFINE x == list[i]
             p == ParentOf[x.id]
             h == IF First(i) THEN TRUE ELSE FALSE
             z == IF First(i) THEN ParentSize ELSE x.size
  <2>1. x \in Candidates
    BY <1>1
  <2>2. p \in Parents
    BY <2>1 DEF Candidates, Parents
  <2>3. h \in BOOLEAN /\ z \in Nat \ {0}
    BY <2>1, RagAnswerAssumption DEF Candidates
  <2>4. First(i) = h
    BY DEF First
  <2>5. new[i] = [x EXCEPT !.parent = p, !.holds = h, !.size = z]
    BY <1>2, <2>4
  <2> HIDE DEF x, p, h, z
  <2>6. [x EXCEPT !.parent = p, !.holds = h, !.size = z]
        = [[[x EXCEPT !.parent = p] EXCEPT !.holds = h] EXCEPT !.size = z]
    OBVIOUS
  <2>7. new[i] \in Candidates /\ new[i].id = x.id
    BY <2>1, <2>2, <2>3, <2>5, <2>6 DEF Candidates
  <2> QED
    BY <2>7 DEF x
<1>4. new = [i \in 1..n |-> new[i]]
  BY <1>2
<1>5. n \in Nat /\ n <= Len(list)
  BY <1>1 DEF n
<1>6. new \in CandidateLists
  BY <1>3, <1>4, <1>5, Reworked
<1> QED
  BY <1>6 DEF new

\* Reranking permutes.
LEMMA RerankedIs ==
    ASSUME NEW list \in CandidateLists, NEW p \in [DOMAIN list -> DOMAIN list], IsInjective(p)
    PROVE  [i \in DOMAIN list |-> list[p[i]]] \in CandidateLists
<1> DEFINE n == Len(list)
           new == [i \in 1..n |-> list[p[i]]]
<1>1. list \in Seq(Candidates) /\ DOMAIN list = 1..n /\ n \in Nat
  BY DEF CandidateLists
<1>2. \A i \in 1..n : p[i] \in 1..n /\ list[p[i]] \in Candidates
  BY <1>1
<1>3. \A i, j \in 1..n : list[i].id = list[j].id => i = j
  BY <1>1 DEF CandidateLists
<1>4. \A i, j \in 1..n : p[i] = p[j] => i = j
  BY <1>1 DEF IsInjective
<1> HIDE DEF n
<1>5. new \in Seq(Candidates) /\ DOMAIN new = 1..n /\ \A i \in 1..n : new[i] = list[p[i]]
  BY <1>1, <1>2
<1>6. new = [i \in DOMAIN list |-> list[p[i]]]
  BY <1>1
<1> HIDE DEF new
<1>7. new \in CandidateLists
  <2>1. ASSUME NEW i \in 1..n, NEW j \in 1..n, new[i].id = new[j].id PROVE i = j
    <3>1. p[i] = p[j]
      BY <1>2, <1>3, <1>5, <2>1
    <3> QED
      BY <1>4, <3>1
  <2> QED
    BY <1>5, <2>1 DEF CandidateLists
<1> QED
  BY <1>6, <1>7

\* A cap per document leaves out, and keeps the order.
LEMMA DiversifiedIs ==
    ASSUME NEW list \in CandidateLists
    PROVE  DiversifyByDocument(list) \in CandidateLists
<1> DEFINE Earlier(i) == {j \in 1..(i - 1) : DocOf[list[j].id] = DocOf[list[i].id]}
           T == {i \in DOMAIN list : Cardinality(Earlier(i)) < MaxPerDocument}
           kept == Ascending(T)
           new == [n \in DOMAIN kept |-> list[kept[n]]]
           N == Cardinality(T)
<1>1. list \in Seq(Candidates) /\ DOMAIN list = 1..Len(list) /\ Len(list) \in Nat
  BY DEF CandidateLists
<1>2. DiversifyByDocument(list) = new
  BY DEF DiversifyByDocument
<1>3. IsFiniteSet(T) /\ T \in SUBSET Int
  <2>1. T \in SUBSET (1..Len(list))
    BY <1>1
  <2> HIDE DEF T
  <2>2. IsFiniteSet(1..Len(list))
    BY <1>1, FS_Interval
  <2>3. IsFiniteSet(T)
    BY <2>1, <2>2, FS_Subset
  <2>4. T \in SUBSET Int
    BY <2>1
  <2> QED
    BY <2>3, <2>4
<1>4. T \in SUBSET DOMAIN list
  OBVIOUS
<1> HIDE DEF T
<1>5. N \in Nat /\ kept \in Seq(T) /\ Len(kept) = N /\ kept \in Bijection(1..N, T)
  BY <1>3, AscendingLists
<1> HIDE DEF kept, N
<1>6. /\ DOMAIN kept = 1..N /\ \A n \in 1..N : kept[n] \in DOMAIN list
      /\ \A m, n \in 1..N : kept[m] = kept[n] => m = n
  BY <1>4, <1>5 DEF Bijection, Injection, IsInjective
<1>7. new \in Seq(Candidates) /\ DOMAIN new = 1..N
  BY <1>1, <1>5, <1>6
<1>8. new \in CandidateLists
  BY <1>6, <1>7 DEF CandidateLists
<1> QED
  BY <1>2, <1>8

-----------------------------------------------------------------------------
(* The pipeline *)

\* No step names a chunk twice; a context is sound once it is chosen.
RankedInv ==
    /\ dense \in RankedLists /\ lexical \in RankedLists
    /\ ranked \in CandidateLists
    /\ ContextIsSound

\* The empty list is both.
LEMMA NoneRanked == << >> \in RankedLists /\ << >> \in CandidateLists
<1>1. << >> \in [1..0 -> Chunks] /\ IsInjective(<< >>) /\ 0 \in 0..MaxList
  BY RagAnswerAssumption DEF IsInjective
<1>2. << >> \in RankedLists
  BY <1>1 DEF RankedLists
<1>3. << >> \in CandidateLists
  BY DEF CandidateLists
<1> QED
  BY <1>2, <1>3

\* A question starts with nothing ranked.
LEMMA RankedInvInit == RAInit => RankedInv
BY NoneRanked DEF RAInit, RankedInv, ContextIsSound

\* Fusing gives candidates, of both lists or of the one that is not empty.
LEMMA FuseKeeps ==
    ASSUME RankedInv, Fuse
    PROVE  ranked' \in CandidateLists
<1>1. CASE dense # << >> /\ lexical # << >>
  <2> DEFINE fused == ReciprocalRankFusion(dense, lexical)
             m == IF Len(fused) < 3 * TopK THEN Len(fused) ELSE 3 * TopK
  <2>1. ranked' = SubSeq(fused, 1, m)
    BY <1>1 DEF Fuse
  <2>2. fused \in CandidateLists
    BY FusedIs DEF RankedInv
  <2> HIDE DEF fused
  <2>3. m \in Nat /\ m <= Len(fused)
    <3>1. Len(fused) \in Nat
      BY <2>2 DEF CandidateLists
    <3>2. 3 * TopK \in Nat
      BY RagAnswerAssumption
    <3> QED
      BY <3>1, <3>2
  <2> HIDE DEF m
  <2> QED
    BY <2>1, <2>2, <2>3, Shortened
<1>2. CASE ~(dense # << >> /\ lexical # << >>)
  <2>1. ranked' = SingleList(dense \o lexical)
    BY <1>2 DEF Fuse
  <2>2. dense \in Seq(Chunks) /\ lexical \in Seq(Chunks)
    BY RankedListIs DEF RankedInv
  <2>3. dense \o lexical = dense \/ dense \o lexical = lexical
    BY <1>2, <2>2
  <2> QED
    BY <2>1, <2>3, SingleListIs DEF RankedInv
<1> QED
  BY <1>1, <1>2

\* Capping gives candidates.
LEMMA CapKeeps ==
    ASSUME RankedInv, Cap
    PROVE  ranked' \in CandidateLists
<1> DEFINE list == IF plan.diversify THEN DiversifyByDocument(ranked) ELSE ranked
           n == IF Len(list) < TopK THEN Len(list) ELSE TopK
           new == [i \in 1..n |-> [list[i] EXCEPT !.rank = i]]
<1>1. ranked' = new
  BY DEF Cap
<1>2. list \in CandidateLists
  BY DiversifiedIs DEF RankedInv
<1> HIDE DEF list
<1>3. list \in Seq(Candidates) /\ DOMAIN list = 1..Len(list) /\ Len(list) \in Nat
  BY <1>2 DEF CandidateLists
<1>4. n \in Nat /\ n <= Len(list)
  BY <1>3, RagAnswerAssumption
<1> HIDE DEF n
<1>5. ASSUME NEW i \in 1..n PROVE new[i] \in Candidates /\ new[i].id = list[i].id
  <2>1. list[i] \in Candidates /\ i \in Nat
    BY <1>3, <1>4
  <2> QED
    BY <2>1 DEF Candidates
<1>6. new = [i \in 1..n |-> new[i]]
  OBVIOUS
<1> HIDE DEF new
<1> QED
  BY <1>1, <1>2, <1>4, <1>5, <1>6, Reworked

\* The only step that chooses a context chooses a sound one.
LEMMA SelectIsSound ==
    ASSUME RankedInv, Select
    PROVE  ContextIsSound'
<1>1. PICK order \in Orders(SelectContextChunks(ranked)) : context' = Pack(order)
  BY DEF Select
<1>2. Sound(context', ranked)
  BY <1>1, ChosenIsSound DEF RankedInv
<1>3. ranked' = ranked
  BY DEF Select
<1> QED
  BY <1>2, <1>3 DEF Sound, ContextIsSound

\* One step for each stage of the pipeline.
LEMMA RankedInvNext == RankedInv /\ [RANext]_answerVars => RankedInv'
<1> SUFFICES ASSUME RankedInv, [RANext]_answerVars PROVE RankedInv'
  OBVIOUS
<1>1. CASE FindLists
  BY <1>1 DEF FindLists, RankedInv, ContextIsSound
<1>2. CASE Fuse
  <2>1. ranked' \in CandidateLists
    BY <1>2, FuseKeeps
  <2> QED
    BY <1>2, <2>1 DEF Fuse, RankedInv, ContextIsSound
<1>3. CASE Expand
  <2>1. ranked' \in CandidateLists
    BY <1>3, ExpandedIs DEF Expand, RankedInv
  <2> QED
    BY <1>3, <2>1, NoneRanked DEF Expand, RankedInv, ContextIsSound
<1>4. CASE Rerank
  <2>1. ranked' \in CandidateLists
    BY <1>4, RerankedIs DEF Rerank, RankedInv
  <2> QED
    BY <1>4, <2>1 DEF Rerank, RankedInv, ContextIsSound
<1>5. CASE Cap
  <2>1. ranked' \in CandidateLists
    BY <1>5, CapKeeps
  <2> QED
    BY <1>5, <2>1 DEF Cap, RankedInv, ContextIsSound
<1>6. CASE Select
  <2>1. ContextIsSound'
    BY <1>6, SelectIsSound
  <2> QED
    BY <1>6, <2>1 DEF Select, RankedInv
<1>7. CASE AnswerQuestion
  BY <1>7 DEF AnswerQuestion, RankedInv, ContextIsSound
<1>8. CASE UNCHANGED answerVars
  BY <1>8 DEF answerVars, RankedInv, ContextIsSound
<1> QED
  BY <1>1, <1>2, <1>3, <1>4, <1>5, <1>6, <1>7, <1>8 DEF RANext

\* However long the lists and whatever the scores, the overlaps and the budget: a
\* context fits its budget and repeats nothing, and what it leaves out repeats a
\* better candidate or finds the budget used up to a heading.
THEOREM ContextSound == RASpec => []ContextIsSound
<1>1. RankedInv => ContextIsSound
  BY DEF RankedInv
<1> QED
  BY <1>1, RankedInvInit, RankedInvNext, PTL DEF RASpec

-----------------------------------------------------------------------------
(* Similarity *)

\* Pairs of items.
Pairs == Items \X Items

\* Fractions, which scores are.
Fractions == Nat \X (Nat \ {0})

\* Being no less than is transitive, of fractions compared by multiplying across.
LEMMA NotLessTransitive ==
    ASSUME NEW a \in Fractions, NEW b \in Fractions, NEW c \in Fractions,
           ~Less(b, a), ~Less(c, b)
    PROVE  ~Less(c, a)
<1>1. PICK a1 \in Nat, a2 \in Nat \ {0} : a = <<a1, a2>>
  BY DEF Fractions
<1>2. PICK b1 \in Nat, b2 \in Nat \ {0} : b = <<b1, b2>>
  BY DEF Fractions
<1>3. PICK c1 \in Nat, c2 \in Nat \ {0} : c = <<c1, c2>>
  BY DEF Fractions
<1>4. a1 * b2 <= b1 * a2 /\ b1 * c2 <= c1 * b2
  BY <1>1, <1>2, <1>3 DEF Less
<1>5. (a1 * b2) * c2 <= (b1 * a2) * c2 /\ (b1 * c2) * a2 <= (c1 * b2) * a2
  BY <1>4
<1>6. (b1 * a2) * c2 = (b1 * c2) * a2
  OBVIOUS
<1>7. (a1 * b2) * c2 = (a1 * c2) * b2 /\ (c1 * b2) * a2 = (c1 * a2) * b2
  OBVIOUS
<1>8. (a1 * c2) * b2 <= (c1 * a2) * b2
  BY <1>5, <1>6, <1>7
<1>9. a1 * c2 <= c1 * a2
  BY <1>8
<1> QED
  BY <1>1, <1>3, <1>9 DEF Less

\* The order of the results, as a set of pairs.
Order == {z \in Pairs \X Pairs : Ahead(z[1], z[2])}

\* The parameters of a request.
SimilarityTypes ==
    /\ tokensOf \in [Items -> SUBSET Tokens]
    /\ topK \in Nat
    /\ minScore \in Fractions
    /\ includeSelf \in BOOLEAN

\* A score is a fraction.
LEMMA ScoreType ==
    ASSUME SimilarityTypes, NEW p \in Pairs
    PROVE  Score(p) \in Fractions
<1>1. p[1] \in Items /\ p[2] \in Items
  BY DEF Pairs
<1> DEFINE i == p[1]
           j == p[2]
           union == tokensOf[i] \cup tokensOf[j]
<1>2. union \in SUBSET Tokens /\ tokensOf[i] \cap tokensOf[j] \in SUBSET Tokens
  BY <1>1 DEF SimilarityTypes
<1>3. IsFiniteSet(union) /\ IsFiniteSet(tokensOf[i] \cap tokensOf[j])
  BY <1>2, FS_Subset, SimilarityAssumption
<1>4. Cardinality(union) \in Nat /\ Cardinality(tokensOf[i] \cap tokensOf[j]) \in Nat
  BY <1>3, FS_CardinalityType
<1>5. union # {} => Cardinality(union) # 0
  BY <1>3, FS_EmptySet
<1>6. Score(p) = IF union = {} THEN <<1, 1>>
                 ELSE <<Cardinality(tokensOf[i] \cap tokensOf[j]), Cardinality(union)>>
  BY DEF Score, JaccardSimilarity
<1> QED
  BY <1>4, <1>5, <1>6 DEF Fractions

\* The order of the results is strict and total: equal scores are told apart by the pair.
LEMMA OrderIsStrict ==
    ASSUME SimilarityTypes, NEW S \in SUBSET Pairs
    PROVE  StrictOrder(Order, S)
<1> DEFINE lt(p, q) == Less(Score(p), Score(q))
<1>1. \A p, q \in S : <<p, q>> \in Order <=> (lt(q, p) \/ (~lt(p, q) /\ Before(p, q)))
  BY DEF Order, Ahead
<1>2. \A p \in S : ~lt(p, p)
  <2> SUFFICES ASSUME NEW p \in S PROVE ~lt(p, p)
    OBVIOUS
  <2>1. Score(p) \in Fractions
    BY ScoreType
  <2> QED
    BY <2>1 DEF Less, Fractions
<1>3. \A p, q \in S : lt(p, q) => ~lt(q, p)
  <2> SUFFICES ASSUME NEW p \in S, NEW q \in S PROVE lt(p, q) => ~lt(q, p)
    OBVIOUS
  <2>1. Score(p) \in Fractions /\ Score(q) \in Fractions
    BY ScoreType
  <2> QED
    BY <2>1 DEF Less, Fractions
<1>4. \A p, q, r \in S : ~lt(q, p) /\ ~lt(r, q) => ~lt(r, p)
  BY ScoreType, NotLessTransitive
<1> HIDE DEF lt
<1>5. /\ \A p \in S : ~Before(p, p)
      /\ \A p, q, r \in S : Before(p, q) /\ Before(q, r) => Before(p, r)
      /\ \A p, q \in S : p # q => Before(p, q) \/ Before(q, p)
  <2>1. \A p \in S : p[1] \in Nat /\ p[2] \in Nat /\ p = <<p[1], p[2]>>
    <3>1. \A p \in Items \X Items : p[1] \in Items /\ p[2] \in Items /\ p = <<p[1], p[2]>>
      OBVIOUS
    <3>2. Items \subseteq Nat
      BY SimilarityAssumption
    <3> QED
      BY <3>1, <3>2 DEF Pairs
  <2>2. \A p, q \in S : p # q => p[1] # q[1] \/ p[2] # q[2]
    BY <2>1
  <2>3. \A p, q \in S : p # q => Before(p, q) \/ Before(q, p)
    BY <2>1, <2>2 DEF Before
  <2> QED
    BY <2>1, <2>3 DEF Before
<1>6. \A p, q, r \in S : <<p, q>> \in Order /\ <<q, r>> \in Order => <<p, r>> \in Order
  BY <1>1, <1>3, <1>4, <1>5
<1>7. \A p, q \in S : p # q => <<p, q>> \in Order \/ <<q, p>> \in Order
  BY <1>1, <1>5
<1> QED
  BY <1>1, <1>2, <1>5, <1>6, <1>7 DEF StrictOrder

\* A finite set in a strict order has a last element.
LEMMA LastExists ==
    ASSUME NEW S, IsFiniteSet(S), S # {}, NEW R, StrictOrder(R, S)
    PROVE  \E x \in S : \A y \in S \ {x} : <<y, x>> \in R
<1> DEFINE N == Cardinality(S)
           rank == RankOf(R, S)
<1>1. N \in Nat /\ N # 0
  BY FS_CardinalityType, FS_EmptySet
<1>2. rank \in Bijection(S, 0..(N - 1)) /\ \A x, y \in S : <<x, y>> \in R <=> rank[x] < rank[y]
  BY Ranks
<1> HIDE DEF N, rank
<1>3. /\ rank \in [S -> 0..(N - 1)]
      /\ \A x, y \in S : rank[x] = rank[y] => x = y
      /\ \A k \in 0..(N - 1) : \E x \in S : rank[x] = k
  BY <1>2 DEF Bijection, Injection, Surjection, IsInjective
<1>4. N - 1 \in 0..(N - 1)
  BY <1>1
<1>5. PICK x \in S : rank[x] = N - 1
  BY <1>3, <1>4
<1>6. ASSUME NEW y \in S \ {x} PROVE rank[y] < rank[x]
  <2>1. rank[y] \in 0..(N - 1) /\ rank[y] # N - 1
    BY <1>3, <1>5
  <2> QED
    BY <1>1, <1>5, <2>1
<1> QED
  BY <1>2, <1>6

\* H is what comes first of S.
FirstOf(R, S, H, k) ==
    /\ H \subseteq S
    /\ Cardinality(H) = IF k < Cardinality(S) THEN k ELSE Cardinality(S)
    /\ \A p \in H, q \in S \ H : <<p, q>> \in R

\* The elements of S in the order R.
InOrder(R, S) == [i \in 1..Cardinality(S) |-> CHOOSE x \in S : RankOf(R, S)[x] = i - 1]

\* A function on 1..n is a list of n elements.
LEMMA FunctionIsList ==
    ASSUME NEW S, NEW n \in Nat, NEW f \in [1..n -> S]
    PROVE  f \in Seq(S) /\ Len(f) = n
OBVIOUS

\* Listing the first k of a set gives the first k of its list.
LEMMA FirstsListed ==
    ASSUME NEW S, IsFiniteSet(S), NEW R, StrictOrder(R, S), NEW k \in Nat,
           NEW H, FirstOf(R, S, H, k), NEW all, NEW firsts,
           all = InOrder(R, S), firsts = InOrder(R, H)
    PROVE  firsts = SubSeq(all, 1, IF k < Len(all) THEN k ELSE Len(all))
<1> DEFINE N == Cardinality(S)
           M == Cardinality(H)
<1>1. H \in SUBSET S /\ IsFiniteSet(H)
  BY FS_Subset DEF FirstOf
<1>2. N \in Nat /\ M \in Nat /\ M = (IF k < N THEN k ELSE N)
  BY <1>1, FS_CardinalityType DEF FirstOf
<1>3. StrictOrder(R, H)
  BY <1>1 DEF StrictOrder
<1>4. all \in Bijection(1..N, S) /\ firsts \in Bijection(1..M, H)
  BY <1>1, <1>3, ListedByRank DEF InOrder
<1>5. \A x \in H : RankOf(R, H)[x] = RankOf(R, S)[x]
  <2> SUFFICES ASSUME NEW x \in H PROVE RankOf(R, H)[x] = RankOf(R, S)[x]
    OBVIOUS
  <2>1. {y \in S : <<y, x>> \in R} = {y \in H : <<y, x>> \in R}
    <3>1. \A q \in S \ H : <<x, q>> \in R /\ <<q, x>> \notin R
      BY <1>1 DEF FirstOf, StrictOrder
    <3> QED
      BY <1>1, <3>1
  <2> QED
    BY <1>1, <2>1 DEF RankOf
<1>6. \A x, y \in S : RankOf(R, S)[x] = RankOf(R, S)[y] => x = y
  BY Ranks DEF Bijection, Injection, IsInjective
<1>7. \A x, y \in H : RankOf(R, H)[x] = RankOf(R, H)[y] => x = y
  BY <1>1, <1>5, <1>6
<1>8. /\ \A n \in 0..(N - 1) : \E x \in S : RankOf(R, S)[x] = n
      /\ \A n \in 0..(M - 1) : \E x \in H : RankOf(R, H)[x] = n
  BY <1>1, <1>3, Ranks DEF Bijection, Surjection
<1> HIDE DEF N, M
<1>9. ASSUME NEW i \in 1..M PROVE firsts[i] = all[i]
  <2>1. i \in 1..N /\ i - 1 \in 0..(N - 1) /\ i - 1 \in 0..(M - 1)
    BY <1>2
  <2>2. firsts[i] = CHOOSE x \in H : RankOf(R, H)[x] = i - 1
    BY DEF M, InOrder
  <2>3. all[i] = CHOOSE x \in S : RankOf(R, S)[x] = i - 1
    BY <2>1 DEF N, InOrder
  <2>4. firsts[i] \in H /\ RankOf(R, H)[firsts[i]] = i - 1
    BY <1>8, <2>1, <2>2
  <2>5. all[i] \in S /\ RankOf(R, S)[all[i]] = i - 1
    BY <1>8, <2>1, <2>3
  <2> QED
    BY <1>1, <1>5, <1>6, <2>4, <2>5
<1>10. all \in [1..N -> S] /\ firsts \in [1..M -> H]
  BY <1>4 DEF Bijection, Injection
<1>11. Len(all) = N /\ all \in Seq(S)
  BY <1>2, <1>10, FunctionIsList
<1>12. SubSeq(all, 1, M) = [i \in 1..M |-> all[i]]
  BY <1>2, <1>11
<1>13. firsts = [i \in 1..M |-> all[i]]
  BY <1>9, <1>10
<1> QED
  BY <1>2, <1>11, <1>12, <1>13

\* A push keeps the first of what has been seen.
LEMMA PushKeepsFirst ==
    ASSUME SimilarityTypes, NEW S \in SUBSET Pairs, FirstOf(Order, S, heap, topK),
           NEW pair \in Pairs, pair \notin S
    PROVE  FirstOf(Order, S \cup {pair}, PushTopK(pair), topK)
<1> DEFINE T == S \cup {pair}
           N == Cardinality(S)
           worst == CHOOSE p \in heap : \A q \in heap \ {p} : Better(q, p)
<1>1. IsFiniteSet(S) /\ heap \in SUBSET S /\ IsFiniteSet(heap) /\ IsFiniteSet(T)
  <2>1. IsFiniteSet(Pairs)
    BY SimilarityAssumption, FS_Product DEF Pairs
  <2>2. T \in SUBSET Pairs /\ heap \in SUBSET S
    BY DEF FirstOf
  <2> QED
    BY <2>1, <2>2, FS_Subset
<1>2. N \in Nat /\ Cardinality(heap) \in Nat /\ topK \in Nat /\ Cardinality(T) = N + 1
      /\ Cardinality(heap) = (IF topK < N THEN topK ELSE N)
  BY <1>1, FS_CardinalityType, FS_AddElement DEF FirstOf, SimilarityTypes
<1>3. StrictOrder(Order, T)
  BY OrderIsStrict
<1>4. \A p, q \in T : Better(p, q) <=> <<p, q>> \in Order
  BY DEF Order, Better, Ahead
<1>5. \A p \in heap, q \in S \ heap : <<p, q>> \in Order
  BY DEF FirstOf
<1> HIDE DEF N, T
<1>6. CASE topK = 0
  <2>1. heap = {}
    BY <1>1, <1>2, <1>6, FS_EmptySet
  <2>2. PushTopK(pair) = {}
    BY <1>6, <2>1 DEF PushTopK
  <2>3. Cardinality({}) = 0
    BY FS_EmptySet
  <2> QED
    BY <1>2, <1>6, <2>2, <2>3 DEF FirstOf, T
<1>7. CASE topK # 0 /\ Cardinality(heap) < topK
  <2>1. Cardinality(heap) = N
    BY <1>2, <1>7
  <2>2. heap = S
    BY <1>1, <2>1, FS_Subset DEF N
  <2>3. PushTopK(pair) = T
    BY <1>7, <2>2 DEF PushTopK, T
  <2>4. N + 1 <= topK
    BY <1>2, <1>7, <2>1
  <2> QED
    BY <1>2, <2>3, <2>4 DEF FirstOf, T
<1>8. CASE topK # 0 /\ ~(Cardinality(heap) < topK)
  <2>1. Cardinality(heap) = topK /\ topK < N + 1
    BY <1>2, <1>8
  <2>2. heap # {}
    BY <1>8, <2>1, FS_EmptySet
  <2>3. StrictOrder(Order, heap)
    BY <1>1, <1>3 DEF StrictOrder, T
  <2>4. \E x \in heap : \A y \in heap \ {x} : <<y, x>> \in Order
    BY <1>1, <2>2, <2>3, LastExists
  <2>5. \E x \in heap : \A y \in heap \ {x} : Better(y, x)
    BY <1>1, <1>4, <2>4 DEF T
  <2>6. worst \in heap /\ \A y \in heap \ {worst} : Better(y, worst)
    BY <2>5
  <2>7. PushTopK(pair) = IF Better(pair, worst) THEN (heap \ {worst}) \cup {pair} ELSE heap
    BY <1>8 DEF PushTopK
  <2> HIDE DEF worst
  <2>8. worst \in S /\ \A y \in heap \ {worst} : <<y, worst>> \in Order
    BY <1>1, <1>4, <2>6 DEF T
  <2>9. \A p, q, r \in T : <<p, q>> \in Order /\ <<q, r>> \in Order => <<p, r>> \in Order
    BY <1>3 DEF StrictOrder
  <2>10. CASE Better(pair, worst)
    <3> DEFINE H == (heap \ {worst}) \cup {pair}
    <3>1. PushTopK(pair) = H
      BY <2>7, <2>10
    <3>2. <<pair, worst>> \in Order
      BY <1>4, <2>8, <2>10 DEF T
    <3>3. IsFiniteSet(heap \ {worst}) /\ Cardinality(heap \ {worst}) = topK - 1
      BY <1>1, <2>1, <2>6, FS_RemoveElement
    <3>4. pair \notin heap \ {worst}
      BY <1>1
    <3>5. Cardinality(H) = topK
      BY <1>2, <3>3, <3>4, FS_AddElement
    <3>6. H \subseteq T
      BY <1>1 DEF T
    <3>7. ASSUME NEW p \in H, NEW q \in T \ H PROVE <<p, q>> \in Order
      <4>1. q = worst \/ q \in S \ heap
        BY DEF T
      <4>2. p = pair \/ p \in heap \ {worst}
        OBVIOUS
      <4>3. CASE p = pair /\ q \in S \ heap
        BY <1>5, <2>6, <2>8, <2>9, <3>2, <4>3 DEF T
      <4> QED
        BY <1>5, <2>8, <3>2, <4>1, <4>2, <4>3
    <3> HIDE DEF H
    <3> QED
      BY <1>2, <2>1, <3>1, <3>5, <3>6, <3>7 DEF FirstOf, T
  <2>11. CASE ~Better(pair, worst)
    <3>1. PushTopK(pair) = heap
      BY <2>7, <2>11
    <3>2. <<worst, pair>> \in Order
      <4>1. <<pair, worst>> \notin Order /\ pair # worst
        BY <1>4, <2>8, <2>11 DEF T
      <4> QED
        BY <1>3, <2>8, <4>1 DEF StrictOrder, T
    <3>3. ASSUME NEW p \in heap, NEW q \in T \ heap PROVE <<p, q>> \in Order
      <4>1. CASE q = pair
        BY <1>1, <2>8, <2>9, <3>2, <4>1 DEF T
      <4>2. CASE q # pair
        BY <1>5, <4>2 DEF T
      <4> QED
        BY <4>1, <4>2
    <3> QED
      BY <1>1, <1>2, <2>1, <3>1, <3>3 DEF FirstOf, T
  <2> QED
    BY <2>10, <2>11
<1> QED
  BY <1>6, <1>7, <1>8 DEF T

-----------------------------------------------------------------------------
\* The pairs that are compared.
ToCompare == IF Positive THEN SharingPairs ELSE AllPairs

\* What has been compared and scored high enough.
Seen == {p \in ToCompare \ remaining : ~Less(Score(p), minScore)}

\* The heap holds the first of the pairs seen so far, and the result lists them.
SimilarityInv ==
    /\ SimilarityTypes
    /\ remaining \subseteq ToCompare
    /\ FirstOf(Order, Seen, heap, topK)
    /\ best # NoPairs => remaining = {} /\ best = InOrder(Order, heap)

\* They are pairs of items.
LEMMA ToComparePairs == ToCompare \subseteq Pairs
  BY DEF ToCompare, SharingPairs, AllPairs, Pairs

\* The listing of the model is the listing by rank.
LEMMA ListedInOrder ==
    ASSUME NEW S \in SUBSET Pairs
    PROVE  Listed(S, Ahead) = InOrder(Order, S)
<1>1. ASSUME NEW x \in S PROVE RankOf(Order, S)[x] = Cardinality({y \in S : Ahead(y, x)})
  <2>1. {y \in S : <<y, x>> \in Order} = {y \in S : Ahead(y, x)}
    BY DEF Order
  <2> QED
    BY <2>1 DEF RankOf
<1> QED
  BY <1>1 DEF Listed, InOrder

\* A request has a heap of nothing, of which it has seen nothing.
LEMMA SimilarityBegins == SimilarityInit => SimilarityInv
<1> SUFFICES ASSUME SimilarityInit PROVE SimilarityInv
  OBVIOUS
<1>1. SimilarityTypes
  BY SimilarityAssumption DEF SimilarityInit, SimilarityTypes, Fractions
<1>2. remaining = ToCompare
  BY DEF SimilarityInit, ToCompare
<1>3. Seen = {} /\ heap = {}
  BY <1>2 DEF Seen, SimilarityInit
<1>4. FirstOf(Order, Seen, heap, topK)
  BY <1>1, <1>3, FS_EmptySet DEF FirstOf, SimilarityTypes
<1> QED
  BY <1>1, <1>2, <1>4 DEF SimilarityInv, SimilarityInit

\* Comparing a pair keeps the heap right, and ranking lists it.
LEMMA SimilarityKept == SimilarityInv /\ [SimilarityNext]_similarityVars => SimilarityInv'
<1> SUFFICES ASSUME SimilarityInv, [SimilarityNext]_similarityVars PROVE SimilarityInv'
  OBVIOUS
<1>1. UNCHANGED <<tokensOf, topK, minScore, includeSelf>>
  BY DEF SimilarityNext, Compare, Rank, similarityVars
<1>2. /\ SimilarityTypes'
      /\ Order' = Order /\ ToCompare' = ToCompare
      /\ \A p : Score(p)' = Score(p)
  <2>1. \A i, j : JaccardSimilarity(i, j)' = JaccardSimilarity(i, j)
    BY <1>1 DEF JaccardSimilarity
  <2>2. \A p : Score(p)' = Score(p)
    BY <2>1 DEF Score
  <2>3. \A p, q : Ahead(p, q)' = Ahead(p, q)
    BY <2>2 DEF Ahead
  <2>4. Order' = Order
    BY <2>3 DEF Order
  <2>5. ToCompare' = ToCompare
    BY <1>1 DEF ToCompare, Positive, SharingPairs, AllPairs
  <2>6. SimilarityTypes'
    BY <1>1 DEF SimilarityInv, SimilarityTypes
  <2> QED
    BY <2>2, <2>4, <2>5, <2>6
<1>3. CASE Compare
  <2>1. PICK pair \in remaining :
          /\ remaining' = remaining \ {pair}
          /\ heap' = IF Less(Score(pair), minScore) THEN heap ELSE PushTopK(pair)
          /\ best' = best
    BY <1>3 DEF Compare
  <2>2. pair \in ToCompare /\ pair \in Pairs
    BY ToComparePairs DEF SimilarityInv
  <2>3. Seen' = {p \in ToCompare \ (remaining \ {pair}) : ~Less(Score(p), minScore)}
    BY <1>1, <1>2, <2>1 DEF Seen
  <2>4. CASE Less(Score(pair), minScore)
    <3>1. Seen' = Seen /\ heap' = heap
      BY <2>1, <2>3, <2>4 DEF Seen
    <3>2. FirstOf(Order, Seen, heap, topK)'
      BY <1>1, <1>2, <3>1 DEF SimilarityInv, FirstOf
    <3> QED
      BY <1>2, <2>1, <3>2 DEF SimilarityInv
  <2>5. CASE ~Less(Score(pair), minScore)
    <3>1. Seen' = Seen \cup {pair}
      BY <2>2, <2>3, <2>5 DEF Seen
    <3>2. heap' = PushTopK(pair)
      BY <2>1, <2>5
    <3>3. pair \notin Seen /\ Seen \in SUBSET Pairs
      BY ToComparePairs DEF Seen
    <3>4. FirstOf(Order, Seen \cup {pair}, PushTopK(pair), topK)
      BY <2>2, <3>3, PushKeepsFirst DEF SimilarityInv
    <3>5. FirstOf(Order, Seen, heap, topK)'
      BY <1>1, <1>2, <3>1, <3>2, <3>4 DEF FirstOf
    <3> QED
      BY <1>2, <2>1, <3>5 DEF SimilarityInv
  <2> QED
    BY <2>4, <2>5
<1>4. CASE Rank \/ UNCHANGED similarityVars
  <2>1. heap \in SUBSET Pairs
    BY ToComparePairs DEF SimilarityInv, FirstOf, Seen
  <2>2. /\ remaining' = remaining /\ heap' = heap
        /\ best' = best \/ (remaining = {} /\ best' = InOrder(Order, heap))
    BY <1>4, <2>1, ListedInOrder DEF Rank, similarityVars
  <2>3. Seen' = Seen
    BY <1>1, <1>2, <2>2 DEF Seen
  <2>4. FirstOf(Order, Seen, heap, topK)'
    BY <1>1, <1>2, <2>2, <2>3 DEF SimilarityInv, FirstOf
  <2>5. InOrder(Order, heap)' = InOrder(Order, heap)
    BY <1>2, <2>2 DEF InOrder, RankOf
  <2> QED
    BY <1>2, <2>2, <2>4, <2>5 DEF SimilarityInv
<1> QED
  BY <1>3, <1>4 DEF SimilarityNext

\* What is left out with the inverted index, or without it, could not have been
\* listed: the bounded result is the dense one.
LEMMA RankedIsDense ==
    ASSUME SimilarityInv
    PROVE  BoundedIsExact
<1> SUFFICES ASSUME best # NoPairs
             PROVE  best = Dense({p \in AllPairs :
                      Positive /\ p[1] # p[2] => tokensOf[p[1]] \cup tokensOf[p[2]] # {}})
  BY DEF BoundedIsExact
<1> DEFINE sets == {p \in AllPairs :
                      Positive /\ p[1] # p[2] => tokensOf[p[1]] \cup tokensOf[p[2]] # {}}
           S == {p \in sets : ~Less(Score(p), minScore)}
           all == Listed(S, Ahead)
<1>1. S = Seen
  <2>1. Seen = {p \in ToCompare : ~Less(Score(p), minScore)}
    BY DEF Seen, SimilarityInv
  <2>2. CASE ~Positive
    BY <2>1, <2>2 DEF ToCompare
  <2>3. CASE Positive
    <3>1. SharingPairs \subseteq sets
      BY DEF SharingPairs
    <3>2. ASSUME NEW p \in sets, p \notin SharingPairs PROVE Less(Score(p), minScore)
      <4>1. p \in AllPairs /\ p[1] # p[2] /\ tokensOf[p[1]] \cap tokensOf[p[2]] = {}
            /\ tokensOf[p[1]] \cup tokensOf[p[2]] # {}
        BY <2>3, <3>2 DEF SharingPairs
      <4>2. Score(p) = <<Cardinality(tokensOf[p[1]] \cap tokensOf[p[2]]),
                         Cardinality(tokensOf[p[1]] \cup tokensOf[p[2]])>>
        BY <4>1 DEF Score, JaccardSimilarity
      <4>3. Cardinality(tokensOf[p[1]] \cap tokensOf[p[2]]) = 0
        BY <4>1, FS_EmptySet
      <4>4. Score(p) \in Fractions
        BY <4>1, ScoreType DEF AllPairs, Pairs, SimilarityInv
      <4>5. PICK n \in Nat \ {0} : Score(p) = <<0, n>>
        BY <4>2, <4>3, <4>4 DEF Fractions
      <4>6. PICK m \in Nat, d \in Nat \ {0} : minScore = <<m, d>>
        BY DEF SimilarityInv, SimilarityTypes, Fractions
      <4>7. m # 0
        BY <2>3, <4>6 DEF Positive, Less
      <4>8. 0 * d < m * n
        BY <4>7
      <4> QED
        BY <4>5, <4>6, <4>8 DEF Less
    <3> QED
      BY <2>1, <2>3, <3>1, <3>2 DEF ToCompare
  <2> QED
    BY <2>2, <2>3
<1>2. best = InOrder(Order, heap)
  BY DEF SimilarityInv
<1>3. FirstOf(Order, S, heap, topK) /\ topK \in Nat
  BY <1>1 DEF SimilarityInv, SimilarityTypes
<1>4. S \in SUBSET Pairs /\ IsFiniteSet(S) /\ heap \in SUBSET S
  <2>1. S \in SUBSET Pairs
    BY DEF AllPairs, Pairs
  <2>2. IsFiniteSet(Pairs)
    BY SimilarityAssumption, FS_Product DEF Pairs
  <2> HIDE DEF S
  <2> QED
    BY <1>3, <2>1, <2>2, FS_Subset DEF FirstOf
<1>5. StrictOrder(Order, S)
  BY <1>4, OrderIsStrict DEF SimilarityInv
<1> HIDE DEF S
<1>6. all = InOrder(Order, S)
  BY <1>4, ListedInOrder
<1>7. best = SubSeq(all, 1, IF topK < Len(all) THEN topK ELSE Len(all))
  BY <1>2, <1>3, <1>4, <1>5, <1>6, FirstsListed
<1> QED
  BY <1>7 DEF Dense, S

\* The bounded computation of the most similar pairs (_pairwise_topk_jaccard) gives
\* exactly the pairs that ranking the whole matrix would, in the same order.
THEOREM BoundedTopK == SimilaritySpec => []BoundedIsExact
<1>1. SimilaritySpec => []SimilarityInv
  BY SimilarityBegins, SimilarityKept, PTL DEF SimilaritySpec
<1>2. SimilarityInv => BoundedIsExact
  BY RankedIsDense
<1> QED
  BY <1>1, <1>2, PTL

-----------------------------------------------------------------------------
(* Reliability *)

\* Every coder labels every unit, with labels of K only.
Labelled(data, K) ==
    /\ data \in [Units -> [Coders -> K]]
    /\ K \in SUBSET Categories

\* The sums that the two statistics are made of.
Labels(data, u, K) == SumFunction([k \in K |-> Count(data, u, k)])
Squares(data, u, K) == SumFunction([k \in K |-> Count(data, u, k) * Count(data, u, k)])
AllSquares(data, K) == SumFunction([u \in Units |-> Squares(data, u, K)])
TotalSquares(data, K) == SumFunction([k \in K |-> Total(data, Units, k) * Total(data, Units, k)])

Raters == Cardinality(Coders)
UnitsInAll == Cardinality(Units)

\* What is finite.
LEMMA FiniteParts ==
    /\ IsFiniteSet(Units) /\ IsFiniteSet(Coders)
    /\ \A K \in SUBSET Categories : IsFiniteSet(K)
    /\ Raters \in Nat \ {0} /\ UnitsInAll \in Nat \ {0}
<1>1. IsFiniteSet(Units) /\ IsFiniteSet(Coders) /\ IsFiniteSet(Categories)
      /\ Units # {} /\ Coders # {}
  BY ReliabilityAssumption
<1>2. \A K \in SUBSET Categories : IsFiniteSet(K)
  BY <1>1, FS_Subset
<1>3. Raters \in Nat \ {0} /\ UnitsInAll \in Nat \ {0}
  BY <1>1, FS_CardinalityType, FS_EmptySet DEF Raters, UnitsInAll
<1> QED
  BY <1>1, <1>2, <1>3

\* A count is a natural.
LEMMA CountType ==
    ASSUME NEW data, NEW u, NEW k
    PROVE  Count(data, u, k) \in Nat
<1>1. {c \in Coders : data[u][c] = k} \in SUBSET Coders
  OBVIOUS
<1> QED
  BY <1>1, FiniteParts, FS_Subset, FS_CardinalityType DEF Count

\* So is a total.
LEMMA TotalType ==
    ASSUME NEW data, NEW k
    PROVE  /\ [u \in Units |-> Count(data, u, k)] \in [Units -> Nat]
           /\ Total(data, Units, k) \in Nat
<1> DEFINE f == [u \in Units |-> Count(data, u, k)]
<1>1. f \in [Units -> Nat]
  BY CountType
<1>2. SumFunction(f) \in Nat
  <2> HIDE DEF f
  <2> QED
    BY <1>1, FiniteParts, SumType
<1> QED
  BY <1>1, <1>2 DEF Total

\* Types of the sums.
LEMMA SquaresType ==
    ASSUME NEW data, NEW K, Labelled(data, K)
    PROVE  /\ \A u \in Units : Squares(data, u, K) \in Nat
           /\ AllSquares(data, K) \in Nat
           /\ TotalSquares(data, K) \in Nat
<1>0. IsFiniteSet(K) /\ IsFiniteSet(Units)
  BY FiniteParts DEF Labelled
<1>1. ASSUME NEW u \in Units PROVE Squares(data, u, K) \in Nat
  <2> DEFINE f == [k \in K |-> Count(data, u, k) * Count(data, u, k)]
  <2>1. f \in [K -> Nat]
    BY CountType
  <2>2. SumFunction(f) \in Nat
    <3> HIDE DEF f
    <3> QED
      BY <1>0, <2>1, SumType
  <2> QED
    BY <2>2 DEF Squares
<1>2. AllSquares(data, K) \in Nat
  <2> DEFINE f == [u \in Units |-> Squares(data, u, K)]
  <2>1. f \in [Units -> Nat]
    BY <1>1
  <2>2. SumFunction(f) \in Nat
    <3> HIDE DEF f
    <3> QED
      BY <1>0, <2>1, SumType
  <2> QED
    BY <2>2 DEF AllSquares
<1>3. TotalSquares(data, K) \in Nat
  <2> DEFINE f == [k \in K |-> Total(data, Units, k) * Total(data, Units, k)]
  <2>1. f \in [K -> Nat]
    BY TotalType
  <2>2. SumFunction(f) \in Nat
    <3> HIDE DEF f
    <3> QED
      BY <1>0, <2>1, SumType
  <2> QED
    BY <2>2 DEF TotalSquares
<1> QED
  BY <1>1, <1>2, <1>3

\* The categories that are used.
UsedCategories(data) == {k \in Categories : \E u \in Units : Count(data, u, k) > 0}

Full(data) == data \in [Units -> [Coders -> Categories]]

\* Without a gap in the data every unit has all ratings, in categories that are used.
LEMMA FullIsLabelled ==
    ASSUME NEW data, Full(data)
    PROVE  /\ Labelled(data, UsedCategories(data))
           /\ \A u \in Units : Ratings(data, u) = Coders
<1>1. ASSUME NEW u \in Units, NEW c \in Coders PROVE data[u][c] \in UsedCategories(data)
  <2> DEFINE k == data[u][c]
             S == {b \in Coders : data[u][b] = k}
  <2>1. k \in Categories /\ c \in S /\ S \in SUBSET Coders
    BY DEF Full
  <2> HIDE DEF k
  <2>2. IsFiniteSet(S)
    BY <2>1, FiniteParts, FS_Subset
  <2> HIDE DEF S
  <2>3. Cardinality(S) \in Nat /\ Cardinality(S) # 0
    BY <2>1, <2>2, FS_CardinalityType, FS_EmptySet
  <2>4. Count(data, u, k) > 0
    BY <2>3 DEF S, Count
  <2>5. k \in UsedCategories(data)
    BY <2>1, <2>4 DEF UsedCategories
  <2> QED
    BY <2>5 DEF k
<1>2. data \in [Units -> [Coders -> UsedCategories(data)]]
  BY <1>1 DEF Full
<1>3. \A u \in Units : Ratings(data, u) = Coders
  BY ReliabilityAssumption DEF Full, Ratings
<1> QED
  BY <1>2, <1>3 DEF Labelled, UsedCategories

\* What is not used counts for nothing.
LEMMA UnusedIsZero ==
    ASSUME NEW data, NEW k \in Categories \ UsedCategories(data)
    PROVE  /\ \A u \in Units : Count(data, u, k) = 0
           /\ Total(data, Units, k) = 0
<1>1. \A u \in Units : Count(data, u, k) = 0
  <2>1. \A u \in Units : Count(data, u, k) \in Nat /\ ~(Count(data, u, k) > 0)
    BY CountType DEF UsedCategories
  <2> QED
    BY <2>1
<1>2. [u \in Units |-> Count(data, u, k)] = [u \in Units |-> 0]
  BY <1>1
<1>3. \A c \in Int : SumFunction([u \in Units |-> c]) = c * Cardinality(Units)
  BY FiniteParts, SumConstant
<1>4. 0 \in Int /\ UnitsInAll \in Nat
  BY FiniteParts
<1>5. SumFunction([u \in Units |-> 0]) = 0 * UnitsInAll
  BY <1>3, <1>4, Zenon DEF UnitsInAll
<1>6. Total(data, Units, k) = 0
  BY <1>2, <1>4, <1>5 DEF Total
<1> QED
  BY <1>1, <1>6

\* Fleiss' kappa of full data, if it is defined.
LEMMA FleissOfFull ==
    ASSUME NEW data, Full(data), FleissKappa(data) # Undefined
    PROVE  /\ Raters >= 3 /\ UnitsInAll >= 2
           /\ FleissKappa(data) =
                 Corrected((AllSquares(data, UsedCategories(data)) - Raters * UnitsInAll) * UnitsInAll * Raters,
                           TotalSquares(data, UsedCategories(data)) * (Raters - 1),
                           UnitsInAll * UnitsInAll * Raters * Raters * (Raters - 1))
<1> DEFINE K == UsedCategories(data)
           rated == {u \in Units : Cardinality(Ratings(data, u)) >= 2}
           Like(u) == {v \in rated : Cardinality(Ratings(data, v)) = Cardinality(Ratings(data, u))}
           modal == {u \in rated : \A v \in rated : Cardinality(Like(u)) >= Cardinality(Like(v))}
           n == ModalRaters(data)
           included == {u \in Units : Cardinality(Ratings(data, u)) = n}
           square(k) == Total(data, included, k) * Total(data, included, k)
           agreeing == SumFunction([u \in included |->
                           SumFunction([k \in Categories |-> Count(data, u, k) * Count(data, u, k)]) - n])
           expected == SumFunction([k \in Categories |-> square(k)])
<1>1. \A u \in Units : Cardinality(Ratings(data, u)) = Raters
  BY FullIsLabelled DEF Raters
<1>2. Raters \in Nat /\ UnitsInAll \in Nat /\ Units # {} /\ Units \in SUBSET Nat
  BY FiniteParts, ReliabilityAssumption DEF UnitsInAll
<1>3. n = IF rated = {} THEN 0 ELSE Cardinality(Ratings(data, Min(modal)))
  BY DEF ModalRaters
<1>4. FleissKappa(data) =
          IF n < 3 \/ Cardinality(included) < 2 THEN Undefined
          ELSE Corrected(agreeing * Cardinality(included) * n, expected * (n - 1),
                         Cardinality(included) * Cardinality(included) * n * n * (n - 1))
  BY DEF FleissKappa
<1>5. ~(n < 3) /\ ~(Cardinality(included) < 2)
  BY <1>4
<1>6. rated = Units
  <2>1. rated # {}
    BY <1>3, <1>5
  <2> QED
    BY <1>1, <1>2, <2>1
<1>7. modal = Units
  <2>1. \A u \in Units : Like(u) = Units
    BY <1>1, <1>6
  <2>2. \A u, v \in Units : Cardinality(Like(u)) >= Cardinality(Like(v))
    BY <1>2, <2>1 DEF UnitsInAll
  <2> HIDE DEF Like
  <2> QED
    BY <1>6, <2>2
<1>8. n = Raters
  <2>1. \E x \in Units : \A y \in Units : x <= y
    BY <1>2, LeastNatural
  <2>2. Min(Units) \in Units
    BY <2>1 DEF Min
  <2>3. n = Cardinality(Ratings(data, Min(Units)))
    <3> HIDE DEF modal, rated
    <3> QED
      BY <1>2, <1>3, <1>6, <1>7
  <2> QED
    BY <1>1, <2>2, <2>3
<1> HIDE DEF n
<1>9. included = Units
  BY <1>1, <1>8
<1>10. IsFiniteSet(K) /\ Labelled(data, K) /\ K \in SUBSET Categories /\ IsFiniteSet(Categories)
       /\ IsFiniteSet(Units)
  BY FiniteParts, FullIsLabelled DEF UsedCategories
<1>11. ASSUME NEW u \in Units
       PROVE  SumFunction([k \in Categories |-> Count(data, u, k) * Count(data, u, k)])
                  = Squares(data, u, K)
  <2> DEFINE f == [k \in Categories |-> Count(data, u, k) * Count(data, u, k)]
             h == [k \in K |-> Count(data, u, k) * Count(data, u, k)]
  <2>1. f \in [Categories -> Int] /\ h \in [K -> Int]
    <3>1. \A k : Count(data, u, k) * Count(data, u, k) \in Int
      BY CountType
    <3> QED
      BY <3>1
  <2>2. \A k \in Categories \ K : f[k] = 0
    BY UnusedIsZero
  <2>3. \A k \in K : h[k] = f[k]
    BY <1>10
  <2>4. SumFunction(h) = SumFunction(f)
    <3> HIDE DEF f, h, K
    <3> QED
      BY <1>10, <2>1, <2>2, <2>3, SumSupport
  <2> QED
    BY <2>4 DEF Squares
<1>12. expected = TotalSquares(data, K)
  <2> DEFINE f == [k \in Categories |-> Total(data, Units, k) * Total(data, Units, k)]
             h == [k \in K |-> Total(data, Units, k) * Total(data, Units, k)]
  <2>1. f \in [Categories -> Int] /\ h \in [K -> Int]
    <3>1. \A k : Total(data, Units, k) * Total(data, Units, k) \in Int
      <4>1. \A k : Total(data, Units, k) \in Nat
        BY TotalType
      <4> QED
        BY <4>1
    <3> QED
      BY <3>1
  <2>2. \A k \in Categories \ K : f[k] = 0
    BY UnusedIsZero
  <2>3. \A k \in K : h[k] = f[k]
    BY <1>10
  <2>4. SumFunction(h) = SumFunction(f)
    <3> HIDE DEF f, h, K
    <3> QED
      BY <1>10, <2>1, <2>2, <2>3, SumSupport
  <2>5. expected = SumFunction(f)
    <3> HIDE DEF included
    <3> QED
      BY <1>9
  <2> QED
    BY <2>4, <2>5 DEF TotalSquares
<1>13. agreeing = AllSquares(data, K) - Raters * UnitsInAll
  <2> DEFINE f == [u \in Units |-> Squares(data, u, K)]
             b == -Raters
  <2>1. f \in [Units -> Int] /\ b \in Int /\ 1 \in Int
    <3>1. \A u \in Units : Squares(data, u, K) \in Nat
      BY <1>10, SquaresType
    <3> QED
      BY <1>2, <3>1
  <2>2. \A a \in Int : SumFunction([u \in Units |-> a * f[u] + b]) = a * SumFunction(f) + b * UnitsInAll
    <3> HIDE DEF f, b
    <3> QED
      BY <1>10, <2>1, SumLinear DEF UnitsInAll
  <2>3. SumFunction([u \in Units |-> 1 * f[u] + b]) = 1 * SumFunction(f) + b * UnitsInAll
    <3> HIDE DEF f, b
    <3> QED
      BY <2>1, <2>2, Zenon
  <2>4. [u \in Units |-> 1 * f[u] + b]
            = [u \in Units |->
                  SumFunction([k \in Categories |-> Count(data, u, k) * Count(data, u, k)]) - Raters]
    <3>1. ASSUME NEW u \in Units
          PROVE  1 * f[u] + b
              = SumFunction([k \in Categories |-> Count(data, u, k) * Count(data, u, k)]) - Raters
      <4>1. f[u] = SumFunction([k \in Categories |-> Count(data, u, k) * Count(data, u, k)])
        BY <1>11
      <4>2. f[u] \in Int
        BY <2>1
      <4> HIDE DEF f
      <4> QED
        BY <1>2, <4>1, <4>2
    <3> HIDE DEF f, b
    <3> QED
      BY <3>1
  <2>5. agreeing = SumFunction([u \in Units |-> 1 * f[u] + b])
    <3> HIDE DEF included, f, b
    <3> QED
      BY <1>8, <1>9, <2>4
  <2>6. SumFunction(f) = AllSquares(data, K) /\ AllSquares(data, K) \in Int
    BY <1>10, SquaresType DEF AllSquares
  <2>7. \A s, r, m \in Int : 1 * s + (-r) * m = s - r * m
    OBVIOUS
  <2> HIDE DEF agreeing, f
  <2> QED
    BY <1>2, <2>3, <2>5, <2>6, <2>7
<1> HIDE DEF agreeing, expected, included, K
<1>14. Cardinality(included) = UnitsInAll
  BY <1>9 DEF UnitsInAll
<1>15. Raters >= 3 /\ UnitsInAll >= 2
  BY <1>2, <1>5, <1>8, <1>14
<1>16. FleissKappa(data) =
           Corrected((AllSquares(data, K) - Raters * UnitsInAll) * UnitsInAll * Raters,
                     TotalSquares(data, K) * (Raters - 1),
                     UnitsInAll * UnitsInAll * Raters * Raters * (Raters - 1))
  BY <1>4, <1>5, <1>8, <1>12, <1>13, <1>14
<1> QED
  BY <1>15, <1>16 DEF K

\* The weight of a pair is the scale over the other raters.
LEMMA WeightIs ==
    ASSUME Raters >= 2
    PROVE  Weight(Raters) \in Int /\ Weight(Raters) * (Raters - 1) = Scale
<1> DEFINE m == Raters - 1
<1>1. m \in Nat \ {0} /\ Scale \in Nat /\ Scale % m = 0
  <2>1. Raters \in Nat
    BY FiniteParts
  <2>2. Scale \in Nat /\ \A i \in 1..(Raters - 1) : Scale % i = 0
    BY ReliabilityAssumption DEF Raters
  <2> QED
    BY <2>1, <2>2
<1>2. Weight(Raters) = Scale \div m
  BY DEF Weight
<1> HIDE DEF m
<1>3. Scale \div m \in Int /\ Scale = m * (Scale \div m) + (Scale % m)
  BY <1>1, DivMod
<1>4. \A q \in Int : Scale = m * q + 0 => q * m = Scale
  BY <1>1
<1>5. Weight(Raters) \in Int /\ Weight(Raters) * m = Scale
  BY <1>1, <1>2, <1>3, <1>4
<1> QED
  BY <1>5 DEF m

\* The disagreement that chance explains, in the coincidence matrix.
Chance(data) ==
    Scale * Scale * (Raters * UnitsInAll * (Raters * UnitsInAll) - TotalSquares(data, UsedCategories(data)))

Disagreed(data) == Weight(Raters) * (Raters * Raters * UnitsInAll - AllSquares(data, UsedCategories(data)))

-----------------------------------------------------------------------------
(* Alpha, whichever ratings are missing *)

\* Some coders may not have labelled some units.
Gaps(data) == data \in [Units -> [Coders -> Categories \cup {Missing}]]

\* The number of ratings of a unit, the units with at least two, and the ordered
\* pairs of coders who differ over a unit.
SizeOf(data, u) == Cardinality(Ratings(data, u))
Pairable(data) == {u \in Units : SizeOf(data, u) >= 2}
Differing(data, u) ==
    {p \in Ratings(data, u) \X Ratings(data, u) : data[u][p[1]] # data[u][p[2]]}

\* The weight of a unit's pairs.
WeightOf(data, u) == Weight(SizeOf(data, u))

\* What is finite when ratings are missing.
LEMMA FiniteRatings ==
    ASSUME NEW data, NEW u \in Units
    PROVE  /\ IsFiniteSet(Ratings(data, u)) /\ SizeOf(data, u) \in Nat
           /\ SizeOf(data, u) <= Raters
<1>1. Ratings(data, u) \in SUBSET Coders
  BY DEF Ratings
<1> QED
  BY <1>1, FiniteParts, FS_Subset, FS_CardinalityType DEF SizeOf, Raters

\* A label that is there is of a category that is used.
LEMMA RatedIsUsed ==
    ASSUME NEW data, Gaps(data), NEW u \in Units, NEW c \in Ratings(data, u)
    PROVE  c \in Coders /\ data[u][c] \in UsedCategories(data)
<1> DEFINE k == data[u][c]
           S == {b \in Coders : data[u][b] = k}
<1>1. k \in Categories /\ c \in S /\ S \in SUBSET Coders
  BY DEF Gaps, Ratings
<1> HIDE DEF k
<1>2. IsFiniteSet(S)
  BY <1>1, FiniteParts, FS_Subset
<1>3. c \in Coders
  BY <1>1
<1> HIDE DEF S
<1>4. Cardinality(S) \in Nat /\ Cardinality(S) # 0
  BY <1>1, <1>2, FS_CardinalityType, FS_EmptySet
<1>5. Count(data, u, k) > 0
  BY <1>4 DEF S, Count
<1>6. k \in UsedCategories(data)
  BY <1>1, <1>5 DEF UsedCategories
<1> QED
  BY <1>3, <1>6 DEF k

\* The labels of a unit, counted by category.
LEMMA LabelsOfRatings ==
    ASSUME NEW data, Gaps(data), NEW u \in Units
    PROVE  Labels(data, u, UsedCategories(data)) = SizeOf(data, u)
<1> DEFINE K == UsedCategories(data)
           R == Ratings(data, u)
           v == [c \in R |-> data[u][c]]
<1>1. v \in [R -> K] /\ IsFiniteSet(K) /\ IsFiniteSet(R)
  <2>1. K \in SUBSET Categories
    BY DEF UsedCategories
  <2> QED
    BY <2>1, RatedIsUsed, FiniteParts, FiniteRatings
<1>2. SumFunction([k \in K |-> Cardinality({x \in R : v[x] = k})]) = Cardinality(R)
  <2> HIDE DEF v, R, K
  <2> QED
    BY <1>1, SumClasses
<1>3. ASSUME NEW k \in K PROVE Cardinality({x \in R : v[x] = k}) = Count(data, u, k)
  <2>1. k # Missing
    BY ReliabilityAssumption DEF UsedCategories
  <2>2. {x \in R : v[x] = k} = {c \in Coders : data[u][c] = k}
    BY <2>1 DEF Ratings
  <2> QED
    BY <2>2 DEF Count
<1>4. [k \in K |-> Cardinality({x \in R : v[x] = k})] = [k \in K |-> Count(data, u, k)]
  <2> HIDE DEF v, R, K
  <2> QED
    BY <1>3
<1> QED
  BY <1>2, <1>4 DEF Labels, SizeOf

\* The squares of the counts of a unit are a natural.
LEMMA SquaresNatural ==
    ASSUME NEW data, NEW u
    PROVE  Squares(data, u, UsedCategories(data)) \in Nat
<1> DEFINE K == UsedCategories(data)
           f == [k \in K |-> Count(data, u, k) * Count(data, u, k)]
<1>1. IsFiniteSet(K)
  BY FiniteParts DEF UsedCategories
<1>2. f \in [K -> Nat]
  BY CountType
<1>3. SumFunction(f) \in Nat
  <2> HIDE DEF f, K
  <2> QED
    BY <1>1, <1>2, SumType
<1> QED
  BY <1>3 DEF Squares

\* The pairs of coders who differ are all pairs without those who agree, who agree
\* on one category.
LEMMA DifferingIs ==
    ASSUME NEW data, Gaps(data), NEW u \in Units
    PROVE  Cardinality(Differing(data, u))
               = SizeOf(data, u) * SizeOf(data, u) - Squares(data, u, UsedCategories(data))
<1> DEFINE K == UsedCategories(data)
           R == Ratings(data, u)
           alike == {p \in R \X R : data[u][p[1]] = data[u][p[2]]}
           v == [p \in alike |-> data[u][p[1]]]
           Of(k) == {c \in Coders : data[u][c] = k}
<1>1. IsFiniteSet(R) /\ IsFiniteSet(K) /\ IsFiniteSet(Coders)
  BY FiniteRatings, FiniteParts DEF UsedCategories
<1>2. IsFiniteSet(R \X R) /\ Cardinality(R \X R) = Cardinality(R) * Cardinality(R)
  BY <1>1, FS_Product
<1>3. IsFiniteSet(alike) /\ alike \in SUBSET (R \X R)
  <2>1. alike \in SUBSET (R \X R)
    OBVIOUS
  <2> HIDE DEF alike
  <2> QED
    BY <1>2, <2>1, FS_Subset
<1>4. v \in [alike -> K]
  <2>1. \A p \in alike : p[1] \in R
    OBVIOUS
  <2> HIDE DEF alike
  <2> QED
    BY <2>1, RatedIsUsed
<1>5. SumFunction([k \in K |-> Cardinality({p \in alike : v[p] = k})]) = Cardinality(alike)
  <2> HIDE DEF v, alike, K
  <2> QED
    BY <1>1, <1>3, <1>4, SumClasses
<1>6. ASSUME NEW k \in K
      PROVE  Cardinality({p \in alike : v[p] = k}) = Count(data, u, k) * Count(data, u, k)
  <2>1. k # Missing
    BY ReliabilityAssumption DEF UsedCategories
  <2>2. Of(k) \in SUBSET Coders /\ Of(k) \in SUBSET R
    BY <2>1 DEF Ratings
  <2>3. {p \in alike : v[p] = k} = Of(k) \X Of(k)
    <3>1. \A p \in R \X R : data[u][p[1]] = data[u][p[2]] /\ data[u][p[1]] = k
                               <=> p[1] \in Of(k) /\ p[2] \in Of(k)
      <4>1. \A c \in R : c \in Coders
        BY DEF Ratings
      <4> HIDE DEF R
      <4> QED
        BY <4>1
    <3>2. {p \in alike : v[p] = k}
              = {p \in R \X R : data[u][p[1]] = data[u][p[2]] /\ data[u][p[1]] = k}
      <4> HIDE DEF R
      <4> QED
        OBVIOUS
    <3>3. \A p : p \in Of(k) \X Of(k) <=> p \in R \X R /\ p[1] \in Of(k) /\ p[2] \in Of(k)
      <4> HIDE DEF R, Of
      <4> QED
        BY <2>2
    <3> HIDE DEF R, Of, alike, v
    <3> QED
      BY <3>1, <3>2, <3>3
  <2>4. IsFiniteSet(Of(k))
    BY <1>1, <2>2, FS_Subset
  <2> HIDE DEF Of
  <2>5. Cardinality(Of(k) \X Of(k)) = Cardinality(Of(k)) * Cardinality(Of(k))
    BY <2>4, FS_Product
  <2> QED
    BY <2>3, <2>5 DEF Of, Count
<1>7. [k \in K |-> Cardinality({p \in alike : v[p] = k})]
          = [k \in K |-> Count(data, u, k) * Count(data, u, k)]
  <2> HIDE DEF v, alike, K
  <2> QED
    BY <1>6
<1>8. Cardinality(alike) = Squares(data, u, K)
  <2> HIDE DEF v, alike, K
  <2> QED
    BY <1>5, <1>7 DEF Squares
<1>9. Differing(data, u) = (R \X R) \ alike
  BY DEF Differing
<1>10. (R \X R) \cap alike = alike
  OBVIOUS
<1> HIDE DEF alike, R
<1>11. Cardinality((R \X R) \ alike) = Cardinality(R \X R) - Cardinality(alike)
  <2> DEFINE pairs == R \X R
  <2>1. IsFiniteSet(pairs) /\ pairs \cap alike = alike
    BY <1>2, <1>10
  <2> HIDE DEF pairs
  <2>2. Cardinality(pairs \ alike) = Cardinality(pairs) - Cardinality(alike)
    BY <2>1, FS_Difference
  <2> QED
    BY <2>2 DEF pairs
<1> QED
  BY <1>2, <1>8, <1>9, <1>11 DEF SizeOf, R

\* The labels of a unit that disagree, weighed.
LEMMA DisagreementOfRatings ==
    ASSUME NEW data, Gaps(data), NEW w \in Int, NEW u \in Units
    PROVE  SumFunction([p \in Unlike(UsedCategories(data)) |->
                           w * Count(data, u, p[1]) * Count(data, u, p[2])])
               = w * Cardinality(Differing(data, u))
<1> DEFINE K == UsedCategories(data)
           f == [k \in K |-> Count(data, u, k)]
           products == [p \in Unlike(K) |-> f[p[1]] * f[p[2]]]
<1>0. IsFiniteSet(K) /\ IsFiniteSet(Unlike(K))
  <2>1. IsFiniteSet(K)
    BY FiniteParts DEF UsedCategories
  <2>2. Unlike(K) \in SUBSET (K \X K)
    BY DEF Unlike
  <2> QED
    BY <2>1, <2>2, FS_Product, FS_Subset
<1>1. f \in [K -> Int]
  BY CountType
<1>2. SumFunction(products) = SumFunction(f) * SumFunction(f) - SumFunction([k \in K |-> f[k] * f[k]])
  <2> HIDE DEF f, K
  <2> QED
    BY <1>0, <1>1, SumOfProducts
<1>3. SumFunction(f) = SizeOf(data, u)
  BY LabelsOfRatings DEF Labels
<1>4. SumFunction([k \in K |-> f[k] * f[k]]) = Squares(data, u, K)
  BY DEF Squares
<1>5. products \in [Unlike(K) -> Int]
  <2>1. \A p \in Unlike(K) : f[p[1]] \in Int /\ f[p[2]] \in Int
    BY <1>1 DEF Unlike
  <2> HIDE DEF f
  <2> QED
    BY <2>1
<1>6. SumFunction([p \in Unlike(K) |-> w * products[p]]) = w * SumFunction(products)
  <2> HIDE DEF products, K
  <2> QED
    BY <1>0, <1>5, SumScale
<1>7. ASSUME NEW p \in Unlike(K)
      PROVE  w * Count(data, u, p[1]) * Count(data, u, p[2]) = w * products[p]
  <2>1. p[1] \in K /\ p[2] \in K
    BY DEF Unlike
  <2>2. products[p] = Count(data, u, p[1]) * Count(data, u, p[2])
    BY <2>1
  <2>3. \A a, b \in Nat : w * a * b = w * (a * b)
    OBVIOUS
  <2> HIDE DEF products
  <2> QED
    BY <2>2, <2>3, CountType
<1>8. [p \in Unlike(K) |-> w * Count(data, u, p[1]) * Count(data, u, p[2])]
          = [p \in Unlike(K) |-> w * products[p]]
  <2> HIDE DEF products, K
  <2> QED
    BY <1>7
<1>9. SumFunction(products) = Cardinality(Differing(data, u))
  <2> HIDE DEF products, f
  <2> QED
    BY <1>2, <1>3, <1>4, DifferingIs
<1> HIDE DEF products, f
<1> QED
  BY <1>6, <1>8, <1>9

\* The coincidence matrix, and what the definition of alpha is made of.
Coinciding(data, k, l) ==
    SumFunction([u \in Pairable(data) |->
        WeightOf(data, u) * Count(data, u, k) *
        (IF k = l THEN Count(data, u, k) - 1 ELSE Count(data, u, l))])
RatingsInAll(data) == SumFunction([u \in Pairable(data) |-> SizeOf(data, u)])
DifferingInAll(data) ==
    SumFunction([u \in Pairable(data) |-> WeightOf(data, u) * Cardinality(Differing(data, u))])
SquaresOfTotals(data, K) ==
    SumFunction([k \in K |-> Total(data, Pairable(data), k) * Total(data, Pairable(data), k)])

\* The weight of a unit's pairs is the scale over its other ratings.
LEMMA WeightOfUnit ==
    ASSUME NEW data, NEW u \in Pairable(data)
    PROVE  /\ u \in Units /\ SizeOf(data, u) \in Nat /\ WeightOf(data, u) \in Nat
           /\ WeightOf(data, u) * (SizeOf(data, u) - 1) = Scale
<1> DEFINE m == SizeOf(data, u) - 1
<1>1. u \in Units /\ SizeOf(data, u) \in Nat /\ SizeOf(data, u) >= 2 /\ SizeOf(data, u) <= Raters
  BY FiniteRatings DEF Pairable
<1>2. m \in Nat \ {0} /\ Scale \in Nat /\ Scale % m = 0
  <2>1. Raters \in Nat
    BY FiniteParts
  <2>2. Scale \in Nat /\ \A i \in 1..(Raters - 1) : Scale % i = 0
    BY ReliabilityAssumption DEF Raters
  <2> QED
    BY <1>1, <2>1, <2>2
<1>3. WeightOf(data, u) = Scale \div m
  BY DEF WeightOf, Weight
<1> HIDE DEF m
<1>4. Scale \div m \in Nat /\ Scale = m * (Scale \div m) + (Scale % m)
  BY <1>2, DivMod
<1>5. \A q \in Nat : Scale = m * q + 0 => q * m = Scale
  BY <1>2
<1>6. WeightOf(data, u) \in Nat /\ WeightOf(data, u) * m = Scale
  BY <1>2, <1>3, <1>4, <1>5
<1> QED
  BY <1>1, <1>6 DEF m

\* What is finite, and the types of the terms.
LEMMA FiniteUse ==
    ASSUME NEW data
    PROVE  /\ UsedCategories(data) \in SUBSET Categories
           /\ IsFiniteSet(UsedCategories(data)) /\ IsFiniteSet(Unlike(UsedCategories(data)))
           /\ Pairable(data) \in SUBSET Units /\ IsFiniteSet(Pairable(data))
<1> DEFINE K == UsedCategories(data)
<1>1. K \in SUBSET Categories /\ IsFiniteSet(K)
  BY FiniteParts DEF UsedCategories
<1>2. IsFiniteSet(Unlike(K))
  <2>1. Unlike(K) \in SUBSET (K \X K)
    BY DEF Unlike
  <2> HIDE DEF K
  <2> QED
    BY <1>1, <2>1, FS_Product, FS_Subset
<1>3. Pairable(data) \in SUBSET Units /\ IsFiniteSet(Pairable(data))
  BY FiniteParts, FS_Subset DEF Pairable
<1> QED
  BY <1>1, <1>2, <1>3

\* A total over the units with at least two ratings.
LEMMA TotalOfPairable ==
    ASSUME NEW data, NEW k
    PROVE  /\ [u \in Pairable(data) |-> Count(data, u, k)] \in [Pairable(data) -> Nat]
           /\ Total(data, Pairable(data), k) \in Nat
<1> DEFINE f == [u \in Pairable(data) |-> Count(data, u, k)]
<1>1. f \in [Pairable(data) -> Nat]
  BY CountType
<1>2. SumFunction(f) \in Nat
  <2> HIDE DEF f
  <2> QED
    BY <1>1, FiniteUse, SumType
<1> QED
  BY <1>1, <1>2 DEF Total

\* The observed disagreement is that of the pairs of coders who differ.
LEMMA ObservedIs ==
    ASSUME NEW data, Gaps(data)
    PROVE  SumFunction([p \in Unlike(UsedCategories(data)) |-> Coinciding(data, p[1], p[2])])
               = DifferingInAll(data)
<1> DEFINE K == UsedCategories(data)
           U == Pairable(data)
           h == [q \in Unlike(K) \X U |->
                    WeightOf(data, q[2]) * Count(data, q[2], q[1][1]) * Count(data, q[2], q[1][2])]
<1>0. IsFiniteSet(U) /\ IsFiniteSet(Unlike(K))
  BY FiniteUse
<1>1. \A p \in Unlike(K), u \in U : h[<<p, u>>] \in Int
  <2>1. \A w, a, b \in Nat : w * a * b \in Int
    OBVIOUS
  <2>2. \A u \in U : WeightOf(data, u) \in Nat
    BY WeightOfUnit
  <2> HIDE DEF U, K
  <2> QED
    BY <2>1, <2>2, CountType
<1>2. RowSums(h, Unlike(K), U) = [p \in Unlike(K) |-> Coinciding(data, p[1], p[2])]
  <2>1. ASSUME NEW p \in Unlike(K)
        PROVE  SumFunction([u \in U |-> h[<<p, u>>]]) = Coinciding(data, p[1], p[2])
    <3>1. p[1] # p[2]
      BY DEF Unlike
    <3> QED
      BY <3>1 DEF Coinciding
  <2> HIDE DEF h, K, U
  <2> QED
    BY <2>1 DEF RowSums
<1>3. ColumnSums(h, Unlike(K), U)
          = [u \in U |-> WeightOf(data, u) * Cardinality(Differing(data, u))]
  <2>1. ASSUME NEW u \in U
        PROVE  SumFunction([p \in Unlike(K) |-> h[<<p, u>>]])
                   = WeightOf(data, u) * Cardinality(Differing(data, u))
    <3> DEFINE w == WeightOf(data, u)
    <3>1. [p \in Unlike(K) |-> h[<<p, u>>]]
              = [p \in Unlike(K) |-> w * Count(data, u, p[1]) * Count(data, u, p[2])]
      OBVIOUS
    <3>2. w \in Int /\ u \in Units
      BY WeightOfUnit
    <3> HIDE DEF h, w
    <3>3. SumFunction([p \in Unlike(K) |-> w * Count(data, u, p[1]) * Count(data, u, p[2])])
              = w * Cardinality(Differing(data, u))
      BY <3>2, DisagreementOfRatings
    <3> QED
      BY <3>1, <3>3 DEF w
  <2> HIDE DEF h, K, U
  <2> QED
    BY <2>1 DEF ColumnSums
<1>4. SumFunction(RowSums(h, Unlike(K), U)) = SumFunction(ColumnSums(h, Unlike(K), U))
  <2> HIDE DEF h, K, U
  <2> QED
    BY <1>0, <1>1, SumSwap
<1> HIDE DEF h
<1> QED
  BY <1>2, <1>3, <1>4 DEF DifferingInAll

\* The total of a row of the coincidence matrix.
LEMMA RowIs ==
    ASSUME NEW data, Gaps(data), NEW k \in UsedCategories(data)
    PROVE  SumFunction([l \in UsedCategories(data) |-> Coinciding(data, k, l)])
               = Scale * Total(data, Pairable(data), k)
<1> DEFINE K == UsedCategories(data)
           U == Pairable(data)
           Other(u, l) == IF k = l THEN Count(data, u, k) - 1 ELSE Count(data, u, l)
           h == [q \in K \X U |-> WeightOf(data, q[2]) * Count(data, q[2], k) * Other(q[2], q[1])]
           column == [u \in U |-> Count(data, u, k)]
<1>0. IsFiniteSet(U) /\ IsFiniteSet(K) /\ Scale \in Int /\ k \in K
  BY FiniteUse, ReliabilityAssumption
<1>1. \A l \in K, u \in U : h[<<l, u>>] \in Int
  <2>1. \A w, a \in Nat, b \in Int : w * a * b \in Int
    OBVIOUS
  <2>2. \A l \in K, u \in U : Other(u, l) \in Int
    BY CountType
  <2>3. \A u \in U : WeightOf(data, u) \in Nat
    BY WeightOfUnit
  <2> HIDE DEF Other, U, K
  <2> QED
    BY <2>1, <2>2, <2>3, CountType
<1>2. RowSums(h, K, U) = [l \in K |-> Coinciding(data, k, l)]
  BY DEF RowSums, Coinciding
<1>3. ASSUME NEW u \in U
      PROVE  SumFunction([l \in K |-> h[<<l, u>>]]) = Scale * column[u]
  <2> DEFINE f == [l \in K |-> Count(data, u, l)]
             other == [f EXCEPT ![k] = f[k] - 1]
             w == WeightOf(data, u)
             m == SizeOf(data, u)
             c == w * Count(data, u, k)
  <2>0. w \in Int /\ m \in Int /\ w * (m - 1) = Scale /\ u \in Units
    BY WeightOfUnit
  <2>1. f \in [K -> Int] /\ f[k] - 1 \in Int /\ SumFunction(f) = m
    BY <2>0, CountType, LabelsOfRatings DEF Labels
  <2> HIDE DEF w, m, K, U
  <2>2. SumFunction(other) = SumFunction(f) - f[k] + (f[k] - 1)
    <3> HIDE DEF f
    <3>1. \A v \in Int : SumFunction([f EXCEPT ![k] = v]) = SumFunction(f) - f[k] + v
      BY <1>0, <2>1, SumExcept
    <3> QED
      BY <2>1, <3>1
  <2>3. SumFunction(other) = m - 1
    <3>1. f[k] \in Int
      BY <1>0, <2>1
    <3> HIDE DEF f, other
    <3> QED
      BY <2>0, <2>1, <2>2, <3>1
  <2>4. other \in [K -> Int] /\ c \in Int
    <3>1. Count(data, u, k) \in Nat
      BY CountType
    <3>2. c \in Int
      BY <2>0, <3>1
    <3> HIDE DEF f
    <3>3. other \in [K -> Int]
      BY <2>1
    <3> QED
      BY <3>2, <3>3
  <2>5. SumFunction([l \in K |-> c * other[l]]) = c * SumFunction(other)
    <3> HIDE DEF other, c
    <3> QED
      BY <1>0, <2>4, SumScale
  <2>6. [l \in K |-> h[<<l, u>>]] = [l \in K |-> c * other[l]]
    <3>1. ASSUME NEW l \in K PROVE h[<<l, u>>] = c * other[l]
      <4>1. other[l] = Other(u, l)
        OBVIOUS
      <4>2. h[<<l, u>>] = c * Other(u, l)
        BY DEF w
      <4> HIDE DEF h, other, c, Other
      <4> QED
        BY <4>1, <4>2
    <3> HIDE DEF h, other, c
    <3> QED
      BY <3>1
  <2>7. column[u] = Count(data, u, k) /\ column[u] \in Int
    BY CountType
  <2>8. c * (m - 1) = Scale * column[u]
    <3>1. \A x, a, b, y \in Int : x * b = y => (x * a) * b = y * a
      <4> SUFFICES ASSUME NEW x \in Int, NEW a \in Int, NEW b \in Int PROVE (x * a) * b = (x * b) * a
        OBVIOUS
      <4> QED
        OBVIOUS
    <3>2. m - 1 \in Int
      BY <2>0
    <3> HIDE DEF column
    <3> QED
      BY <1>0, <2>0, <2>7, <3>1, <3>2
  <2> HIDE DEF h, other, c, column
  <2> QED
    BY <2>3, <2>5, <2>6, <2>8
<1>4. ColumnSums(h, K, U) = [u \in U |-> Scale * column[u]]
  <2> HIDE DEF h, column, K, U
  <2> QED
    BY <1>3 DEF ColumnSums
<1>5. SumFunction(RowSums(h, K, U)) = SumFunction(ColumnSums(h, K, U))
  <2> HIDE DEF h, K, U
  <2> QED
    BY <1>0, <1>1, SumSwap
<1>6. SumFunction([u \in U |-> Scale * column[u]]) = Scale * SumFunction(column)
  <2>1. column \in [U -> Int]
    BY CountType
  <2> HIDE DEF column, U
  <2> QED
    BY <1>0, <2>1, SumScale
<1>7. SumFunction(column) = Total(data, U, k)
  BY DEF Total
<1> HIDE DEF h, column
<1> QED
  BY <1>2, <1>4, <1>5, <1>6, <1>7

\* There are as many labels as ratings.
LEMMA RatingsAreLabels ==
    ASSUME NEW data, Gaps(data)
    PROVE  SumFunction([k \in UsedCategories(data) |-> Total(data, Pairable(data), k)])
               = RatingsInAll(data)
<1> DEFINE K == UsedCategories(data)
           U == Pairable(data)
           h == [p \in U \X K |-> Count(data, p[1], p[2])]
<1>0. IsFiniteSet(K) /\ IsFiniteSet(U)
  BY FiniteUse
<1>1. \A u \in U, k \in K : h[<<u, k>>] \in Int
  BY CountType
<1>2. RowSums(h, U, K) = [u \in U |-> SizeOf(data, u)]
  <2>1. RowSums(h, U, K) = [u \in U |-> Labels(data, u, K)]
    BY DEF RowSums, Labels
  <2>2. \A u \in U : Labels(data, u, K) = SizeOf(data, u)
    BY WeightOfUnit, LabelsOfRatings
  <2> HIDE DEF h, U, K
  <2> QED
    BY <2>1, <2>2
<1>3. ColumnSums(h, U, K) = [k \in K |-> Total(data, U, k)]
  BY DEF ColumnSums, Total
<1>4. SumFunction(RowSums(h, U, K)) = SumFunction(ColumnSums(h, U, K))
  <2> HIDE DEF h, U, K
  <2> QED
    BY <1>0, <1>1, SumSwap
<1> HIDE DEF h
<1> QED
  BY <1>2, <1>3, <1>4 DEF RatingsInAll

\* The disagreement that chance explains.
LEMMA ExpectedIs ==
    ASSUME NEW data, Gaps(data), NEW total,
           \A k \in UsedCategories(data) : total[k] = Scale * Total(data, Pairable(data), k)
    PROVE  SumFunction([p \in Unlike(UsedCategories(data)) |-> total[p[1]] * total[p[2]]])
               = Scale * Scale * (RatingsInAll(data) * RatingsInAll(data)
                                      - SquaresOfTotals(data, UsedCategories(data)))
<1> DEFINE K == UsedCategories(data)
           T(k) == Total(data, Pairable(data), k)
           f == [k \in K |-> T(k)]
           products == [p \in Unlike(K) |-> f[p[1]] * f[p[2]]]
           n == RatingsInAll(data)
           a == Scale * Scale
<1>0. IsFiniteSet(K) /\ IsFiniteSet(Unlike(K)) /\ Scale \in Int /\ a \in Int
  BY FiniteUse, ReliabilityAssumption
<1>1. f \in [K -> Int]
  BY TotalOfPairable
<1>2. SumFunction(products) = SumFunction(f) * SumFunction(f) - SumFunction([k \in K |-> f[k] * f[k]])
  <2> HIDE DEF f, K
  <2> QED
    BY <1>0, <1>1, SumOfProducts
<1>3. SumFunction(f) = n
  BY RatingsAreLabels
<1>4. SumFunction([k \in K |-> f[k] * f[k]]) = SquaresOfTotals(data, K)
  BY DEF SquaresOfTotals
<1>5. products \in [Unlike(K) -> Int]
  <2>1. \A p \in Unlike(K) : f[p[1]] \in Int /\ f[p[2]] \in Int
    BY <1>1 DEF Unlike
  <2> HIDE DEF f
  <2> QED
    BY <2>1
<1>6. SumFunction([p \in Unlike(K) |-> a * products[p]]) = a * SumFunction(products)
  <2> HIDE DEF products, a, K
  <2> QED
    BY <1>0, <1>5, SumScale
<1>7. ASSUME NEW p \in Unlike(K) PROVE total[p[1]] * total[p[2]] = a * products[p]
  <2>1. p[1] \in K /\ p[2] \in K
    BY DEF Unlike
  <2>2. products[p] = T(p[1]) * T(p[2])
    BY <2>1
  <2>3. T(p[1]) \in Int /\ T(p[2]) \in Int
    BY TotalOfPairable
  <2>4. total[p[1]] = Scale * T(p[1]) /\ total[p[2]] = Scale * T(p[2])
    BY <2>1
  <2>5. \A s, x, y \in Int : (s * x) * (s * y) = (s * s) * (x * y)
    OBVIOUS
  <2> HIDE DEF products, T
  <2> QED
    BY <1>0, <2>2, <2>3, <2>4, <2>5
<1>8. [p \in Unlike(K) |-> total[p[1]] * total[p[2]]] = [p \in Unlike(K) |-> a * products[p]]
  <2> HIDE DEF products, a, K
  <2> QED
    BY <1>7
<1> HIDE DEF products, f, n, a
<1>9. SumFunction([p \in Unlike(K) |-> total[p[1]] * total[p[2]]])
          = a * (n * n - SquaresOfTotals(data, K))
  BY <1>2, <1>3, <1>4, <1>6, <1>8
<1> QED
  BY <1>9 DEF n, a

\* Categories that are not used add nothing to the squares.
LEMMA SquaresOfUsed ==
    ASSUME NEW data
    PROVE  /\ SquaresOfTotals(data, Categories) = SquaresOfTotals(data, UsedCategories(data))
           /\ SquaresOfTotals(data, Categories) \in Int
<1> DEFINE K == UsedCategories(data)
           T(k) == Total(data, Pairable(data), k)
           f == [k \in Categories |-> T(k) * T(k)]
           h == [k \in K |-> T(k) * T(k)]
<1>0. IsFiniteSet(Categories) /\ K \in SUBSET Categories
  BY FiniteUse, ReliabilityAssumption
<1>1. f \in [Categories -> Int] /\ h \in [K -> Int]
  <2>1. \A k : T(k) \in Nat
    BY TotalOfPairable
  <2>2. \A k : T(k) * T(k) \in Int
    <3> HIDE DEF T
    <3> QED
      BY <2>1
  <2> HIDE DEF T, K
  <2> QED
    BY <2>2
<1>2. ASSUME NEW k \in Categories \ K PROVE f[k] = 0
  <2>1. \A u \in Pairable(data) : Count(data, u, k) = 0
    BY UnusedIsZero, FiniteUse
  <2>2. [u \in Pairable(data) |-> Count(data, u, k)] = [u \in Pairable(data) |-> 0]
    BY <2>1
  <2>3. 0 \in Int /\ Cardinality(Pairable(data)) \in Nat
    BY FiniteUse, FS_CardinalityType
  <2>4. SumFunction([u \in Pairable(data) |-> 0]) = 0 * Cardinality(Pairable(data))
    <3>1. \A c \in Int : SumFunction([u \in Pairable(data) |-> c]) = c * Cardinality(Pairable(data))
      BY FiniteUse, SumConstant
    <3> QED
      BY <2>3, <3>1, Zenon
  <2>5. T(k) = 0
    BY <2>2, <2>3, <2>4 DEF Total
  <2>6. f[k] = T(k) * T(k)
    OBVIOUS
  <2> HIDE DEF f, T
  <2> QED
    BY <2>5, <2>6
<1>3. \A k \in K : h[k] = f[k]
  BY <1>0
<1>4. SumFunction(h) = SumFunction(f) /\ SumFunction(f) \in Int
  <2> HIDE DEF f, h, K
  <2> QED
    BY <1>0, <1>1, <1>2, <1>3, SumSupport, SumType
<1> QED
  BY <1>4 DEF SquaresOfTotals

\* The disagreement that chance explains, and that which is there.
ChanceOf(data) == RatingsInAll(data) * RatingsInAll(data) - SquaresOfTotals(data, Categories)

\* Two categories of which one has no rating coincide nowhere.
LEMMA NothingCoincides ==
    ASSUME NEW data, NEW k, NEW l, k # l,
           Total(data, Pairable(data), k) = 0 \/ Total(data, Pairable(data), l) = 0
    PROVE  Coinciding(data, k, l) = 0
<1> DEFINE U == Pairable(data)
           f(j) == [u \in U |-> Count(data, u, j)]
<1>1. ASSUME NEW j, Total(data, U, j) = 0, NEW u \in U PROVE Count(data, u, j) = 0
  <2>1. f(j) \in [U -> Nat] /\ SumFunction(f(j)) = 0 /\ f(j)[u] = Count(data, u, j)
    BY <1>1, TotalOfPairable DEF Total
  <2> HIDE DEF f, U
  <2>2. f(j)[u] = 0
    BY <1>1, <2>1, FiniteUse, SumZero DEF U
  <2> QED
    BY <2>1, <2>2
<1>2. ASSUME NEW u \in U
      PROVE  WeightOf(data, u) * Count(data, u, k) *
                 (IF k = l THEN Count(data, u, k) - 1 ELSE Count(data, u, l)) = 0
  <2>1. WeightOf(data, u) \in Nat /\ Count(data, u, k) \in Nat /\ Count(data, u, l) \in Nat
    BY WeightOfUnit, CountType
  <2>2. Count(data, u, k) = 0 \/ Count(data, u, l) = 0
    BY <1>1
  <2>3. \A w, a \in Nat : w * 0 * a = 0 /\ w * a * 0 = 0
    OBVIOUS
  <2> QED
    BY <2>1, <2>2, <2>3
<1>3. Coinciding(data, k, l) = SumFunction([u \in U |-> 0])
  BY <1>2 DEF Coinciding
<1>4. SumFunction([u \in U |-> 0]) = 0
  <2>1. \A c \in Int : SumFunction([u \in U |-> c]) = c * Cardinality(U)
    BY FiniteUse, SumConstant
  <2>2. 0 \in Int /\ Cardinality(U) \in Nat
    BY FiniteUse, FS_CardinalityType
  <2>3. SumFunction([u \in U |-> 0]) = 0 * Cardinality(U)
    BY <2>1, <2>2, Zenon
  <2> QED
    BY <2>2, <2>3
<1> QED
  BY <1>3, <1>4

\* Alpha is as its definition says, whichever ratings are missing.
LEMMA AlphaWithGaps ==
    ASSUME NEW data, Gaps(data)
    PROVE  /\ Pairable(data) = {} => KrippendorffsAlpha(data) = Undefined
           /\ Pairable(data) # {} /\ ChanceOf(data) = 0 => KrippendorffsAlpha(data) = One
           /\ ChanceOf(data) = 0 => DifferingInAll(data) = 0
           /\ Pairable(data) # {} /\ ChanceOf(data) # 0 =>
                 /\ Scale * Scale * ChanceOf(data) # 0
                 /\ KrippendorffsAlpha(data) =
                        [num |-> Scale * Scale * ChanceOf(data)
                                     - (RatingsInAll(data) - 1) * Scale * DifferingInAll(data),
                         den |-> Scale * Scale * ChanceOf(data)]
<1> DEFINE used == {k \in Categories : \E u \in Units : Count(data, u, k) > 0}
           pairable == {u \in Units : Cardinality(Ratings(data, u)) >= 2}
           Coincidence(k, l) ==
               SumFunction([u \in pairable |->
                    Weight(Cardinality(Ratings(data, u))) * Count(data, u, k) *
                    (IF k = l THEN Count(data, u, k) - 1 ELSE Count(data, u, l))])
           total == [k \in used |-> SumFunction([l \in used |-> Coincidence(k, l)])]
           n == SumFunction([u \in pairable |-> Cardinality(Ratings(data, u))])
           unlike == {p \in used \X used : p[1] # p[2]}
           observed == SumFunction([p \in unlike |-> Coincidence(p[1], p[2])])
           expected == SumFunction([p \in unlike |-> total[p[1]] * total[p[2]]])
<1>1. KrippendorffsAlpha(data) =
          IF pairable = {} THEN Undefined
          ELSE IF Cardinality(used) < 2 \/ expected = 0 THEN One
          ELSE [num |-> expected - (n - 1) * Scale * observed, den |-> expected]
  BY DEF KrippendorffsAlpha
<1>2. used = UsedCategories(data) /\ unlike = Unlike(used) /\ pairable = Pairable(data)
  BY DEF UsedCategories, Unlike, Pairable, SizeOf
<1>3. \A k, l : Coincidence(k, l) = Coinciding(data, k, l)
  BY DEF Coinciding, Pairable, SizeOf, WeightOf
<1>4. n = RatingsInAll(data)
  BY DEF RatingsInAll, Pairable, SizeOf
<1>5. Scale \in Nat \ {0} /\ RatingsInAll(data) \in Nat /\ SquaresOfTotals(data, Categories) \in Int
  <2> DEFINE f == [u \in Pairable(data) |-> SizeOf(data, u)]
  <2>1. f \in [Pairable(data) -> Nat]
    BY WeightOfUnit
  <2>2. SumFunction(f) \in Nat
    <3> HIDE DEF f
    <3> QED
      BY <2>1, FiniteUse, SumType
  <2> QED
    BY <2>2, ReliabilityAssumption, SquaresOfUsed DEF RatingsInAll
<1>6. ChanceOf(data) \in Int
  BY <1>5 DEF ChanceOf
<1> HIDE DEF Coincidence, n
<1>7. observed = DifferingInAll(data)
  <2>1. observed = SumFunction([p \in Unlike(used) |-> Coinciding(data, p[1], p[2])])
    <3> HIDE DEF unlike, used
    <3> QED
      BY <1>2, <1>3
  <2> HIDE DEF observed, used
  <2> QED
    BY <1>2, <2>1, ObservedIs
<1>8. ASSUME NEW k \in used PROVE total[k] = Scale * Total(data, Pairable(data), k)
  <2>1. total[k] = SumFunction([l \in used |-> Coinciding(data, k, l)])
    <3> HIDE DEF used
    <3> QED
      BY <1>3
  <2> HIDE DEF total, used
  <2> QED
    BY <1>2, <2>1, RowIs
<1>9. expected = Scale * Scale * ChanceOf(data)
  <2>1. expected = Scale * Scale * (RatingsInAll(data) * RatingsInAll(data) - SquaresOfTotals(data, used))
    <3> HIDE DEF total, used, unlike
    <3> QED
      BY <1>2, <1>8, ExpectedIs
  <2> HIDE DEF expected, used
  <2> QED
    BY <1>2, <2>1, SquaresOfUsed DEF ChanceOf
<1>10. Cardinality(used) < 2 => unlike = {}
  <2> SUFFICES ASSUME unlike # {} PROVE ~(Cardinality(used) < 2)
    OBVIOUS
  <2>0. IsFiniteSet(used)
    <3> HIDE DEF used
    <3> QED
      BY <1>2, FiniteUse
  <2>1. PICK p \in used \X used : p[1] # p[2]
    OBVIOUS
  <2>2. {p[1], p[2]} \in SUBSET used /\ p[1] # p[2]
    BY <2>1
  <2> HIDE DEF used
  <2>3. Cardinality({p[1], p[2]}) <= Cardinality(used) /\ Cardinality(used) \in Nat
    BY <2>0, <2>2, FS_Subset, FS_CardinalityType
  <2>4. Cardinality({p[1], p[2]}) = 2
    <3>1. IsFiniteSet({p[1]}) /\ Cardinality({p[1]}) = 1
      BY FS_Singleton
    <3>2. p[2] \notin {p[1]} /\ {p[1], p[2]} = {p[1]} \cup {p[2]}
      BY <2>2
    <3> QED
      BY <3>1, <3>2, FS_AddElement
  <2> QED
    BY <2>3, <2>4
<1>11. unlike = {} => expected = 0
  <2> SUFFICES ASSUME unlike = {} PROVE expected = 0
    OBVIOUS
  <2>1. ASSUME NEW f, DOMAIN f = {} PROVE SumFunction(f) = 0
    <3>1. f \in [{} -> Int] /\ IsFiniteSet({}) /\ Int \in {Nat, Int}
      BY <2>1, FS_EmptySet
    <3>2. f = [x \in {} |-> 0]
      BY <2>1
    <3>3. SumFunctionOnSet(f, {}) = 0
      BY <3>1, SumMeasures
    <3> QED
      BY <2>1, <3>3 DEF SumFunction
  <2> HIDE DEF unlike, total
  <2> QED
    BY <2>1
<1>17. expected = 0 => observed = 0
  <2> SUFFICES ASSUME expected = 0 PROVE observed = 0
    OBVIOUS
  <2> DEFINE f == [p \in unlike |-> total[p[1]] * total[p[2]]]
             T(k) == Total(data, Pairable(data), k)
  <2>0. IsFiniteSet(unlike)
    <3> HIDE DEF unlike, used
    <3> QED
      BY <1>2, FiniteUse
  <2>1. \A k \in used : total[k] = Scale * T(k) /\ T(k) \in Nat /\ total[k] \in Nat
    <3>1. ASSUME NEW k \in used PROVE total[k] = Scale * T(k) /\ T(k) \in Nat
      BY <1>8, TotalOfPairable
    <3>2. \A a, b \in Nat : a * b \in Nat
      OBVIOUS
    <3> HIDE DEF total, used, T
    <3> QED
      BY <1>5, <3>1, <3>2
  <2>2. \A p \in unlike : p[1] \in used /\ p[2] \in used /\ p[1] # p[2]
    OBVIOUS
  <2>3. f \in [unlike -> Nat] /\ SumFunction(f) = 0
    <3>1. SumFunction(f) = expected
      OBVIOUS
    <3>2. \A a, b \in Nat : a * b \in Nat
      OBVIOUS
    <3>3. f \in [unlike -> Nat]
      <4> HIDE DEF total, unlike, used
      <4> QED
        BY <2>1, <2>2, <3>2
    <3> HIDE DEF f, expected
    <3> QED
      BY <3>1, <3>3
  <2>4. ASSUME NEW p \in unlike PROVE Coincidence(p[1], p[2]) = 0
    <3>1. f[p] = 0
      <4> HIDE DEF f, unlike
      <4> QED
        BY <2>0, <2>3, SumZero
    <3>2. f[p] = total[p[1]] * total[p[2]]
      OBVIOUS
    <3> HIDE DEF f, total, unlike, used, T
    <3>3. \A s \in Nat \ {0}, a, b \in Nat : (s * a) * (s * b) = 0 => a = 0 \/ b = 0
      <4>1. \A i, j \in Int : i * j = 0 => i = 0 \/ j = 0
        OBVIOUS
      <4>2. ASSUME NEW s \in Nat \ {0}, NEW a \in Nat, NEW b \in Nat, (s * a) * (s * b) = 0
            PROVE  a = 0 \/ b = 0
        <5>1. s * a \in Int /\ s * b \in Int
          OBVIOUS
        <5>2. s * a = 0 \/ s * b = 0
          BY <4>1, <4>2, <5>1, Zenon
        <5> QED
          BY <4>1, <5>2
      <4> QED
        BY <4>2
    <3>4. T(p[1]) = 0 \/ T(p[2]) = 0
      <4>1. p[1] \in used /\ p[2] \in used
        BY <2>2
      <4>2. total[p[1]] = Scale * T(p[1]) /\ T(p[1]) \in Nat
        BY <2>1, <4>1
      <4>3. total[p[2]] = Scale * T(p[2]) /\ T(p[2]) \in Nat
        BY <2>1, <4>1
      <4>4. (Scale * T(p[1])) * (Scale * T(p[2])) = 0
        BY <3>1, <3>2, <4>2, <4>3
      <4> QED
        BY <1>5, <3>3, <4>2, <4>3, <4>4
    <3>5. Coinciding(data, p[1], p[2]) = 0
      BY <2>2, <3>4, NothingCoincides DEF T
    <3> QED
      BY <1>3, <3>5
  <2>5. observed = SumFunction([p \in unlike |-> 0])
    <3> HIDE DEF unlike
    <3> QED
      BY <2>4
  <2> HIDE DEF unlike, used
  <2>6. \A c \in Int : SumFunction([p \in unlike |-> c]) = c * Cardinality(unlike)
    BY <2>0, SumConstant
  <2>7. 0 \in Int /\ Cardinality(unlike) \in Nat
    BY <2>0, FS_CardinalityType
  <2>8. SumFunction([p \in unlike |-> 0]) = 0 * Cardinality(unlike)
    BY <2>6, <2>7, Zenon
  <2> HIDE DEF observed
  <2> QED
    BY <2>5, <2>7, <2>8
<1> HIDE DEF observed, expected, unlike, used, pairable
<1>12. Scale * Scale * ChanceOf(data) = 0 <=> ChanceOf(data) = 0
  <2> DEFINE a == Scale * Scale
             b == ChanceOf(data)
  <2>1. a \in Int /\ a # 0 /\ b \in Int
    BY <1>5, <1>6
  <2>2. \A i, j \in Int : i * j = 0 <=> i = 0 \/ j = 0
    OBVIOUS
  <2> HIDE DEF a, b
  <2>3. a * b = 0 <=> b = 0
    BY <2>1, <2>2
  <2> QED
    BY <2>3 DEF a, b
<1>13. Cardinality(used) < 2 \/ expected = 0 <=> ChanceOf(data) = 0
  BY <1>9, <1>10, <1>11, <1>12
<1>14. ASSUME Pairable(data) # {}, ChanceOf(data) # 0
       PROVE  KrippendorffsAlpha(data) = [num |-> expected - (n - 1) * Scale * observed, den |-> expected]
  BY <1>1, <1>2, <1>13, <1>14
<1>15. ASSUME Pairable(data) # {}, ChanceOf(data) = 0
       PROVE  KrippendorffsAlpha(data) = One
  BY <1>1, <1>2, <1>13, <1>15
<1>16. ASSUME Pairable(data) = {} PROVE KrippendorffsAlpha(data) = Undefined
  BY <1>1, <1>2, <1>16
<1> QED
  BY <1>4, <1>7, <1>9, <1>12, <1>14, <1>15, <1>16, <1>17

\* Without a gap every unit has the ratings of all coders, and what the definition
\* of alpha is made of comes down to the numbers of coders and units, and squares.
LEMMA SumsOfFull ==
    ASSUME NEW data, Full(data), Raters >= 2
    PROVE  /\ Gaps(data) /\ Pairable(data) = Units /\ Units # {}
           /\ RatingsInAll(data) = Raters * UnitsInAll
           /\ Scale * Scale * ChanceOf(data) = Chance(data)
           /\ DifferingInAll(data) = Disagreed(data)
<1> DEFINE K == UsedCategories(data)
           w == Weight(Raters)
           squares == [u \in Units |-> Squares(data, u, K)]
<1>1. Gaps(data) /\ Units # {} /\ IsFiniteSet(Units) /\ Raters \in Nat /\ UnitsInAll \in Nat
  BY ReliabilityAssumption, FiniteParts DEF Full, Gaps
<1>2. \A u \in Units : SizeOf(data, u) = Raters
  BY FullIsLabelled DEF SizeOf, Raters
<1>3. Pairable(data) = Units
  BY <1>2 DEF Pairable
<1>4. RatingsInAll(data) = Raters * UnitsInAll
  <2>1. [u \in Pairable(data) |-> SizeOf(data, u)] = [u \in Units |-> Raters]
    BY <1>2, <1>3
  <2>2. SumFunction([u \in Units |-> Raters]) = Raters * UnitsInAll
    <3>1. IsFiniteSet(Units) /\ Raters \in Int
      BY <1>1
    <3> QED
      BY <3>1, SumConstant DEF UnitsInAll
  <2> QED
    BY <2>1, <2>2 DEF RatingsInAll
<1>5. Scale * Scale * ChanceOf(data) = Chance(data)
  <2>1. SquaresOfTotals(data, K) = TotalSquares(data, K)
    BY <1>3 DEF SquaresOfTotals, TotalSquares
  <2>2. SquaresOfTotals(data, Categories) = TotalSquares(data, K)
    BY <2>1, SquaresOfUsed
  <2> HIDE DEF K
  <2> QED
    BY <1>4, <2>2 DEF ChanceOf, Chance, K
<1>6. w \in Int
  BY <1>1, WeightOfUnit, <1>2, <1>3 DEF WeightOf
<1>7. ASSUME NEW u \in Units
      PROVE  WeightOf(data, u) * Cardinality(Differing(data, u))
                 = (-w) * squares[u] + w * (Raters * Raters)
  <2>1. Cardinality(Differing(data, u)) = Raters * Raters - Squares(data, u, K)
    BY <1>1, <1>2, DifferingIs
  <2>2. WeightOf(data, u) = w
    BY <1>2 DEF WeightOf
  <2>3. squares[u] = Squares(data, u, K) /\ Squares(data, u, K) \in Int /\ Raters * Raters \in Int
    BY <1>1, SquaresNatural
  <2>4. \A v, r, s \in Int : v * (r - s) = (-v) * s + v * r
    OBVIOUS
  <2> HIDE DEF w, squares
  <2> QED
    BY <1>6, <2>1, <2>2, <2>3, <2>4
<1>8. DifferingInAll(data) = SumFunction([u \in Units |-> (-w) * squares[u] + w * (Raters * Raters)])
  <2>1. [u \in Pairable(data) |-> WeightOf(data, u) * Cardinality(Differing(data, u))]
            = [u \in Units |-> (-w) * squares[u] + w * (Raters * Raters)]
    <3> HIDE DEF w, squares
    <3> QED
      BY <1>3, <1>7
  <2> QED
    BY <2>1 DEF DifferingInAll
<1>9. squares \in [Units -> Int] /\ SumFunction(squares) = AllSquares(data, K)
  BY SquaresNatural DEF AllSquares
<1>10. AllSquares(data, K) \in Int
  <2> HIDE DEF squares
  <2> QED
    BY <1>1, <1>9, SumType
<1>11. SumFunction([u \in Units |-> (-w) * squares[u] + w * (Raters * Raters)])
           = (-w) * SumFunction(squares) + (w * (Raters * Raters)) * UnitsInAll
  <2> DEFINE a == -w
             b == w * (Raters * Raters)
  <2>1. a \in Int /\ b \in Int
    BY <1>1, <1>6
  <2> HIDE DEF squares, a, b
  <2>2. SumFunction([u \in Units |-> a * squares[u] + b])
            = a * SumFunction(squares) + b * Cardinality(Units)
    BY <1>1, <1>9, <2>1, SumLinear
  <2> QED
    BY <2>2 DEF a, b, UnitsInAll
<1>12. DifferingInAll(data) = Disagreed(data)
  <2>1. \A v, m, n, s \in Int : (-v) * s + (v * (m * m)) * n = v * (m * m * n - s)
    OBVIOUS
  <2> HIDE DEF w, squares, K
  <2>2. DifferingInAll(data) = w * (Raters * Raters * UnitsInAll - AllSquares(data, K))
    BY <1>1, <1>6, <1>8, <1>9, <1>10, <1>11, <2>1
  <2> QED
    BY <2>2 DEF Disagreed, w, K
<1> QED
  BY <1>1, <1>3, <1>4, <1>5, <1>12

\* Krippendorff's alpha of full data; one is for data without any disagreement.
LEMMA AlphaOfFull ==
    ASSUME NEW data, Full(data), Raters >= 2
    PROVE  \/ /\ KrippendorffsAlpha(data) = One
              /\ Chance(data) = 0 /\ Disagreed(data) = 0
           \/ /\ Chance(data) # 0
              /\ KrippendorffsAlpha(data) =
                    [num |-> Chance(data) - (Raters * UnitsInAll - 1) * Scale * Disagreed(data),
                     den |-> Chance(data)]
<1>1. /\ Gaps(data) /\ Pairable(data) # {}
      /\ RatingsInAll(data) = Raters * UnitsInAll
      /\ Scale * Scale * ChanceOf(data) = Chance(data)
      /\ DifferingInAll(data) = Disagreed(data)
  BY SumsOfFull
<1>2. CASE ChanceOf(data) = 0
  <2>1. KrippendorffsAlpha(data) = One /\ Disagreed(data) = 0
    BY <1>1, <1>2, AlphaWithGaps
  <2>2. Scale * Scale \in Int /\ \A i \in Int : i * 0 = 0
    BY ReliabilityAssumption
  <2>3. Chance(data) = 0
    BY <1>1, <1>2, <2>2
  <2> QED
    BY <2>1, <2>3
<1>3. CASE ChanceOf(data) # 0
  BY <1>1, <1>3, AlphaWithGaps
<1> QED
  BY <1>2, <1>3

-----------------------------------------------------------------------------
(* The arithmetic of the identity *)

\* m raters, n units, s the scale, w the weight of a pair; p and q the squares of
\* counts and of totals.
Numbers(m, n, s, w, p, q) ==
    /\ m \in Int /\ n \in Int /\ s \in Int /\ w \in Int /\ p \in Int /\ q \in Int
    /\ m >= 3 /\ n >= 2 /\ s > 0 /\ w * (m - 1) = s

\* Where chance explains everything, both coefficients are one.
LEMMA AgreementIsTotal ==
    ASSUME NEW m, NEW n, NEW s, NEW w, NEW p, NEW q, Numbers(m, n, s, w, p, q),
           s * s * (m * n * (m * n) - q) = 0, w * (m * m * n - p) = 0
    PROVE  /\ q * (m - 1) = n * n * m * m * (m - 1)
           /\ (p - m * n) * n * m = n * n * m * m * (m - 1)
<1>1. s * s # 0 /\ w # 0
  BY DEF Numbers
<1>2. \A a, b \in Int : a * b = 0 => a = 0 \/ b = 0
  OBVIOUS
<1>3. m * n * (m * n) - q = 0
  <2> DEFINE a == s * s
             b == m * n * (m * n) - q
  <2>1. a \in Int /\ b \in Int /\ a * b = 0 /\ a # 0
    BY <1>1 DEF Numbers
  <2> HIDE DEF a, b
  <2>2. b = 0
    BY <1>2, <2>1
  <2> QED
    BY <2>2 DEF b
<1>4. m * m * n - p = 0
  <2> DEFINE b == m * m * n - p
  <2>1. w \in Int /\ b \in Int /\ w * b = 0
    BY DEF Numbers
  <2> HIDE DEF b
  <2>2. b = 0
    BY <1>1, <1>2, <2>1
  <2> QED
    BY <2>2 DEF b
<1>5. q = m * n * (m * n) /\ p = m * m * n
  BY <1>3, <1>4 DEF Numbers
<1>6. m * n * (m * n) * (m - 1) = n * n * m * m * (m - 1)
  BY DEF Numbers
<1>7. (m * m * n - m * n) * n * m = n * n * m * m * (m - 1)
  BY DEF Numbers
<1> QED
  BY <1>5, <1>6, <1>7

\* Elsewhere, what is left of the two coefficients is in the ratio n * m - 1 to n * m.
LEMMA AgreementIsScaled ==
    ASSUME NEW m, NEW n, NEW s, NEW w, NEW p, NEW q, Numbers(m, n, s, w, p, q)
    PROVE  ((m * n - 1) * s * (w * (m * m * n - p))) * (n * m)
                   * (n * n * m * m * (m - 1) - q * (m - 1))
               = (n * m - 1)
                   * (n * n * m * m * (m - 1) - (p - m * n) * n * m)
                   * (s * s * (m * n * (m * n) - q))
<1> DEFINE d == m * m * n - p
           x == m * n * (m * n) - q
           y == m * n
           k == m - 1
<1>1. d \in Int /\ x \in Int /\ y \in Int /\ k \in Int /\ s \in Int /\ w \in Int /\ w * k = s
  BY DEF Numbers
<1>2. n * m = y
  BY DEF Numbers
<1>3. n * n * m * m * (m - 1) - q * (m - 1) = k * x
  BY DEF Numbers
<1>4. n * n * m * m * (m - 1) - (p - m * n) * n * m = y * d
  BY DEF Numbers
<1>5. (y - 1) * s * (w * d) * y * (k * x) = (y - 1) * (y * d) * (s * (w * k) * x)
  <2> HIDE DEF d, x, y, k
  <2> QED
    BY <1>1
<1> HIDE DEF d, x, y, k
<1>6. (y - 1) * s * (w * d) * y * (k * x) = (y - 1) * (y * d) * (s * s * x)
  BY <1>1, <1>5
<1> QED
  BY <1>2, <1>3, <1>4, <1>6 DEF d, x, y

\* On full data the two statistics agree.
LEMMA StatisticsAgree ==
    ASSUME NEW data, Full(data), NEW a, a = KrippendorffsAlpha(data),
           NEW f, f = FleissKappa(data), f # Undefined
    PROVE  (a.den - a.num) * (UnitsInAll * Raters) * f.den
               = (UnitsInAll * Raters - 1) * (f.den - f.num) * a.den
<1> DEFINE m == Raters
           n == UnitsInAll
           s == Scale
           w == Weight(Raters)
           p == AllSquares(data, UsedCategories(data))
           q == TotalSquares(data, UsedCategories(data))
           chance == s * s * (m * n * (m * n) - q)
           seen == w * (m * m * n - p)
           left == (p - m * n) * n * m
           right == q * (m - 1)
           whole == n * n * m * m * (m - 1)
<1>1. m >= 3 /\ n >= 2 /\ f = Corrected(left, right, whole)
  BY FleissOfFull
<1>2. Numbers(m, n, s, w, p, q)
  <2>1. m \in Int /\ n \in Int /\ m >= 2
    BY <1>1, FiniteParts
  <2>2. w \in Int /\ w * (m - 1) = s
    BY <2>1, WeightIs
  <2>3. s \in Int /\ s > 0
    BY ReliabilityAssumption
  <2>4. p \in Int /\ q \in Int
    BY FullIsLabelled, SquaresType
  <2> HIDE DEF m, n, s, w, p, q
  <2> QED
    BY <1>1, <2>1, <2>2, <2>3, <2>4 DEF Numbers
<1>3. Chance(data) = chance /\ Disagreed(data) = seen
  BY DEF Chance, Disagreed
<1>4. \/ a = One /\ chance = 0 /\ seen = 0
      \/ chance # 0 /\ a = [num |-> chance - (m * n - 1) * s * seen, den |-> chance]
  <2>1. Raters >= 2
    BY <1>1, <1>2 DEF Numbers
  <2> HIDE DEF m, n, s, w, p, q, chance, seen
  <2> QED
    BY <1>3, <2>1, AlphaOfFull DEF m, n, s
<1> HIDE DEF m, n, s, w, p, q
<1>5. m \in Int /\ n \in Int /\ s \in Int /\ w \in Int /\ p \in Int /\ q \in Int
  BY <1>2 DEF Numbers
<1>6. chance \in Int /\ seen \in Int /\ left \in Int /\ right \in Int /\ whole \in Int
  BY <1>5
<1>7. CASE a = One /\ chance = 0 /\ seen = 0
  <2>1. right = whole /\ left = whole
    BY <1>2, <1>7, AgreementIsTotal
  <2>2. f = One
    BY <1>1, <2>1 DEF Corrected
  <2>3. a.den - a.num = 0 /\ f.den - f.num = 0 /\ a.den = 1 /\ f.den = 1
    BY <1>7, <2>2 DEF One
  <2>4. 0 * (n * m) * 1 = (n * m - 1) * 0 * 1
    BY <1>5
  <2> QED
    BY <2>3, <2>4 DEF m, n
<1>8. CASE chance # 0 /\ a = [num |-> chance - (m * n - 1) * s * seen, den |-> chance]
  <2>1. right # whole
    <3>1. ASSUME right = whole PROVE chance = 0
      <4> DEFINE x == m * n * (m * n) - q
      <4>1. x * (m - 1) = whole - right /\ x \in Int /\ m - 1 \in Int /\ m - 1 # 0
        BY <1>1, <1>5
      <4>2. x * (m - 1) = 0
        <5> HIDE DEF x
        <5> QED
          BY <1>6, <3>1, <4>1
      <4>3. x = 0
        <5> DEFINE k == m - 1
        <5>1. \A i, j \in Int : i * j = 0 => i = 0 \/ j = 0
          OBVIOUS
        <5>2. k \in Int /\ k # 0 /\ x * k = 0 /\ x \in Int
          BY <4>1, <4>2
        <5> HIDE DEF x, k
        <5> QED
          BY <5>1, <5>2
      <4>4. chance = s * s * x
        OBVIOUS
      <4>5. s * s \in Int /\ \A i \in Int : i * 0 = 0
        BY <1>5
      <4> HIDE DEF x, chance
      <4> QED
        BY <4>3, <4>4, <4>5
    <3> QED
      BY <1>8, <3>1
  <2>2. f = [num |-> left - right, den |-> whole - right]
    <3> HIDE DEF left, right, whole
    <3> QED
      BY <1>1, <2>1 DEF Corrected
  <2>3. a.den = chance /\ a.num = chance - (m * n - 1) * s * seen
        /\ f.den = whole - right /\ f.num = left - right
    BY <1>8, <2>2
  <2>4. a.den - a.num = (m * n - 1) * s * seen /\ f.den - f.num = whole - left
    <3> DEFINE r == (m * n - 1) * s * seen
    <3>1. r \in Int
      <4> HIDE DEF seen
      <4> QED
        BY <1>5, <1>6
    <3> HIDE DEF r, chance, left, right, whole
    <3> QED
      BY <1>6, <2>3, <3>1 DEF r
  <2>5. ((m * n - 1) * s * seen) * (n * m) * (whole - right)
            = (n * m - 1) * (whole - left) * chance
    BY <1>2, AgreementIsScaled
  <2> HIDE DEF seen, chance, left, right, whole
  <2>6. (a.den - a.num) * (n * m) * f.den = (n * m - 1) * (f.den - f.num) * a.den
    BY <2>3, <2>4, <2>5
  <2> QED
    BY <2>6 DEF m, n
<1> HIDE DEF seen, chance
<1> QED
  BY <1>4, <1>7, <1>8

\* What the matrix holds, and that the statistics are of the matrix.
ReliabilityInv ==
    /\ matrix \in [Units -> [Coders -> Categories \cup {Missing}]]
    /\ stats = Report(matrix)

\* Nothing is labelled.
LEMMA ReliabilityBegins == RelInit => ReliabilityInv
  BY DEF RelInit, ReliabilityInv

\* The statistics are computed anew with every label.
LEMMA ReliabilityNext == ReliabilityInv /\ [RelNext]_relVars => ReliabilityInv'
<1> SUFFICES ASSUME ReliabilityInv, [RelNext]_relVars PROVE ReliabilityInv'
  OBVIOUS
<1>1. ASSUME NEW u \in Units, NEW c \in Coders, NEW k \in Categories, Label(u, c, k)
      PROVE  ReliabilityInv'
  BY <1>1 DEF ReliabilityInv, Label
<1>2. CASE UNCHANGED relVars
  BY <1>2 DEF ReliabilityInv, relVars
<1> QED
  BY <1>1, <1>2 DEF RelNext

\* Where no label is missing, the two coefficients say the same.
LEMMA ReliabilityImplies == ReliabilityInv => AlphaAgreesWithFleiss
<1> SUFFICES ASSUME ReliabilityInv, Complete, stats.fleiss # Undefined
             PROVE  AlphaAgreesWithFleiss
  BY DEF AlphaAgreesWithFleiss
<1>1. Full(matrix)
  BY DEF ReliabilityInv, Complete, Ratings, Full
<1>2. stats.alpha = KrippendorffsAlpha(matrix) /\ stats.fleiss = FleissKappa(matrix)
  BY DEF ReliabilityInv, Report
<1>3. (stats.alpha.den - stats.alpha.num) * (UnitsInAll * Raters) * stats.fleiss.den
          = (UnitsInAll * Raters - 1) * (stats.fleiss.den - stats.fleiss.num) * stats.alpha.den
  BY <1>1, <1>2, StatisticsAgree
<1> QED
  BY <1>3 DEF AlphaAgreesWithFleiss, UnitsInAll, Raters

\* Whichever ratings are missing, the reported alpha is what its definition makes
\* of those that are there.
LEMMA AlphaImplied == ReliabilityInv => AlphaOfRatings
<1> SUFFICES ASSUME ReliabilityInv PROVE AlphaOfRatings
  OBVIOUS
<1> DEFINE a == stats.alpha
           units == {u \in Units : Cardinality(Ratings(matrix, u)) >= 2}
           size(u) == Cardinality(Ratings(matrix, u))
           differing(u) == {p \in Ratings(matrix, u) \X Ratings(matrix, u) :
                                matrix[u][p[1]] # matrix[u][p[2]]}
           N == SumFunction([u \in units |-> size(u)])
           D == SumFunction([u \in units |->
                                 (Scale \div (size(u) - 1)) * Cardinality(differing(u))])
           E == N * N - SumFunction([k \in Categories |->
                                         Total(matrix, units, k) * Total(matrix, units, k)])
<1>1. Gaps(matrix) /\ a = KrippendorffsAlpha(matrix)
  BY DEF ReliabilityInv, Report, Gaps
<1>2. units = Pairable(matrix)
  BY DEF Pairable, SizeOf
<1>3. N = RatingsInAll(matrix)
  BY DEF RatingsInAll, Pairable, SizeOf
<1>4. D = DifferingInAll(matrix)
  BY DEF DifferingInAll, Pairable, SizeOf, WeightOf, Weight, Differing
<1>5. E = ChanceOf(matrix)
  <2>1. SumFunction([k \in Categories |-> Total(matrix, units, k) * Total(matrix, units, k)])
            = SquaresOfTotals(matrix, Categories)
    BY DEF SquaresOfTotals, Pairable, SizeOf
  <2> HIDE DEF N, units
  <2> QED
    BY <1>3, <2>1 DEF ChanceOf
<1>6. N \in Int /\ D \in Int /\ E \in Int /\ Scale \in Int
  <2>1. Scale \in Int /\ SquaresOfTotals(matrix, Categories) \in Int
    BY ReliabilityAssumption, SquaresOfUsed
  <2>2. RatingsInAll(matrix) \in Int
    <3> DEFINE f == [u \in Pairable(matrix) |-> SizeOf(matrix, u)]
    <3>1. f \in [Pairable(matrix) -> Int]
      BY WeightOfUnit
    <3>2. SumFunction(f) \in Int
      <4> HIDE DEF f
      <4> QED
        BY <3>1, FiniteUse, SumType
    <3> QED
      BY <3>2 DEF RatingsInAll
  <2>3. DifferingInAll(matrix) \in Int
    <3> DEFINE f == [u \in Pairable(matrix) |-> WeightOf(matrix, u) * Cardinality(Differing(matrix, u))]
    <3>1. ASSUME NEW u \in Pairable(matrix)
          PROVE  WeightOf(matrix, u) \in Int /\ Cardinality(Differing(matrix, u)) \in Int
      <4>1. u \in Units /\ WeightOf(matrix, u) \in Nat /\ SizeOf(matrix, u) \in Nat
        BY WeightOfUnit
      <4>2. Cardinality(Differing(matrix, u))
                = SizeOf(matrix, u) * SizeOf(matrix, u) - Squares(matrix, u, UsedCategories(matrix))
        BY <1>1, <4>1, DifferingIs
      <4>3. Squares(matrix, u, UsedCategories(matrix)) \in Nat
        BY SquaresNatural
      <4> QED
        BY <4>1, <4>2, <4>3
    <3>2. f \in [Pairable(matrix) -> Int]
      BY <3>1
    <3>3. SumFunction(f) \in Int
      <4> HIDE DEF f
      <4> QED
        BY <3>2, FiniteUse, SumType
    <3> QED
      BY <3>3 DEF DifferingInAll
  <2> HIDE DEF N, D, E
  <2> QED
    BY <1>3, <1>4, <1>5, <2>1, <2>2, <2>3 DEF ChanceOf
<1>7. AlphaOfRatings =
          CASE units = {} -> a = Undefined
            [] units # {} /\ E = 0 -> a = One
            [] units # {} /\ E # 0 ->
                   a.den # 0 /\ (a.den - a.num) * Scale * E = (N - 1) * D * a.den
  BY DEF AlphaOfRatings
<1> HIDE DEF a, units, N, D, E
<1>8. CASE units = {}
  <2>1. a = Undefined
    BY <1>1, <1>2, <1>8, AlphaWithGaps
  <2> QED
    BY <1>7, <1>8, <2>1
<1>9. CASE units # {} /\ E = 0
  <2>1. a = One
    BY <1>1, <1>2, <1>5, <1>9, AlphaWithGaps
  <2> QED
    BY <1>7, <1>9, <2>1
<1>10. CASE units # {} /\ E # 0
  <2> DEFINE den == Scale * Scale * E
             rest == (N - 1) * Scale * D
  <2>1. den # 0 /\ a = [num |-> den - rest, den |-> den]
    BY <1>1, <1>2, <1>3, <1>4, <1>5, <1>10, AlphaWithGaps
  <2>2. den \in Int /\ rest \in Int
    BY <1>6
  <2>3. rest * Scale * E = (N - 1) * D * den
    <3>1. \A x, s, d, e \in Int : (x * s * d) * s * e = x * d * (s * s * e)
      OBVIOUS
    <3>2. N - 1 \in Int
      BY <1>6
    <3> QED
      BY <1>6, <3>1, <3>2
  <2> HIDE DEF den, rest
  <2>4. a.den = den /\ a.den - a.num = rest
    BY <2>1, <2>2
  <2>5. a.den # 0 /\ (a.den - a.num) * Scale * E = (N - 1) * D * a.den
    BY <2>1, <2>3, <2>4
  <2> QED
    BY <1>7, <1>10, <2>5
<1> QED
  BY <1>8, <1>9, <1>10

\* The agreement figures of any matrix, for any number of units, coders and
\* categories: the alpha of krippendorffs_alpha is what its definition makes of the
\* ratings that are there, and on complete data it is tied to the kappa of
\* fleiss_kappa, which is computed another way, by their textbook identity.
THEOREM AgreementSound == RelSpec => []AgreementIsSound
<1>1. RelInit => ReliabilityInv
  BY ReliabilityBegins
<1>2. ReliabilityInv /\ [RelNext]_relVars => ReliabilityInv'
  BY ReliabilityNext
<1>3. ReliabilityInv => AgreementIsSound
  BY ReliabilityImplies, AlphaImplied DEF AgreementIsSound
<1> QED
  BY <1>1, <1>2, <1>3, PTL DEF RelSpec
==============================================================================
