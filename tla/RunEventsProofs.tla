-------------------------- MODULE RunEventsProofs --------------------------
(***************************************************************************)
(* Proofs about the event stream of a run, for any numbers of writers and  *)
(* any bounds: the types, and that no browser is shown an outcome the run  *)
(* has not had.  The argument follows a snapshot from the session that     *)
(* queued it to the browser: while it is queued its status is the one the  *)
(* session is about to commit, and from the commit on it is a status the   *)
(* row has had, wherever it waits, is repeated or overtaken.               *)
(***************************************************************************)
EXTENDS RunEvents, TLAPS

\* Statuses that may be shown.
Known == Active \cup had

\* A place that is empty or holds a snapshot that may be shown.
Showable(x) == x # Nothing => x.st \in Known

\* A session without a run holds nothing; a session with one loaded it from the
\* row, and what it has queued is progress, or the outcome its object has.
SessionSound(w) ==
    /\ base[w] = Nothing => obj[w] = Nothing /\ queued[w] = {}
    /\ base[w] # Nothing => obj[w] # Nothing /\ base[w].st \in Known
    /\ \A e \in queued[w] : e.st \in Active \cup {obj[w].st}

SessionsSound == \A w \in Writers : SessionSound(w)

\* Everything between the commit and the browser may be shown.
StreamSound ==
    /\ row.st \in Known
    /\ \A e \in pend : e.st \in Known
    /\ \A i \in 1..Len(inbox) : inbox[i].st \in Known
    /\ \A i \in 1..Len(wire) : wire[i].st \in Known
    /\ Showable(cache)
    /\ Showable(poll)

IInv == TypeOK /\ SessionsSound /\ StreamSound

-----------------------------------------------------------------------------

\* Initially the row is running and everything else is empty.
LEMMA InitInv == Init => IInv
  <1> SUFFICES ASSUME Init PROVE IInv
    OBVIOUS
  <1>1. row \in Snapshot
    BY DEF Init, Snapshot, Active
  <1>2. inbox \in Seq(Snapshot) /\ wire \in Seq(Snapshot) /\ Len(wire) <= MaxWire
    BY BoundsAssumption DEF Init
  <1>3. TypeOK
    BY <1>1, <1>2 DEF Init, TypeOK, Maybe
  <1>4. SessionsSound
    BY DEF Init, SessionsSound, SessionSound
  <1>5. StreamSound
    BY <1>2 DEF Init, StreamSound, Showable, Known, Active
  <1> QED BY <1>3, <1>4, <1>5 DEF IInv

\* LoadRun: base and object are the row as it is.
LEMMA LoadRunInv == ASSUME IInv, NEW w \in Writers, LoadRun(w) PROVE IInv'
  <1>1. TypeOK'
    BY DEF IInv, TypeOK, LoadRun, Maybe, dbVars, serverVars, clientVars
  <1>2. SessionsSound'
    BY NothingAssumption
    DEF IInv, TypeOK, SessionsSound, SessionSound, StreamSound, LoadRun, Known,
        dbVars, Maybe
  <1>3. StreamSound'
    BY DEF IInv, StreamSound, Showable, Known, LoadRun, dbVars, serverVars, clientVars
  <1> QED BY <1>1, <1>2, <1>3 DEF IInv

\* UpdateRun: what was queued before is progress, for the object was active.
LEMMA UpdateRunInv ==
  ASSUME IInv, NEW w \in Writers, NEW st \in Outcome(w), UpdateRun(w, st)
  PROVE  IInv'
  <1>0. Updated(w, st) \in Snapshot
    BY DEF IInv, TypeOK, SessionsSound, SessionSound, UpdateRun, Updated, Outcome,
        Maybe, Snapshot, Active, Terminal
  <1>1. TypeOK'
    BY <1>0 DEF IInv, TypeOK, UpdateRun, Maybe, dbVars, serverVars, clientVars
  <1>2. SessionsSound'
    <2>1. \A e \in queued[w] : e.st \in Active
      BY DEF IInv, SessionsSound, SessionSound, UpdateRun
    <2> QED BY <1>0, <2>1, NothingAssumption
      DEF IInv, TypeOK, SessionsSound, SessionSound, UpdateRun, Updated, Known, dbVars
  <1>3. StreamSound'
    BY DEF IInv, StreamSound, Showable, Known, UpdateRun, dbVars, serverVars, clientVars
  <1> QED BY <1>1, <1>2, <1>3 DEF IInv

\* Commit: the object's status is one the row has had from now on, because it is
\* written, or is the one the session loaded.
LEMMA CommitInv == ASSUME IInv, NEW w \in Writers, Commit(w) PROVE IInv'
  <1> DEFINE st == IF obj[w].st # base[w].st THEN obj[w].st ELSE row.st
  <1>0. /\ base[w] \in Snapshot
        /\ obj[w] \in Snapshot
        /\ base[w].st \in Known
        /\ base[w] # Nothing
    BY DEF IInv, TypeOK, SessionsSound, SessionSound, Commit, Maybe
  <1>1. /\ st \in Active \cup Terminal
        /\ st \in Known'
        /\ obj[w].st \in Known'
        /\ Known \subseteq Known'
    BY <1>0 DEF IInv, TypeOK, StreamSound, Commit, Known, Snapshot
  <1>2. TypeOK'
    BY <1>0, <1>1 DEF IInv, TypeOK, Commit, Maybe, Snapshot, serverVars, clientVars
  <1>3. SessionsSound'
    BY <1>0, <1>1, NothingAssumption
    DEF IInv, TypeOK, SessionsSound, SessionSound, Commit
  <1>4. StreamSound'
    <2>1. \A e \in queued[w] : e.st \in Known'
      BY <1>1 DEF IInv, SessionsSound, SessionSound, Known
    <2>2. \A e \in pend' : e.st \in Known'
      BY <1>1, <2>1 DEF IInv, StreamSound, Commit
    <2> QED BY <1>1, <2>2 DEF IInv, StreamSound, Showable, Commit, serverVars, clientVars
  <1> QED BY <1>2, <1>3, <1>4 DEF IInv

\* EndSession: a session without a run holds nothing.
LEMMA EndSessionInv == ASSUME IInv, NEW w \in Writers, EndSession(w) PROVE IInv'
  <1>1. TypeOK'
    BY DEF IInv, TypeOK, EndSession, Maybe, dbVars, serverVars, clientVars
  <1>2. SessionsSound'
    BY DEF IInv, TypeOK, SessionsSound, SessionSound, EndSession, Known, dbVars
  <1>3. StreamSound'
    BY DEF IInv, StreamSound, Showable, Known, EndSession, dbVars, serverVars, clientVars
  <1> QED BY <1>1, <1>2, <1>3 DEF IInv

\* Publish: the message is one of the envelopes.
LEMMA PublishInv == ASSUME IInv, NEW e \in pend, Publish(e) PROVE IInv'
  <1>1. TypeOK'
    <2>1. inbox' \in Seq(Snapshot)
      <3>1. inbox \in Seq(Snapshot) /\ e \in Snapshot
        BY DEF IInv, TypeOK
      <3>2. inbox' = inbox \/ inbox' = Append(inbox, e)
        BY DEF Publish
      <3> QED BY <3>1, <3>2
    <2> QED BY <2>1 DEF IInv, TypeOK, Publish, dbVars, writerVars, clientVars
  <1>2. SessionsSound'
    BY DEF IInv, SessionsSound, SessionSound, Publish, Known, dbVars, writerVars
  <1>3. \A i \in 1..Len(inbox') : inbox'[i].st \in Known
    <2>1. inbox \in Seq(Snapshot) /\ e \in Snapshot /\ e.st \in Known
      BY DEF IInv, TypeOK, StreamSound
    <2>2. \A i \in 1..Len(Append(inbox, e)) : Append(inbox, e)[i].st \in Known
      <3>1. \A i \in 1..Len(inbox) : inbox[i].st \in Known
        BY DEF IInv, StreamSound
      <3> QED BY <2>1, <3>1
    <2> QED BY <2>2 DEF IInv, StreamSound, Publish
  <1>4. StreamSound'
    BY <1>3 DEF IInv, StreamSound, Showable, Known, Publish, dbVars, clientVars
  <1> QED BY <1>1, <1>2, <1>4 DEF IInv

-----------------------------------------------------------------------------

\* A step of the server or the browser leaves the row and the sessions alone.
LEMMA SessionsKept ==
  ASSUME IInv, UNCHANGED <<dbVars, writerVars>>
  PROVE  SessionsSound' /\ Known' = Known
  BY DEF IInv, SessionsSound, SessionSound, Known, dbVars, writerVars

\* Yield: the wire grows by a snapshot that may be shown.
LEMMA YieldSound ==
  ASSUME TypeOK, StreamSound, NEW e \in Snapshot, e.st \in Known,
         NEW next \in {"subscribe", "redis", "poll"}, Yield(e, next)
  PROVE  /\ wire' \in Seq(Snapshot)
         /\ Len(wire') <= MaxWire
         /\ prev' \in Maybe
         /\ srv' \in {"none", "first", "subscribe", "redis", "poll"}
         /\ \A i \in 1..Len(wire') : wire'[i].st \in Known
  BY BoundsAssumption DEF TypeOK, StreamSound, Yield, CanYield, Maybe

\* The endpoint: what it sends is the row, or a message it got.
LEMMA ServeInv == ASSUME IInv, Serve \/ LoseRedis PROVE IInv'
  <1>1. CASE SendFirst
    <2>1. /\ wire' \in Seq(Snapshot)
          /\ Len(wire') <= MaxWire
          /\ prev' \in Maybe
          /\ srv' \in {"none", "first", "subscribe", "redis", "poll"}
          /\ \A i \in 1..Len(wire') : wire'[i].st \in Known
      BY <1>1, YieldSound DEF IInv, TypeOK, StreamSound, SendFirst
    <2>2. SessionsSound' /\ Known' = Known
      BY <1>1, SessionsKept DEF SendFirst
    <2> QED BY <1>1, <2>1, <2>2
      DEF IInv, TypeOK, StreamSound, Showable, SendFirst, dbVars, writerVars, clientVars
  <1>2. CASE Subscribe
    <2>1. SessionsSound' /\ Known' = Known
      BY <1>2, SessionsKept DEF Subscribe
    <2> QED BY <1>2, <2>1
      DEF IInv, TypeOK, StreamSound, Showable, Subscribe, dbVars, writerVars, clientVars
  <1>3. CASE ForwardMessage
    <2>0. /\ Head(inbox) \in Snapshot
          /\ Head(inbox).st \in Known
          /\ Tail(inbox) \in Seq(Snapshot)
          /\ \A i \in 1..Len(Tail(inbox)) : Tail(inbox)[i].st \in Known
      BY <1>3 DEF IInv, TypeOK, StreamSound, ForwardMessage
    <2>1. /\ wire' \in Seq(Snapshot)
          /\ Len(wire') <= MaxWire
          /\ prev' \in Maybe
          /\ srv' \in {"none", "first", "subscribe", "redis", "poll"}
          /\ \A i \in 1..Len(wire') : wire'[i].st \in Known
      BY <1>3, <2>0, YieldSound DEF IInv, ForwardMessage
    <2>2. SessionsSound' /\ Known' = Known
      BY <1>3, SessionsKept DEF ForwardMessage
    <2> QED BY <1>3, <2>0, <2>1, <2>2
      DEF IInv, TypeOK, StreamSound, Showable, ForwardMessage, dbVars, writerVars, clientVars
  <1>4. CASE Reconcile
    <2>1. /\ wire' \in Seq(Snapshot)
          /\ Len(wire') <= MaxWire
          /\ prev' \in Maybe
          /\ srv' \in {"none", "first", "subscribe", "redis", "poll"}
          /\ \A i \in 1..Len(wire') : wire'[i].st \in Known
      BY <1>4, YieldSound DEF IInv, TypeOK, StreamSound, Reconcile
    <2>2. SessionsSound' /\ Known' = Known
      BY <1>4, SessionsKept DEF Reconcile
    <2> QED BY <1>4, <2>1, <2>2
      DEF IInv, TypeOK, StreamSound, Showable, Reconcile, dbVars, writerVars, clientVars
  <1>5. CASE LoseRedis
    <2>1. SessionsSound' /\ Known' = Known
      BY <1>5, SessionsKept DEF LoseRedis
    <2> QED BY <1>5, <2>1
      DEF IInv, TypeOK, StreamSound, Showable, LoseRedis, dbVars, writerVars, clientVars
  <1> QED BY <1>1, <1>2, <1>3, <1>4, <1>5 DEF Serve

\* The browser: it caches an event, or the row a poll has read.
LEMMA BrowseInv == ASSUME IInv, Browse \/ Poll \/ Break PROVE IInv'
  <1>1. CASE Open
    <2>1. SessionsSound' /\ Known' = Known
      BY <1>1, SessionsKept DEF Open
    <2> QED BY <1>1, <2>1
      DEF IInv, TypeOK, StreamSound, Showable, Open, Maybe, dbVars, writerVars
  <1>2. CASE Receive
    <2>0. /\ Head(wire) \in Snapshot
          /\ Head(wire).st \in Known
          /\ Tail(wire) \in Seq(Snapshot)
          /\ Len(Tail(wire)) <= MaxWire
          /\ \A i \in 1..Len(Tail(wire)) : Tail(wire)[i].st \in Known
      BY <1>2, BoundsAssumption DEF IInv, TypeOK, StreamSound, Receive
    <2>1. SessionsSound' /\ Known' = Known
      BY <1>2, SessionsKept DEF Receive
    <2>2. cache' \in Maybe /\ Showable(cache)'
      BY <1>2, <2>0, <2>1 DEF IInv, TypeOK, StreamSound, Showable, Receive, Merged, Maybe
    <2>3. /\ wire' \in Seq(Snapshot)
          /\ Len(wire') <= MaxWire
          /\ \A i \in 1..Len(wire') : wire'[i].st \in Known
      BY <1>2, <2>0, BoundsAssumption DEF Receive
    <2> QED BY <1>2, <2>1, <2>2, <2>3
      DEF IInv, TypeOK, StreamSound, Showable, Receive, dbVars, writerVars
  <1>3. CASE StreamEnded \/ Break
    <2>1. SessionsSound' /\ Known' = Known
      BY <1>3, SessionsKept DEF StreamEnded, Break, Disconnected
    <2>2. /\ wire' \in Seq(Snapshot)
          /\ Len(wire') <= MaxWire
          /\ \A i \in 1..Len(wire') : wire'[i].st \in Known
      <3>1. wire' = <<>>
        BY <1>3 DEF StreamEnded, Break, Disconnected
      <3> QED BY <3>1, BoundsAssumption
    <2>3. breaks' \in Nat
      BY <1>3 DEF IInv, TypeOK, StreamEnded, Break
    <2>4. /\ es' \in {"connecting", "open", "closed"}
          /\ connected' \in BOOLEAN
          /\ srv' \in {"none", "first", "subscribe", "redis", "poll"}
          /\ UNCHANGED <<row, had, base, obj, queued, pend, prev, inbox, cache, poll>>
      BY <1>3 DEF StreamEnded, Break, Disconnected, dbVars, writerVars
    <2> QED BY <2>1, <2>2, <2>3, <2>4 DEF IInv, TypeOK, StreamSound, Showable
  <1>4. CASE PollRead \/ PollAnswer
    <2>1. SessionsSound' /\ Known' = Known
      BY <1>4, SessionsKept DEF PollRead, PollAnswer
    <2> QED BY <1>4, <2>1
      DEF IInv, TypeOK, StreamSound, Showable, PollRead, PollAnswer, Maybe, dbVars,
          writerVars, serverVars
  <1> QED BY <1>1, <1>2, <1>3, <1>4 DEF Browse, Poll

-----------------------------------------------------------------------------

\* Every step keeps the invariant.
LEMMA StepInv == IInv /\ [Next]_vars => IInv'
  <1> SUFFICES ASSUME IInv, [Next]_vars PROVE IInv'
    OBVIOUS
  <1>1. ASSUME NEW w \in Writers, Write(w) PROVE IInv'
    BY <1>1, LoadRunInv, UpdateRunInv, CommitInv, EndSessionInv DEF Write
  <1>2. ASSUME NEW e \in pend, Publish(e) PROVE IInv'
    BY <1>2, PublishInv
  <1>3. CASE UNCHANGED vars
    BY <1>3 DEF IInv, TypeOK, SessionsSound, SessionSound, StreamSound, Showable, Known, vars
  <1> QED BY <1>1, <1>2, <1>3, ServeInv, BrowseInv DEF Next

\* The inductive invariant holds.
LEMMA Invariant == Spec => []IInv
  BY InitInv, StepInv, PTL DEF Spec

\* The row, the sessions, the stream and the browser keep their types.
THEOREM EventTypes == Spec => []TypeOK
  <1>1. IInv => TypeOK
    BY DEF IInv
  <1> QED BY <1>1, Invariant, PTL

\* However sessions race and however events are lost, reordered or overtaken, the
\* browser never shows an outcome the run has not had.
THEOREM ShownWasCommitted == Spec => []OutcomeShownWasCommitted
  <1>1. IInv => OutcomeShownWasCommitted
    BY DEF IInv, StreamSound, Showable, Known, OutcomeShownWasCommitted
  <1> QED BY <1>1, Invariant, PTL
=============================================================================
