------------------------------ MODULE RunEvents ------------------------------
(***************************************************************************)
(* How a browser learns what happened to a run.  Sessions that write the   *)
(* run queue a snapshot with every update; the snapshots of a committed    *)
(* transaction are published by unordered asyncio tasks on a Redis channel *)
(* that keeps nothing for late subscribers.  The events endpoint sends the *)
(* row it loads, then subscribes and forwards; from time to time, and      *)
(* always once Redis failed, it reads the row again.  The browser keeps    *)
(* the newest snapshot in its query cache, closes the stream on a terminal *)
(* event, and polls the run whenever it has no stream and shows an active  *)
(* status.                                                                 *)
(***************************************************************************)
EXTENDS Naturals, Sequences

CONSTANTS
    Workers,     \* sessions that execute the run
    Cancellers,  \* sessions that cancel it
    Nothing,     \* no snapshot
    MaxVersion,  \* bound: sessions stop updating at this run_version
    MaxWire,     \* bound: events the server may have sent and the client not read
    MaxBreaks    \* bound: connections lost

ASSUME BoundsAssumption ==
    /\ MaxVersion \in Nat
    /\ MaxWire \in Nat \ {0}
    /\ MaxBreaks \in Nat

VARIABLES
    row,       \* the committed run
    had,       \* history: terminal statuses the row has had
    base,      \* per writer: the run as it was loaded, or Nothing
    obj,       \* per writer: the run in its session
    queued,    \* per writer: session.info["research_run_events"]
    pend,      \* envelopes handed to publish tasks that have not run
    srv,       \* the events() generator: where it is
    prev,      \* its `previous`
    inbox,     \* messages waiting on its subscription
    wire,      \* events sent and not yet received
    es,        \* the EventSource
    connected, \* the hook's state, which decides whether views poll
    cache,     \* the run in the query cache
    poll,      \* the response of a poll in flight
    breaks     \* connections lost so far

Writers == Workers \cup Cancellers

dbVars == <<row, had>>
writerVars == <<base, obj, queued>>
serverVars == <<srv, prev, inbox>>
clientVars == <<es, connected, cache, poll>>
vars == <<row, had, base, obj, queued, pend, srv, prev, inbox, wire,
          es, connected, cache, poll, breaks>>

Active == {"running"}
Terminal == {"completed", "cancelled"}

\* A snapshot of the run: AnalysisRunResponse.  Its event is named after its
\* status, so a terminal snapshot arrives as a terminal event.
Snapshot == [v : Nat, st : Active \cup Terminal]
Maybe == Snapshot \cup {Nothing}

ASSUME NothingAssumption == Nothing \notin Snapshot

Init ==
    /\ row = [v |-> 1, st |-> "running"]
    /\ had = {}
    /\ base = [w \in Writers |-> Nothing]
    /\ obj = [w \in Writers |-> Nothing]
    /\ queued = [w \in Writers |-> {}]
    /\ pend = {}
    /\ srv = "none"
    /\ prev = Nothing
    /\ inbox = <<>>
    /\ wire = <<>>
    /\ es = "connecting"
    /\ connected = FALSE
    /\ cache = Nothing
    /\ poll = Nothing
    /\ breaks = 0

-----------------------------------------------------------------------------
(* Writers *)

\* A session loads the run.
LoadRun(w) ==
    /\ base[w] = Nothing
    /\ row.st \in Active
    /\ base' = [base EXCEPT ![w] = row]
    /\ obj' = [obj EXCEPT ![w] = row]
    /\ UNCHANGED <<dbVars, queued, pend, serverVars, wire, clientVars, breaks>>

Updated(w, st) == [v |-> obj[w].v + 1, st |-> st]

\* Mutant: the snapshot is published as it is flushed.
UpdateRunPublishes(w, st) ==
    /\ base[w] # Nothing
    /\ obj[w].st \in Active
    /\ obj[w].v < MaxVersion
    /\ obj' = [obj EXCEPT ![w] = Updated(w, st)]
    /\ pend' = pend \cup {Updated(w, st)}
    /\ UNCHANGED <<dbVars, base, queued, serverVars, wire, clientVars, breaks>>

\* What each writer may make of the status.
Outcome(w) == IF w \in Cancellers THEN {"cancelled"} ELSE {"running", "completed"}

\* update_run, plain or through the *_if_active rules: count the version of the
\* object up, set the status, queue the object's snapshot.
UpdateRun(w, st) ==
    /\ base[w] # Nothing
    /\ obj[w].st \in Active
    /\ obj[w].v < MaxVersion
    /\ obj' = [obj EXCEPT ![w] = Updated(w, st)]
    /\ queued' = [queued EXCEPT ![w] = @ \cup {Updated(w, st)}]
    /\ UNCHANGED <<dbVars, base, pend, serverVars, wire, clientVars, breaks>>

\* The columns the session changed reach the row, and one publish task per
\* queued snapshot is created.
Commit(w) ==
    LET st == IF obj[w].st # base[w].st THEN obj[w].st ELSE row.st
    IN  /\ obj[w] # base[w]
        /\ row' = [v |-> obj[w].v, st |-> st]
        /\ had' = had \cup ({st} \cap Terminal)
        /\ pend' = pend \cup queued[w]
        /\ queued' = [queued EXCEPT ![w] = {}]
        /\ base' = [base EXCEPT ![w] = obj[w]]
        /\ UNCHANGED <<obj, serverVars, wire, clientVars, breaks>>

\* The transaction rolls back, or the session is done; what was queued since
\* the last commit is discarded.
EndSession(w) ==
    /\ base[w] # Nothing
    /\ base' = [base EXCEPT ![w] = Nothing]
    /\ obj' = [obj EXCEPT ![w] = Nothing]
    /\ queued' = [queued EXCEPT ![w] = {}]
    /\ UNCHANGED <<dbVars, pend, serverVars, wire, clientVars, breaks>>

\* A publish task runs, in any order.  Redis drops the message when nobody is
\* subscribed, and the task gives up when Redis or its loop fails.
Publish(e) ==
    /\ pend' = pend \ {e}
    /\ inbox' \in IF srv = "redis" THEN {inbox, Append(inbox, e)} ELSE {inbox}
    /\ UNCHANGED <<dbVars, writerVars, srv, prev, wire, clientVars, breaks>>

-----------------------------------------------------------------------------
(* The events endpoint *)

\* The generator is resumed only as fast as the connection takes its events.
CanYield == Len(wire) < MaxWire

\* Yield a snapshot; the generator returns after a terminal one.
Yield(e, next) ==
    /\ CanYield
    /\ wire' = Append(wire, e)
    /\ prev' = e
    /\ srv' = IF e.st \in Terminal THEN "none" ELSE next

\* The first event is the row itself; the subscription comes after it.
SendFirst ==
    /\ srv = "first"
    /\ Yield(row, "subscribe")
    /\ inbox' = <<>>
    /\ UNCHANGED <<dbVars, writerVars, pend, clientVars, breaks>>

\* Subscribe; when Redis refuses, the generator raises and the stream ends.
Subscribe ==
    /\ srv = "subscribe"
    /\ srv' \in {"redis", "none"}
    /\ UNCHANGED <<dbVars, writerVars, pend, prev, inbox, wire, clientVars, breaks>>

\* Forward a message as it is.
ForwardMessage ==
    /\ srv = "redis"
    /\ inbox # <<>>
    /\ Yield(Head(inbox), "redis")
    /\ inbox' = Tail(inbox)
    /\ UNCHANGED <<dbVars, writerVars, pend, clientVars, breaks>>

\* get_message raises: go on without Redis.
LoseRedis ==
    /\ srv = "redis"
    /\ srv' = "poll"
    /\ inbox' = <<>>
    /\ UNCHANGED <<dbVars, writerVars, pend, prev, wire, clientVars, breaks>>

\* Read the row again, every 15 seconds without a message, or every 2 seconds
\* without Redis, and send it when it differs from the last event.
Reconcile ==
    /\ srv = "poll" \/ (srv = "redis" /\ inbox = <<>>)
    /\ prev # row
    /\ Yield(row, srv)
    /\ UNCHANGED <<dbVars, writerVars, pend, inbox, clientVars, breaks>>

-----------------------------------------------------------------------------
(* The browser *)

\* The response arrives: onopen.
Open ==
    /\ es = "connecting"
    /\ es' = "open"
    /\ connected' = TRUE
    /\ srv' = "first"
    /\ prev' = Nothing
    /\ UNCHANGED <<dbVars, writerVars, pend, inbox, wire, cache, poll, breaks>>

\* setQueryData keeps the cached run when the event carries an older version.
Merged(e) == IF cache # Nothing /\ e.v < cache.v THEN cache ELSE e

\* Mutant: closing the stream leaves the hook's state as it is.
ReceiveStaysConnected ==
    LET over == Head(wire).st \in Terminal
    IN  /\ es = "open"
        /\ wire # <<>>
        /\ cache' = Merged(Head(wire))
        /\ wire' = IF over THEN <<>> ELSE Tail(wire)
        /\ srv' = IF over THEN "none" ELSE srv
        /\ es' = IF over THEN "closed" ELSE es
        /\ UNCHANGED <<dbVars, writerVars, pend, prev, inbox, connected, poll, breaks>>

\* onEvent: merge the snapshot; a terminal event closes the source.
Receive ==
    LET over == Head(wire).st \in Terminal
    IN  /\ es = "open"
        /\ wire # <<>>
        /\ cache' = Merged(Head(wire))
        /\ wire' = IF over THEN <<>> ELSE Tail(wire)
        /\ srv' = IF over THEN "none" ELSE srv
        /\ es' = IF over THEN "closed" ELSE es
        /\ connected' = IF over THEN FALSE ELSE connected
        /\ UNCHANGED <<dbVars, writerVars, pend, prev, inbox, poll, breaks>>

Disconnected ==
    /\ es = "open"
    /\ es' = "connecting"
    /\ connected' = FALSE
    /\ srv' = "none"
    /\ wire' = <<>>
    /\ UNCHANGED <<dbVars, writerVars, pend, prev, inbox, cache, poll>>

\* onerror: the stream ended without a terminal event; the browser reconnects.
StreamEnded ==
    /\ srv = "none"
    /\ wire = <<>>
    /\ Disconnected
    /\ UNCHANGED breaks

\* The connection breaks and takes with it what was on the wire.
Break ==
    /\ breaks < MaxBreaks
    /\ breaks' = breaks + 1
    /\ Disconnected

\* The query fetches the run when it has none, and at every refetchInterval.
PollRead ==
    /\ poll = Nothing
    /\ cache # Nothing => (~connected /\ cache.st \in Active)
    /\ poll' = row
    /\ UNCHANGED <<dbVars, writerVars, pend, serverVars, wire, es, connected, cache, breaks>>

\* Its response replaces what events put in the cache meanwhile.
PollAnswer ==
    /\ poll # Nothing
    /\ cache' = poll
    /\ poll' = Nothing
    /\ UNCHANGED <<dbVars, writerVars, pend, serverVars, wire, es, connected, breaks>>

-----------------------------------------------------------------------------

Write(w) ==
    \/ LoadRun(w)
    \/ \E st \in Outcome(w) : UpdateRun(w, st)
    \/ Commit(w)
    \/ EndSession(w)

Serve == SendFirst \/ Subscribe \/ ForwardMessage \/ Reconcile

Browse == Open \/ Receive \/ StreamEnded

Poll == PollRead \/ PollAnswer

Next ==
    \/ \E w \in Writers : Write(w)
    \/ \E e \in pend : Publish(e)
    \/ Serve \/ LoseRedis
    \/ Browse \/ Poll \/ Break

Spec == Init /\ [][Next]_vars

\* The server, the browser and its poll timer keep running.  Nothing is assumed
\* of the writers, of the publish tasks or of Redis.
FairSpec == Spec /\ WF_vars(Serve) /\ WF_vars(Browse) /\ WF_vars(Poll)

-----------------------------------------------------------------------------
(* Properties *)

\* Types of the row, of the sessions, of the stream and of the browser's state.
TypeOK ==
    /\ row \in Snapshot
    /\ had \subseteq Terminal
    /\ base \in [Writers -> Maybe]
    /\ obj \in [Writers -> Maybe]
    /\ queued \in [Writers -> SUBSET Snapshot]
    /\ pend \in SUBSET Snapshot
    /\ srv \in {"none", "first", "subscribe", "redis", "poll"}
    /\ prev \in Maybe
    /\ inbox \in Seq(Snapshot)
    /\ wire \in Seq(Snapshot)
    /\ Len(wire) <= MaxWire
    /\ es \in {"connecting", "open", "closed"}
    /\ connected \in BOOLEAN
    /\ cache \in Maybe
    /\ poll \in Maybe
    /\ breaks \in Nat

\* The browser never shows an outcome the run has not had: a snapshot of a
\* transaction that is still open, or was rolled back, is never published.
OutcomeShownWasCommitted ==
    cache # Nothing => cache.st \in Active \cup had

\* Whatever is lost, reordered or delayed, and although a cancel may carry an
\* older run_version than the progress already shown, the browser of a run that
\* settled for good ends up showing that outcome and keeps it.
OutcomeIsShown ==
    \A st \in Terminal : row.st = st ~> (had # {st} \/ [](cache # Nothing /\ cache.st = st))
=============================================================================
