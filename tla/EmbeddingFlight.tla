---------------------------- MODULE EmbeddingFlight ----------------------------
(***************************************************************************)
(* embed_texts_with_cache: callers on one event loop look texts up in      *)
(* Redis, embed what is missing and share the embedding of a key that      *)
(* another caller already has under way, through a future in _INFLIGHT.    *)
(* Texts of one Unicode normal form have one key.  A text that is too long *)
(* for the cache has none.  A caller may be cancelled at any await, as     *)
(* asyncio.wait_for does to an answer that takes too long.                 *)
(*                                                                         *)
(* _FLIGHT_GUARD is never held across an await, so what a caller does      *)
(* between two awaits is one step.  _trim_inflight drops only futures that *)
(* are done, which count as absent anyway.                                 *)
(***************************************************************************)
EXTENDS Naturals, Sequences

CONSTANTS
    Embedders,  \* bound: calls, each of them one task
    TextLists,  \* bound: what a call may ask for, sequences of distinct texts
    KeyOf,      \* the cache key of each text, or NoKey
    NoKey,
    NoOwner

ASSUME FlightAssumption ==
    /\ NoOwner \notin Embedders
    /\ TextLists \subseteq Seq(DOMAIN KeyOf)

Keys == {KeyOf[t] : t \in DOMAIN KeyOf} \ {NoKey}

VARIABLES
    inflight,  \* _INFLIGHT: the caller whose future a key has, or NoOwner
    future,    \* the future that each caller registered for each key
    progress,  \* the await each caller is at, or how its call ended
    waits      \* wait_futures: owner and key of the future that each position of a
               \* call's texts waits for, if any

flightVars == <<inflight, future, progress, waits>>

Ended == {"done", "failed", "cancelled"}

FlightInit ==
    /\ inflight = [k \in Keys |-> NoOwner]
    /\ future = [c \in Embedders |-> [k \in Keys |-> "none"]]
    /\ progress = [c \in Embedders |-> "idle"]
    /\ waits = [c \in Embedders |-> <<>>]

Reaches(c, step) ==
    /\ progress' = [progress EXCEPT ![c] = step]
    /\ waits' = IF step \in Ended THEN [waits EXCEPT ![c] = <<>>] ELSE waits

\* existing is not None and not existing.done()
UnderWay(k) == inflight[k] # NoOwner /\ future[inflight[k]][k] = "pending"

Registered(c) == {k \in Keys : future[c][k] # "none"}

\* current is future: what a caller leaves of its own in _INFLIGHT.
WithoutOwn(c) == [k \in Keys |-> IF inflight[k] = c THEN NoOwner ELSE inflight[k]]

StateOf(f) == future[f[1]][f[2]]

\* The wait loop: the first future without a vector decides.
AfterWaiting(c) ==
    LET open == {i \in DOMAIN waits[c] : StateOf(waits[c][i]) # "vector"} IN
    IF open = {} THEN "done"
    ELSE LET first == CHOOSE i \in open : \A j \in open : i <= j IN
         CASE StateOf(waits[c][first]) = "pending" -> "waiting"
           [] StateOf(waits[c][first]) = "error" -> "failed"
           [] StateOf(waits[c][first]) = "cancelled" -> "cancelled"

Awaited(c) ==
    waits[c][CHOOSE i \in DOMAIN waits[c] :
        /\ StateOf(waits[c][i]) = "pending"
        /\ \A j \in DOMAIN waits[c] : j < i => StateOf(waits[c][j]) # "pending"]

-----------------------------------------------------------------------------

\* cache_mget_json has answered: any vectors may be in Redis, which other processes
\* fill too, and a failure gives none.  Each missing text is embedded by this
\* call, or waits for the future of its key: another call's, or this call's own,
\* of an earlier spelling.
Look(c, texts) ==
    /\ progress[c] = "idle"
    /\ \E hits \in SUBSET Keys :
         LET Key(i) == KeyOf[texts[i]]
             missing == {i \in DOMAIN texts : Key(i) \notin hits}
             Spelled(i) == \E j \in missing : j < i /\ Key(j) = Key(i)
             shared == {i \in missing : Key(i) # NoKey /\ (UnderWay(Key(i)) \/ Spelled(i))}
             own == {Key(i) : i \in missing \ shared} \ {NoKey}
             Registrant(k) == IF UnderWay(k) THEN inflight[k] ELSE c
         IN
         /\ inflight' = [k \in Keys |-> IF k \in own THEN c ELSE inflight[k]]
         /\ future' = [future EXCEPT ![c] = [k \in Keys |-> IF k \in own THEN "pending" ELSE @[k]]]
         /\ waits' = [waits EXCEPT ![c] = [i \in shared |-> <<Registrant(Key(i)), Key(i)>>]]
         /\ progress' = [progress EXCEPT ![c] =
                IF missing = {} THEN "done"
                ELSE IF missing # shared THEN "embedding"
                ELSE "waiting"]

\* The futures that a caller registered and that nobody has cancelled.
Resolved(c, as) ==
    [future EXCEPT ![c] = [k \in Keys |-> IF @[k] = "pending" THEN as ELSE @[k]]]

\* A vector for each text: results, futures, then cache_mset_json is sent.
EmbedAnswers(c) ==
    /\ progress[c] = "embedding"
    /\ future' = Resolved(c, "vector")
    /\ Reaches(c, IF Registered(c) = {} THEN AfterWaiting(c) ELSE "storing")
    /\ UNCHANGED inflight

\* Mutant: the futures of a failed embedding are dropped and left open.
EmbedFailsAlone(c) ==
    /\ progress[c] = "embedding"
    /\ inflight' = WithoutOwn(c)
    /\ Reaches(c, "failed")
    /\ UNCHANGED future

\* An error of the provider, or a wrong number of vectors.
EmbedFails(c) ==
    /\ progress[c] = "embedding"
    /\ future' = Resolved(c, "error")
    /\ inflight' = WithoutOwn(c)
    /\ Reaches(c, "failed")

\* cache_mset_json, whose errors are only logged, is over: the futures are dropped.
StoreVectors(c) ==
    /\ progress[c] = "storing"
    /\ inflight' = WithoutOwn(c)
    /\ Reaches(c, AfterWaiting(c))
    /\ UNCHANGED future

Wake(c) ==
    /\ progress[c] = "waiting" /\ AfterWaiting(c) # "waiting"
    /\ Reaches(c, AfterWaiting(c))
    /\ UNCHANGED <<inflight, future>>

\* CancelledError is no Exception: nothing is settled or dropped.  Cancelling a
\* task that awaits a future cancels the future, which others may share.
TimedOut(c) ==
    /\ progress[c] \in {"embedding", "storing", "waiting"}
    /\ Reaches(c, "cancelled")
    /\ IF progress[c] = "waiting" /\ AfterWaiting(c) = "waiting"
       THEN future' = [future EXCEPT ![Awaited(c)[1]] = [@ EXCEPT ![Awaited(c)[2]] = "cancelled"]]
       ELSE UNCHANGED future
    /\ UNCHANGED inflight

FlightNext ==
    \E c \in Embedders :
        \/ \E texts \in TextLists : Look(c, texts)
        \/ EmbedAnswers(c) \/ EmbedFails(c) \/ StoreVectors(c) \/ Wake(c) \/ TimedOut(c)

FlightSpec == FlightInit /\ [][FlightNext]_flightVars

-----------------------------------------------------------------------------
(* Properties *)

\* Nobody waits for a future that nobody will settle: who owns it is embedding
\* its key, not waiting itself (callers never wait in a circle, nor a call for its
\* own future), and an embedding that failed has failed its waiters.  The exception
\* is an owner that was cancelled, which the except clause does not see: its future
\* stays open in _INFLIGHT and every later caller of the key waits for ever.
WaitersAreServed ==
    \A c \in Embedders :
        progress[c] = "waiting" /\ AfterWaiting(c) = "waiting"
            => progress[Awaited(c)[1]] \in {"embedding", "cancelled"}
=============================================================================
