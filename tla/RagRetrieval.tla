----------------------------- MODULE RagRetrieval -----------------------------
(***************************************************************************)
(* Questions asked of the index while documents are indexed, re-indexed    *)
(* and deleted (RagIngestion).  A question looks its user's entry up in    *)
(* the Redis cache; on a miss it runs the dense and the lexical search, two*)
(* statements that may see different commits, and stores what it found.    *)
(* The answer is generated from what was found and its citations are       *)
(* validated.  The question is relevant to every revision of the document, *)
(* so that a search finds whatever its filter lets it find.                *)
(***************************************************************************)
EXTENDS RagIngestion

CONSTANTS
    Questions,  \* questions being answered
    Users,      \* who may ask: the owner and members who share the document
    Owner,      \* the document's owner
    NoEntry,    \* not a set of revisions
    AllowSearchErrors,
    AllowCacheErrors  \* Redis may fail to read, write or delete

ASSUME RetrievalAssumption ==
    /\ Owner \in Users
    /\ ~ (NoEntry \subseteq 1..MaxRevision)
    /\ AllowSearchErrors \in BOOLEAN
    /\ AllowCacheErrors \in BOOLEAN

VARIABLES
    cache,     \* the entry of each user's question: the revisions of its chunks
    qpc,       \* questions: where they are
    asker,     \* who asks
    found,     \* revisions of the chunks found so far
    degraded,  \* a search branch failed
    verdict,   \* the citation validation's status
    served     \* history: revisions that were current of the indexed document

questionVars == <<qpc, asker, found, degraded, verdict>>
allVars == <<vars, cache, questionVars, served>>

Current == IF doc.status = "indexed" /\ ~doc.deleted THEN {doc.current} ELSE {}

RInit ==
    /\ Init
    /\ cache = [u \in Users |-> NoEntry]
    /\ qpc = [q \in Questions |-> "idle"]
    /\ asker = [q \in Questions |-> Owner]
    /\ found = [q \in Questions |-> {}]
    /\ degraded = [q \in Questions |-> FALSE]
    /\ verdict = [q \in Questions |-> "none"]
    /\ served = {}

-----------------------------------------------------------------------------
(* Questions *)

\* Writes to the cache are best effort.
CacheBecomes(c) == cache' = c \/ (AllowCacheErrors /\ UNCHANGED cache)

At(q, from, to) == qpc[q] = from /\ qpc' = [qpc EXCEPT ![q] = to]

Ask(q, u) ==
    /\ At(q, "idle", "lookup")
    /\ asker' = [asker EXCEPT ![q] = u]
    /\ UNCHANGED <<vars, cache, found, degraded, verdict>>

\* get_cached_retrieval; when Redis does not answer, that is a miss.
Lookup(q) ==
    /\ \/ /\ cache[asker[q]] # NoEntry
          /\ At(q, "lookup", "generate")
          /\ found' = [found EXCEPT ![q] = cache[asker[q]]]
       \/ /\ cache[asker[q]] = NoEntry \/ AllowCacheErrors
          /\ At(q, "lookup", "first")
          /\ UNCHANGED found
    /\ UNCHANGED <<vars, cache, asker, degraded, verdict>>

\* One branch, dense or lexical, finds what is searchable now or fails.
SearchOnce(q) ==
    \/ /\ found' = [found EXCEPT ![q] = @ \cup Searchable]
       /\ UNCHANGED degraded
    \/ /\ AllowSearchErrors
       /\ degraded' = [degraded EXCEPT ![q] = TRUE]
       /\ UNCHANGED found

Search(q) ==
    /\ At(q, "first", "second") \/ At(q, "second", "store")
    /\ SearchOnce(q)
    /\ UNCHANGED <<vars, cache, asker, verdict>>

\* set_cached_retrieval, unless degraded.
Store(q) ==
    /\ At(q, "store", "generate")
    /\ IF degraded[q] THEN UNCHANGED cache
                      ELSE CacheBecomes([cache EXCEPT ![asker[q]] = found[q]])
    /\ UNCHANGED <<vars, asker, found, degraded, verdict>>

\* Mutant: chunks of several revisions of a document are accepted.
RevisionsConsistentAlways(q) == TRUE

\* Chunks of one document must be of one revision.
RevisionsConsistent(q) == \A v, w \in found[q] : v = w

\* Generate, validate the citations; the model may also cite badly.
Generate(q) ==
    /\ At(q, "generate", "answered")
    /\ verdict' = [verdict EXCEPT ![q] =
                     IF found[q] = {} THEN "no_context"
                     ELSE IF RevisionsConsistent(q) THEN "valid" ELSE "revision_mismatch"]
    /\ UNCHANGED <<vars, cache, asker, found, degraded>>

Close(q) ==
    /\ At(q, "answered", "idle")
    /\ asker' = [asker EXCEPT ![q] = Owner]
    /\ found' = [found EXCEPT ![q] = {}]
    /\ degraded' = [degraded EXCEPT ![q] = FALSE]
    /\ verdict' = [verdict EXCEPT ![q] = "none"]
    /\ UNCHANGED <<vars, cache>>

-----------------------------------------------------------------------------
(* The cache and the index *)

\* Mutant: entries are written without a time to live.
ExpireNever(u) == FALSE /\ UNCHANGED <<vars, cache, questionVars>>

\* CACHE_RETRIEVAL_TTL_SECONDS after it was written an entry goes.
Expire(u) ==
    /\ cache[u] # NoEntry
    /\ cache' = [cache EXCEPT ![u] = NoEntry]
    /\ UNCHANGED <<vars, questionVars>>

\* invalidate_retrieval_cache_for_document: the owner's keys.
InvalidateCache == CacheBecomes([cache EXCEPT ![Owner] = NoEntry])

\* The steps of the index that end with it ...
Invalidating ==
    \/ \E w \in Workers : Invalidate(w)
    \/ \E r \in Requests : ForgetDeleted(r)

\* ... and the others.
Indexing ==
    \/ \E r \in Requests : Request(r) \/ Respond(r) \/ PublishFails(r)
    \/ \E w \in Workers : Take(w) \/ Index(w) \/ DbError(w) \/ Crash(w)
    \/ Cleanup

IndexStep ==
    /\ \/ Invalidating /\ InvalidateCache
       \/ Indexing /\ UNCHANGED cache
    /\ UNCHANGED questionVars

Answering(q) == Lookup(q) \/ Search(q) \/ Store(q) \/ Generate(q) \/ Close(q)

RNext ==
    /\ \/ IndexStep
       \/ \E q \in Questions : Answering(q) \/ \E u \in Users : Ask(q, u)
       \/ \E u \in Users : Expire(u)
    /\ served' = served \cup Current'

RSpec == RInit /\ [][RNext]_allVars

\* A question asked is answered, an entry expires.
RetrievalFairness ==
    /\ \A q \in Questions : WF_qpc(Answering(q))
    /\ \A u \in Users : WF_cache(Expire(u))

RFairSpec == RSpec /\ RetrievalFairness

-----------------------------------------------------------------------------
(* Properties *)

\* Types of the cache and of the questions.
RTypeOK ==
    /\ cache \in [Users -> {NoEntry} \cup SUBSET (1..MaxRevision)]
    /\ qpc \in [Questions -> {"idle", "lookup", "first", "second", "store",
                              "generate", "answered"}]
    /\ asker \in [Questions -> Users]
    /\ found \in [Questions -> SUBSET (1..MaxRevision)]
    /\ degraded \in [Questions -> BOOLEAN]
    /\ verdict \in [Questions -> {"none", "valid", "revision_mismatch", "no_context"}]
    /\ served \in SUBSET (1..MaxRevision)

\* What is answered, from the cache or not, had been indexed completely: never
\* the chunks a failed indexing left behind nor those of a revision never current.
FoundWasServed ==
    /\ \A q \in Questions : found[q] \subseteq served
    /\ \A u \in Users : cache[u] # NoEntry => cache[u] \subseteq served

\* An answer with validated citations draws on a single revision of the
\* document, although its two searches may have seen two.
ValidatedIsOneRevision ==
    \A q \in Questions : verdict[q] = "valid" => \E v \in served : found[q] = {v}

\* Stale entries heal: once what can be found stays the same (a deletion, a
\* completed re-index), from some point on every undegraded answer is made of it.
AnswersSettle ==
    \A S \in SUBSET (1..MaxRevision) :
        <>[](Searchable = S) =>
        <>[](\A q \in Questions : qpc[q] = "answered" /\ ~degraded[q] => found[q] = S)
=============================================================================
