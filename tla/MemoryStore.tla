------------------------------ MODULE MemoryStore ------------------------------
(***************************************************************************)
(* One user's memories: the external store (mem0), the registry that says  *)
(* which of them may be forgotten, and the cache of one recalled query.    *)
(* remember, recall and forget of MemoryService are requests whose awaits  *)
(* interleave; any may be cut short, which rolls its transaction back.     *)
(***************************************************************************)
EXTENDS Naturals, FiniteSets

CONSTANTS
    Memories,    \* the ids mem0 gives out, each once
    Callers,     \* bound: requests at a time
    RecallLimit  \* limit of a recall

ASSUME MemoryAssumption == RecallLimit \in Nat \ {0}

VARIABLES
    stored,     \* memories in mem0
    forgotten,  \* memories that mem0 has deleted
    registry,   \* status of each memory's MemoryRegistry row, or "none"
    cached,     \* [found |-> memories], or [miss]: the cached search
    reachable,  \* mem0 could be set up when the process started
    audited,    \* MEMORY_AUDIT_ENABLED
    call        \* what each caller is doing

memoryVars == <<stored, forgotten, registry, cached, reachable, audited, call>>

Miss == [hit |-> FALSE, found |-> {}]
Cached(items) == [hit |-> TRUE, found |-> items]

\* A call is at a step, about a memory or with the items of a search.
AtRest == [at |-> "rest", of |-> {}]
Step(step, items) == [at |-> step, of |-> items]

MemoryInit ==
    /\ stored = {} /\ forgotten = {}
    /\ registry = [m \in Memories |-> "none"]
    /\ cached = Miss
    /\ reachable \in BOOLEAN /\ audited \in BOOLEAN
    /\ call = [c \in Callers |-> AtRest]

Goes(c, step, items) == call' = [call EXCEPT ![c] = Step(step, items)]
Ends(c) == call' = [call EXCEPT ![c] = AtRest]

-----------------------------------------------------------------------------
(* remember *)

\* mem0.add: a new memory, or nothing from the adapter that stands in for an
\* unreachable store.  An answer that is lost leaves a memory nobody registers.
Remember(c, m) ==
    /\ call[c].at = "rest" /\ reachable
    /\ m \notin stored \cup forgotten
    /\ stored' = stored \cup {m}
    /\ \/ Goes(c, "added", {m})
       \/ UNCHANGED call
    /\ UNCHANGED <<forgotten, registry, cached, reachable, audited>>

\* The row is flushed and the cache cleared, before anything is committed.
ClearAfterAdd(c) ==
    /\ call[c].at = "added"
    /\ cached' \in {Miss, cached}    \* an error of the cache is only logged
    /\ Goes(c, "cleared", call[c].of)
    /\ UNCHANGED <<stored, forgotten, registry, reachable, audited>>

\* Only the branch that writes the audit log commits.
CommitAdd(c) ==
    /\ call[c].at = "cleared"
    /\ registry' = [m \in Memories |->
           IF audited /\ m \in call[c].of THEN "active" ELSE registry[m]]
    /\ Ends(c)
    /\ UNCHANGED <<stored, forgotten, cached, reachable, audited>>

-----------------------------------------------------------------------------
(* recall *)

\* Mutant: a hit is written back, and lives on.
ReadAndRefresh(c) ==
    /\ call[c].at = "rest"
    /\ IF cached.hit THEN Goes(c, "found", cached.found) ELSE Goes(c, "searching", {})
    /\ UNCHANGED <<stored, forgotten, registry, cached, reachable, audited>>

\* get_cached_memory_search: a hit is the answer, and changes nothing.
ReadCache(c) ==
    /\ call[c].at = "rest" /\ ~cached.hit
    /\ Goes(c, "searching", {})
    /\ UNCHANGED <<stored, forgotten, registry, cached, reachable, audited>>

\* The search of mem0; when it fails nothing is cached.
SearchStore(c) ==
    /\ call[c].at = "searching"
    /\ \/ \E found \in SUBSET (IF reachable THEN stored ELSE {}) :
              /\ Cardinality(found) <= RecallLimit
              /\ Goes(c, "found", found)
       \/ Ends(c)
    /\ UNCHANGED <<stored, forgotten, registry, cached, reachable, audited>>

\* set_cached_memory_search, or its failure.
FillCache(c) ==
    /\ call[c].at = "found"
    /\ cached' \in {Cached(call[c].of), cached}
    /\ Ends(c)
    /\ UNCHANGED <<stored, forgotten, registry, reachable, audited>>

-----------------------------------------------------------------------------
(* forget *)

\* Only an active row may be forgotten (404 otherwise).
AskForget(c, m) ==
    /\ call[c].at = "rest" /\ registry[m] = "active"
    /\ Goes(c, "forgetting", {m})
    /\ UNCHANGED <<stored, forgotten, registry, cached, reachable, audited>>

\* mem0.delete.  The adapter of an unreachable store only logs; an error, also
\* of a deletion that took place, ends the request with 503.
DeleteFromStore(c) ==
    /\ call[c].at = "forgetting"
    /\ \/ /\ reachable
          /\ stored' = stored \ call[c].of
          /\ forgotten' = forgotten \cup call[c].of
          /\ (Goes(c, "deleted", call[c].of) \/ Ends(c))
       \/ /\ ~reachable
          /\ Goes(c, "deleted", call[c].of)
          /\ UNCHANGED <<stored, forgotten>>
       \/ /\ reachable
          /\ Ends(c)
          /\ UNCHANGED <<stored, forgotten>>
    /\ UNCHANGED <<registry, cached, reachable, audited>>

\* mark_deleted, with the audit entry and its commit.
CommitForget(c) ==
    /\ call[c].at = "deleted"
    /\ registry' = [m \in Memories |->
           IF audited /\ m \in call[c].of THEN "deleted" ELSE registry[m]]
    /\ Goes(c, "unlisted", call[c].of)
    /\ UNCHANGED <<stored, forgotten, cached, reachable, audited>>

ClearAfterForget(c) ==
    /\ call[c].at = "unlisted"
    /\ cached' \in {Miss, cached}
    /\ Ends(c)
    /\ UNCHANGED <<stored, forgotten, registry, reachable, audited>>

-----------------------------------------------------------------------------

\* A caller goes away, or its process dies.
Dropped(c) ==
    /\ call[c].at # "rest"
    /\ Ends(c)
    /\ UNCHANGED <<stored, forgotten, registry, cached, reachable, audited>>

\* CACHE_MEMORY_SEARCH_TTL_SECONDS have passed.
Expire ==
    /\ cached.hit
    /\ cached' = Miss
    /\ UNCHANGED <<stored, forgotten, registry, reachable, audited, call>>

\* A restart, with mem0 configured or not.
Restart ==
    /\ reachable' \in BOOLEAN
    /\ call' = [c \in Callers |-> AtRest]
    /\ UNCHANGED <<stored, forgotten, registry, cached, audited>>

Proceed(c) ==
    \/ ClearAfterAdd(c) \/ CommitAdd(c)
    \/ SearchStore(c) \/ FillCache(c)
    \/ DeleteFromStore(c) \/ CommitForget(c) \/ ClearAfterForget(c)

MemoryNext ==
    \/ \E c \in Callers :
           \/ \E m \in Memories : Remember(c, m) \/ AskForget(c, m)
           \/ ReadCache(c)
           \/ Proceed(c)
           \/ Dropped(c)
    \/ Expire
    \/ Restart

\* Requests go on or are dropped, and the time to live runs out.
MemoryFairness ==
    /\ WF_memoryVars(Expire)
    /\ \A c \in Callers : WF_memoryVars(Proceed(c) \/ Dropped(c))

MemorySpec == MemoryInit /\ [][MemoryNext]_memoryVars /\ MemoryFairness

-----------------------------------------------------------------------------
(* Properties *)

\* What mem0 has deleted is in the end recalled no more: a cached answer that
\* a recall wrote after the forget had cleared the cache, or that a failed
\* forget never cleared, fades, since a hit does not prolong it.
ForgottenFades ==
    \A m \in Memories : [](m \in forgotten => <>[](m \notin cached.found))
=============================================================================
