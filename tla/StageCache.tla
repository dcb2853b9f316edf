------------------------------ MODULE StageCache ------------------------------
(***************************************************************************)
(* One entry of the layered stage cache: get_or_compute and its async twin *)
(* in several processes.  L1 is a process's memory, L2 Redis (the pointer  *)
(* to the payload, a status, the compute lock), L3 the entry's directory   *)
(* and, when configured, object storage.  A lookup takes the first pointer *)
(* it finds in L1, Redis or meta.json and loads the payload it names; when *)
(* that fails it deletes every pointer, the lock and the directory.        *)
(*                                                                         *)
(* The key addresses the content: every computation of it gives the same   *)
(* payload.  Files are not written atomically, and a handle into a removed *)
(* directory writes to nothing.                                            *)
(***************************************************************************)
EXTENDS Naturals, FiniteSets

CONSTANTS
    Callers,    \* concurrent calls of get_or_compute
    Nobody,
    Small,      \* the payload is small enough for L1 to keep
    UseObjects, \* object storage is configured
    MaxFaults   \* bound: crashes, expiries, losses and errors

ASSUME StageAssumption ==
    /\ Nobody \notin Callers
    /\ Small \in BOOLEAN
    /\ UseObjects \in BOOLEAN
    /\ MaxFaults \in Nat

\* Processes, as many as there are callers: each has its own, or all share one.
\* (A thread and an asyncio task of one process use different lock tables; they
\* are modelled as two processes.)
Procs == Callers

VARIABLES
    files,  \* the entry's directory: whether it exists, payload file, meta.json
    object, \* the payload is in object storage
    redis,  \* pointer, whether the status is "ready", holder of the lock
    l1,     \* per process: nothing, the payload, or only the pointer
    plock,  \* holder of each process's lock of the key
    home,   \* the process a caller runs in
    pc,     \* where a caller is
    site,   \* what the lookup it makes is for
    token,  \* it set the Redis lock
    held,   \* distributed_lock yielded True to it
    kind,   \* storage its sidecar names
    open,   \* the file it is writing, if that still exists
    alone,  \* history: since its call began no other call ran and nothing failed
    faults  \* crashes, expiries, losses and errors so far

storeVars == <<files, object, redis, l1>>
callerVars == <<pc, site, token, held, kind, open, alone>>
vars == <<files, object, redis, l1, plock, home, pc, site, token, held, kind,
          open, alone, faults>>

Storage == {"local", "object"}

\* Lookups: before the lock, under it, while polling for it, while waiting
\* without it, before storing and after storing.
Sites == {"first", "again", "poll", "wait", "put", "final"}

Writing == {"mkdir", "openPayload", "closePayload", "upload", "openMeta",
            "closeMeta", "publish"}
Phases == {"idle", "look", "drop", "rmtree", "enter", "poll",
           "compute", "raise", "release"} \cup Writing

NoFiles == [dir |-> FALSE, payload |-> "none", meta |-> "none"]
NoPointers == [meta |-> "none", ready |-> FALSE, lock |-> Nobody]

Init ==
    /\ files = NoFiles
    /\ object = FALSE
    /\ redis = NoPointers
    /\ l1 = [p \in Procs |-> "none"]
    /\ plock = [p \in Procs |-> Nobody]
    /\ \/ home = [c \in Callers |-> c]
       \/ \E p \in Procs : home = [c \in Callers |-> p]
    /\ pc = [c \in Callers |-> "idle"]
    /\ site = [c \in Callers |-> "first"]
    /\ token = [c \in Callers |-> FALSE]
    /\ held = [c \in Callers |-> FALSE]
    /\ kind = [c \in Callers |-> "local"]
    /\ open = [c \in Callers |-> "none"]
    /\ alone = [c \in Callers |-> FALSE]
    /\ faults = 0

-----------------------------------------------------------------------------

Goto(c, phase) == pc' = [pc EXCEPT ![c] = phase] /\ UNCHANGED site

LookFor(c, s) ==
    /\ pc' = [pc EXCEPT ![c] = "look"]
    /\ site' = [site EXCEPT ![c] = s]

-----------------------------------------------------------------------------
(* Lookups *)

\* L1, else Redis, else meta.json.
Pointer(c) ==
    IF l1[home[c]] # "none" THEN l1[home[c]]
    ELSE IF redis.meta # "none" THEN redis.meta
    ELSE files.meta

\* The payload can be loaded from where the pointer says it is.
Readable(p) ==
    \/ p = "payload"
    \/ p = "local" /\ files.payload = "full"
    \/ p = "object" /\ object

\* What L1 keeps of an entry.
Kept(p) == IF Small THEN "payload" ELSE p

Found(c) ==
    \/ site[c] = "first" /\ Goto(c, "idle")
    \/ site[c] \in {"again", "wait", "final"} /\ Goto(c, "release")
    \/ site[c] = "poll" /\ LookFor(c, "again")
    \/ site[c] = "put" /\ LookFor(c, "final")

Missed(c) ==
    \/ site[c] = "first" /\ Goto(c, "enter")
    \/ site[c] = "again" /\ held[c] /\ Goto(c, "compute")
    \/ site[c] = "again" /\ ~held[c] /\ LookFor(c, "wait")
    \/ site[c] = "poll" /\ Goto(c, "poll")
    \/ site[c] = "wait" /\ LookFor(c, "wait")
    \/ site[c] = "put" /\ Goto(c, "mkdir")
    \/ site[c] = "final" /\ Goto(c, "raise")

\* The lookup raises; polling for the lock ends with it, a call does too.
LookupRaises(c) ==
    \/ site[c] = "first" /\ Goto(c, "idle")
    \/ site[c] = "poll" /\ LookFor(c, "again")
    \/ site[c] \in {"again", "wait"} /\ Goto(c, "release")
    \/ site[c] \in {"put", "final"} /\ Goto(c, "raise")

\* validate_stage_pointer; get_stage also keeps what it found in L1, has_stage
\* does not.
Look(c) ==
    /\ pc[c] = "look"
    /\ IF Readable(Pointer(c))
         THEN /\ Found(c)
              /\ l1' = IF site[c] \in {"poll", "put"} THEN l1
                       ELSE [l1 EXCEPT ![home[c]] = Kept(Pointer(c))]
         ELSE /\ IF Pointer(c) = "none" THEN Missed(c) ELSE Goto(c, "drop")
              /\ UNCHANGED l1
    /\ UNCHANGED <<files, object, redis, plock, home, token, held, kind, open,
                   alone, faults>>

\* _delete_stale_pointer: the pointers of all layers, the status and the lock,
\* then the directory, which another process may remove first.
Drop(c) ==
    /\ pc[c] = "drop"
    /\ l1' = [l1 EXCEPT ![home[c]] = "none"]
    /\ redis' = NoPointers
    /\ IF files.dir THEN Goto(c, "rmtree") ELSE Missed(c)
    /\ UNCHANGED <<files, object, plock, home, token, held, kind, open, alone,
                   faults>>

RemoveEntry(c) ==
    /\ pc[c] = "rmtree"
    /\ IF files.dir
         THEN /\ files' = NoFiles
              /\ open' = [d \in Callers |-> "none"]
              /\ Missed(c)
         ELSE LookupRaises(c) /\ UNCHANGED <<files, open>>
    /\ UNCHANGED <<object, redis, l1, plock, home, token, held, kind, alone, faults>>

-----------------------------------------------------------------------------
(* The locks *)

Ask(c) ==
    /\ pc[c] = "idle"
    /\ LookFor(c, "first")
    /\ alone' = [d \in Callers |-> d = c /\ \A e \in Callers : pc[e] = "idle"]
    /\ UNCHANGED <<storeVars, plock, home, token, held, kind, open, faults>>

EnterProcess(c) ==
    /\ pc[c] = "enter"
    /\ plock[home[c]] = Nobody
    /\ plock' = [plock EXCEPT ![home[c]] = c]
    /\ Goto(c, "poll")
    /\ UNCHANGED <<storeVars, home, token, held, kind, open, alone, faults>>

EnterTimeout(c) ==
    /\ pc[c] = "enter"
    /\ plock[home[c]] # Nobody
    /\ LookFor(c, "again")
    /\ UNCHANGED <<storeVars, plock, home, token, held, kind, open, alone, faults>>

\* SET NX; when the lock is taken but the status says ready, look whether it is.
Poll(c) ==
    /\ pc[c] = "poll"
    /\ \/ /\ redis.lock = Nobody
          /\ redis' = [redis EXCEPT !.lock = c]
          /\ token' = [token EXCEPT ![c] = TRUE]
          /\ held' = [held EXCEPT ![c] = TRUE]
          /\ LookFor(c, "again")
       \/ /\ redis.lock # Nobody
          /\ redis.ready
          /\ LookFor(c, "poll")
          /\ UNCHANGED <<redis, token, held>>
    /\ UNCHANGED <<files, object, l1, plock, home, kind, open, alone, faults>>

PollTimeout(c) ==
    /\ pc[c] = "poll"
    /\ LookFor(c, "again")
    /\ UNCHANGED <<storeVars, plock, home, token, held, kind, open, alone, faults>>

\* Mutant: a caller without the lock waits for somebody's result, always.
WaitAgain(c) == pc[c] = "look" /\ site[c] = "wait" /\ UNCHANGED vars

\* Without the lock, a caller waits a few seconds for somebody's result and
\* then computes too.
WaitTimeout(c) ==
    /\ pc[c] = "look"
    /\ site[c] = "wait"
    /\ Goto(c, "compute")
    /\ UNCHANGED <<storeVars, plock, home, token, held, kind, open, alone, faults>>

ReleaseWith(c, lock, holder) ==
    /\ pc[c] = "release"
    /\ redis' = [redis EXCEPT !.lock = lock]
    /\ plock' = [plock EXCEPT ![home[c]] = holder]
    /\ token' = [token EXCEPT ![c] = FALSE]
    /\ held' = [held EXCEPT ![c] = FALSE]
    /\ Goto(c, "idle")
    /\ UNCHANGED <<files, object, l1, home, kind, open, alone, faults>>

Lock(c) == IF token[c] /\ redis.lock = c THEN Nobody ELSE redis.lock
Holder(c) == IF plock[home[c]] = c THEN Nobody ELSE plock[home[c]]

\* Mutant: the lock is deleted without comparing the token.
ReleaseAny(c) ==
    ReleaseWith(c, IF token[c] THEN Nobody ELSE redis.lock, Holder(c))

\* Mutant: the process lock is released by holders of the token only.
ReleaseHeld(c) ==
    ReleaseWith(c, Lock(c), IF held[c] THEN Holder(c) ELSE plock[home[c]])

\* The finally block: the Redis lock if it is still ours, the process lock if
\* we got it.
Release(c) == ReleaseWith(c, Lock(c), Holder(c))

-----------------------------------------------------------------------------
(* Computing and storing *)

\* Status "computing", then the factory, then put_stage, which looks first.
Compute(c) ==
    /\ pc[c] = "compute"
    /\ redis' = [redis EXCEPT !.ready = FALSE]
    /\ LookFor(c, "put")
    /\ UNCHANGED <<files, object, l1, plock, home, token, held, kind, open, alone,
                   faults>>

\* Mutant: the directory must be new.
MkdirNew(c) ==
    /\ pc[c] = "mkdir"
    /\ files' = [files EXCEPT !.dir = TRUE]
    /\ Goto(c, IF files.dir THEN "raise" ELSE "openPayload")
    /\ UNCHANGED <<object, redis, l1, plock, home, token, held, kind, open, alone,
                   faults>>

Mkdir(c) ==
    /\ pc[c] = "mkdir"
    /\ files' = [files EXCEPT !.dir = TRUE]
    /\ Goto(c, "openPayload")
    /\ UNCHANGED <<object, redis, l1, plock, home, token, held, kind, open, alone,
                   faults>>

OpenPayload(c) ==
    /\ pc[c] = "openPayload"
    /\ IF files.dir
         THEN /\ files' = [files EXCEPT !.payload = "partial"]
              /\ open' = [open EXCEPT ![c] = "payload"]
              /\ Goto(c, "closePayload")
         ELSE Goto(c, "raise") /\ UNCHANGED <<files, open>>
    /\ UNCHANGED <<object, redis, l1, plock, home, token, held, kind, alone, faults>>

\* A file is whole when its writer closes it, unless another one truncated it.
Written(c, file, whole) ==
    IF open[c] # file THEN {files[file]}
    ELSE {whole} \cup (IF \E d \in Callers \ {c} : open[d] = file
                       THEN {"partial"} ELSE {})

ClosePayload(c) ==
    /\ pc[c] = "closePayload"
    /\ \E content \in Written(c, "payload", "full") :
        files' = [files EXCEPT !.payload = content]
    /\ open' = [open EXCEPT ![c] = "none"]
    /\ kind' = [kind EXCEPT ![c] = "local"]
    /\ Goto(c, IF UseObjects THEN "upload" ELSE "openMeta")
    /\ UNCHANGED <<object, redis, l1, plock, home, token, held, alone, faults>>

Upload(c) ==
    /\ pc[c] = "upload"
    /\ object' = TRUE
    /\ kind' = [kind EXCEPT ![c] = "object"]
    /\ Goto(c, "openMeta")
    /\ UNCHANGED <<files, redis, l1, plock, home, token, held, open, alone, faults>>

OpenMeta(c) ==
    /\ pc[c] = "openMeta"
    /\ IF files.dir
         THEN /\ files' = [files EXCEPT !.meta = "partial"]
              /\ open' = [open EXCEPT ![c] = "meta"]
              /\ Goto(c, "closeMeta")
         ELSE Goto(c, "raise") /\ UNCHANGED <<files, open>>
    /\ UNCHANGED <<object, redis, l1, plock, home, token, held, kind, alone, faults>>

CloseMeta(c) ==
    /\ pc[c] = "closeMeta"
    /\ \E content \in Written(c, "meta", kind[c]) :
        files' = [files EXCEPT !.meta = content]
    /\ open' = [open EXCEPT ![c] = "none"]
    /\ Goto(c, "publish")
    /\ UNCHANGED <<object, redis, l1, plock, home, token, held, kind, alone, faults>>

\* The pointer and status "ready" in Redis, the entry in L1; then get_stage.
Publish(c) ==
    /\ pc[c] = "publish"
    /\ redis' = [meta |-> kind[c], ready |-> TRUE, lock |-> redis.lock]
    /\ l1' = [l1 EXCEPT ![home[c]] = Kept(kind[c])]
    /\ LookFor(c, "final")
    /\ UNCHANGED <<files, object, plock, home, token, held, kind, open, alone, faults>>

\* Status "failed", and the exception leaves through the lock.
Raise(c) ==
    /\ pc[c] = "raise"
    /\ redis' = [redis EXCEPT !.ready = FALSE]
    /\ Goto(c, "release")
    /\ UNCHANGED <<files, object, l1, plock, home, token, held, kind, open, alone,
                   faults>>

-----------------------------------------------------------------------------
(* Faults *)

Fault ==
    /\ faults < MaxFaults
    /\ faults' = faults + 1
    /\ alone' = [c \in Callers |-> FALSE]

FactoryFails(c) ==
    /\ Fault
    /\ pc[c] = "compute"
    /\ Goto(c, "raise")
    /\ UNCHANGED <<storeVars, plock, home, token, held, kind, open>>

UploadFails(c) ==
    /\ Fault
    /\ pc[c] = "upload"
    /\ Goto(c, "openMeta")
    /\ UNCHANGED <<storeVars, plock, home, token, held, kind, open>>

\* Redis is away: without a client the process lock alone is the token, after
\* an error there is none.
RedisAway(c) ==
    /\ Fault
    /\ pc[c] = "poll"
    /\ held' \in {held, [held EXCEPT ![c] = TRUE]}
    /\ LookFor(c, "again")
    /\ UNCHANGED <<storeVars, plock, home, token, kind, open>>

\* The deletion of the Redis lock fails, which is only logged.
ReleaseFails(c) ==
    /\ Fault
    /\ pc[c] = "release"
    /\ token[c]
    /\ plock' = [plock EXCEPT ![home[c]] = Holder(c)]
    /\ token' = [token EXCEPT ![c] = FALSE]
    /\ held' = [held EXCEPT ![c] = FALSE]
    /\ Goto(c, "idle")
    /\ UNCHANGED <<storeVars, home, kind, open>>

\* The lock outlives its time to live: a leaked one, or one whose holder is
\* still at work.
ExpireLeaked ==
    /\ redis.lock # Nobody
    /\ ~token[redis.lock]
    /\ redis' = [redis EXCEPT !.lock = Nobody]
    /\ UNCHANGED <<files, object, l1, plock, home, callerVars, faults>>

ExpireHeld ==
    /\ Fault
    /\ redis.lock # Nobody
    /\ token[redis.lock]
    /\ redis' = [redis EXCEPT !.lock = Nobody]
    /\ UNCHANGED <<files, object, l1, plock, home, pc, site, token, held, kind, open>>

\* Pointers expire in Redis, objects by the bucket's lifecycle rule.
ExpireEntry ==
    /\ Fault
    /\ \/ redis' = [NoPointers EXCEPT !.lock = redis.lock] /\ UNCHANGED object
       \/ object' = FALSE /\ UNCHANGED redis
    /\ UNCHANGED <<files, l1, plock, home, pc, site, token, held, kind, open>>

\* A process dies in the middle of its calls.
Crash(p) ==
    LET dead == {c \in Callers : home[c] = p} IN
    /\ Fault
    /\ pc' = [c \in Callers |-> IF c \in dead THEN "idle" ELSE pc[c]]
    /\ token' = [c \in Callers |-> token[c] /\ c \notin dead]
    /\ held' = [c \in Callers |-> held[c] /\ c \notin dead]
    /\ open' = [c \in Callers |-> IF c \in dead THEN "none" ELSE open[c]]
    /\ plock' = [plock EXCEPT ![p] = Nobody]
    /\ l1' = [l1 EXCEPT ![p] = "none"]
    /\ UNCHANGED <<files, object, redis, home, site, kind>>

\* L1 is a least-recently-used cache of all keys.
Evict(p) ==
    /\ l1[p] # "none"
    /\ l1' = [l1 EXCEPT ![p] = "none"]
    /\ UNCHANGED <<files, object, redis, plock, home, callerVars, faults>>

\* An operator invalidates the key from process p, or the whole cache, which leaves
\* the objects.
Invalidate(p) ==
    /\ Fault
    /\ l1' = [l1 EXCEPT ![p] = "none"]
    /\ redis' = NoPointers
    /\ files' = NoFiles
    /\ open' = [c \in Callers |-> "none"]
    /\ object' \in {object, object /\ files.meta # "object"}
    /\ UNCHANGED <<plock, home, pc, site, token, held, kind>>

-----------------------------------------------------------------------------

Lookup(c) == Look(c) \/ Drop(c) \/ RemoveEntry(c)

Locking(c) ==
    EnterProcess(c) \/ EnterTimeout(c) \/ Poll(c) \/ Release(c)

Filling(c) ==
    \/ Compute(c) \/ Mkdir(c) \/ OpenPayload(c) \/ ClosePayload(c) \/ Upload(c)
    \/ OpenMeta(c) \/ CloseMeta(c) \/ Publish(c) \/ Raise(c)

Call(c) == Lookup(c) \/ Locking(c) \/ Filling(c)

Next ==
    \/ \E c \in Callers :
        \/ Ask(c) \/ Call(c) \/ PollTimeout(c) \/ WaitTimeout(c)
        \/ FactoryFails(c) \/ UploadFails(c) \/ RedisAway(c) \/ ReleaseFails(c)
    \/ ExpireLeaked \/ ExpireHeld \/ ExpireEntry
    \/ \E p \in Procs : Crash(p) \/ Evict(p) \/ Invalidate(p)

Spec == Init /\ [][Next]_vars

\* Threads and tasks run on; deadlines pass whatever the others do meanwhile.
FairSpec ==
    /\ Spec
    /\ \A c \in Callers : WF_vars(Call(c)) /\ SF_vars(PollTimeout(c) \/ WaitTimeout(c))

-----------------------------------------------------------------------------
(* Properties *)

\* Types of the layers and of the callers.
TypeOK ==
    /\ files \in [dir : BOOLEAN, payload : {"none", "partial", "full"},
                  meta : {"none", "partial"} \cup Storage]
    /\ object \in BOOLEAN
    /\ redis \in [meta : {"none"} \cup Storage, ready : BOOLEAN,
                  lock : Callers \cup {Nobody}]
    /\ l1 \in [Procs -> {"none", "payload"} \cup Storage]
    /\ plock \in [Procs -> Callers \cup {Nobody}]
    /\ home \in [Callers -> Procs]
    /\ pc \in [Callers -> Phases]
    /\ site \in [Callers -> Sites]
    /\ token \in [Callers -> BOOLEAN]
    /\ held \in [Callers -> BOOLEAN]
    /\ kind \in [Callers -> Storage]
    /\ open \in [Callers -> {"none", "payload", "meta"}]
    /\ alone \in [Callers -> BOOLEAN]
    /\ faults \in 0..MaxFaults

\* No way out of a call (hit, timeout, polling broken off, exception in a
\* lookup, failed store) keeps the process's lock, which has no time to live.
ProcessLockReleased ==
    \A c \in Callers, p \in Procs : plock[p] = c => home[c] = p /\ pc[c] # "idle"

\* A caller whose lock expired does not release the lock of whoever set it
\* since.
ReleaseKeepsOthers ==
    [][\A c, d \in Callers :
        (c # d /\ pc[c] = "release" /\ pc'[c] = "idle" /\ pc'[d] = pc[d]
            /\ redis.lock = d /\ token[d] /\ token'[d])
          => (redis'.lock = d \/ faults' # faults)]_vars

\* Whatever crashes, expiries, losses and races left behind (half-written
\* files, pointers to nothing, locks of the dead), a later call that runs alone
\* does not fail.
AloneSucceeds ==
    \A c \in Callers : alone[c] =>
        pc[c] # "raise" /\ (pc[c] = "rmtree" => files.dir)

\* Every call ends, by a result or an exception, whoever holds the locks, for
\* however long, and whether or not they are ever released.
CallsEnd == \A c \in Callers : pc[c] # "idle" ~> pc[c] = "idle"

\* The documented rule of distributed_lock: it "Yields True when this caller
\* holds the exclusive compute token".
ExclusiveToken == \A c, d \in Callers : held[c] /\ held[d] => c = d
=============================================================================
