--------------------------- MODULE StageCacheProofs ---------------------------
(***************************************************************************)
(* Theorems of StageCache for any number of callers, processes and faults: *)
(* the types, the process lock, the release of the Redis lock, and that a  *)
(* call that runs alone succeeds.                                          *)
(***************************************************************************)
EXTENDS StageCache, TLAPS

-----------------------------------------------------------------------------
(* Types *)

\* Nothing is cached and nobody has called.
LEMMA StageTypesInit == Init => TypeOK
<1> SUFFICES ASSUME Init PROVE TypeOK
  OBVIOUS
<1> USE StageAssumption DEF Init, Procs
<1>1. files \in [dir : BOOLEAN, payload : {"none", "partial", "full"},
                 meta : {"none", "partial"} \cup Storage]
      /\ redis \in [meta : {"none"} \cup Storage, ready : BOOLEAN,
                    lock : Callers \cup {Nobody}]
  BY DEF NoFiles, NoPointers
<1>2. home \in [Callers -> Procs] /\ plock \in [Procs -> Callers \cup {Nobody}]
  OBVIOUS
<1>3. pc \in [Callers -> Phases] /\ site \in [Callers -> Sites] /\ kind \in [Callers -> Storage]
  BY DEF Phases, Sites, Storage
<1>4. faults \in 0..MaxFaults
  OBVIOUS
<1>5. object \in BOOLEAN /\ token \in [Callers -> BOOLEAN] /\ held \in [Callers -> BOOLEAN]
      /\ alone \in [Callers -> BOOLEAN]
  BY Zenon
<1>6. open \in [Callers -> {"none", "payload", "meta"}]
      /\ l1 \in [Procs -> {"none", "payload"} \cup Storage]
  OBVIOUS
<1> QED
  BY <1>1, <1>2, <1>3, <1>4, <1>5, <1>6, Zenon DEF TypeOK

\* Where a lookup goes next.
LEMMA LookupGoes ==
    ASSUME TypeOK, NEW c \in Callers, Found(c) \/ Missed(c) \/ LookupRaises(c)
    PROVE  /\ pc' \in [Callers -> Phases] /\ site' \in [Callers -> Sites]
           /\ \A d \in Callers \ {c} : pc'[d] = pc[d] /\ site'[d] = site[d]
<1> USE DEF Goto, LookFor, TypeOK, Phases, Writing, Sites
<1>1. site[c] \in Sites
  OBVIOUS
<1>2. CASE site[c] = "first"
  BY <1>2 DEF Found, Missed, LookupRaises
<1>3. CASE site[c] = "again"
  BY <1>3 DEF Found, Missed, LookupRaises
<1>4. CASE site[c] = "poll"
  BY <1>4 DEF Found, Missed, LookupRaises
<1>5. CASE site[c] = "wait"
  BY <1>5 DEF Found, Missed, LookupRaises
<1>6. CASE site[c] = "put"
  BY <1>6 DEF Found, Missed, LookupRaises
<1>7. CASE site[c] = "final"
  BY <1>7 DEF Found, Missed, LookupRaises
<1> QED
  BY <1>1, <1>2, <1>3, <1>4, <1>5, <1>6, <1>7

\* Each step keeps the types.
LEMMA StageTypesNext == TypeOK /\ [Next]_vars => TypeOK'
<1> SUFFICES ASSUME TypeOK, [Next]_vars PROVE TypeOK'
  OBVIOUS
<1> USE StageAssumption DEF TypeOK, Storage
<1>1. ASSUME NEW c \in Callers, Look(c) PROVE TypeOK'
  <2>1. pc' \in [Callers -> Phases] /\ site' \in [Callers -> Sites]
    <3>1. CASE pc' = [pc EXCEPT ![c] = "drop"] /\ site' = site
      BY <3>1 DEF Phases
    <3> QED
      BY <1>1, <3>1, LookupGoes DEF Look, Goto
  <2>2. l1' \in [Procs -> {"none", "payload"} \cup Storage]
    <3>1. Readable(Pointer(c)) => Kept(Pointer(c)) \in {"payload"} \cup Storage
      BY DEF Readable, Kept
    <3> QED
      BY <1>1, <3>1 DEF Look
  <2> QED
    BY <1>1, <2>1, <2>2 DEF Look
<1>2. ASSUME NEW c \in Callers, Drop(c) PROVE TypeOK'
  <2>1. pc' \in [Callers -> Phases] /\ site' \in [Callers -> Sites]
    <3>1. CASE pc' = [pc EXCEPT ![c] = "rmtree"] /\ site' = site
      BY <3>1 DEF Phases
    <3> QED
      BY <1>2, <3>1, LookupGoes DEF Drop, Goto
  <2> QED
    BY <1>2, <2>1 DEF Drop, NoPointers
<1>3. ASSUME NEW c \in Callers, RemoveEntry(c) PROVE TypeOK'
  <2>1. pc' \in [Callers -> Phases] /\ site' \in [Callers -> Sites]
    BY <1>3, LookupGoes DEF RemoveEntry
  <2>2. files' \in [dir : BOOLEAN, payload : {"none", "partial", "full"},
                   meta : {"none", "partial"} \cup Storage]
    <3>1. files' = NoFiles \/ files' = files
      BY <1>3 DEF RemoveEntry
    <3>2. NoFiles \in [dir : BOOLEAN, payload : {"none", "partial", "full"},
                      meta : {"none", "partial"} \cup Storage]
      BY DEF NoFiles
    <3> QED
      BY <3>1, <3>2
  <2>3. open' \in [Callers -> {"none", "payload", "meta"}]
    BY <1>3 DEF RemoveEntry
  <2> QED
    BY <1>3, <2>1, <2>2, <2>3, Zenon DEF RemoveEntry
<1>4. ASSUME NEW c \in Callers, Ask(c) PROVE TypeOK'
  BY <1>4 DEF Ask, LookFor, storeVars, Phases, Sites
<1>5. ASSUME NEW c \in Callers, EnterProcess(c) \/ EnterTimeout(c) PROVE TypeOK'
  BY <1>5 DEF EnterProcess, EnterTimeout, LookFor, Goto, storeVars, Phases, Sites
<1>6. ASSUME NEW c \in Callers, Poll(c) PROVE TypeOK'
  <2>1. redis' \in [meta : {"none"} \cup Storage, ready : BOOLEAN,
                    lock : Callers \cup {Nobody}]
    BY <1>6 DEF Poll, LookFor, Phases, Sites
  <2>2. pc' \in [Callers -> Phases] /\ site' \in [Callers -> Sites]
    BY <1>6 DEF Poll, LookFor, Phases, Sites
  <2>3. token' \in [Callers -> BOOLEAN] /\ held' \in [Callers -> BOOLEAN]
    BY <1>6 DEF Poll, LookFor, Phases, Sites
  <2> QED
    BY <1>6, <2>1, <2>2, <2>3, Zenon DEF Poll, LookFor
<1>7. ASSUME NEW c \in Callers, PollTimeout(c) PROVE TypeOK'
  BY <1>7 DEF PollTimeout, LookFor, storeVars, Phases, Sites
<1>8. ASSUME NEW c \in Callers, WaitTimeout(c) PROVE TypeOK'
  BY <1>8 DEF WaitTimeout, Goto, storeVars, Phases, Sites
<1>9. ASSUME NEW c \in Callers, Compute(c) PROVE TypeOK'
  <2>1. redis' \in [meta : {"none"} \cup Storage, ready : BOOLEAN,
                    lock : Callers \cup {Nobody}]
    BY <1>9 DEF Compute, LookFor, Phases, Sites
  <2>2. pc' \in [Callers -> Phases] /\ site' \in [Callers -> Sites]
    BY <1>9 DEF Compute, LookFor, Phases, Sites
  <2> QED
    BY <1>9, <2>1, <2>2, Zenon DEF Compute, LookFor
<1>10. ASSUME NEW c \in Callers, Publish(c) PROVE TypeOK'
  <2>1. redis' \in [meta : {"none"} \cup Storage, ready : BOOLEAN,
                    lock : Callers \cup {Nobody}]
    BY <1>10 DEF Publish, LookFor, Kept, Phases, Sites
  <2>2. pc' \in [Callers -> Phases] /\ site' \in [Callers -> Sites]
    BY <1>10 DEF Publish, LookFor, Kept, Phases, Sites
  <2>3. l1' \in [Procs -> {"none", "payload"} \cup Storage]
    BY <1>10 DEF Publish, LookFor, Kept, Phases, Sites
  <2> QED
    BY <1>10, <2>1, <2>2, <2>3, Zenon DEF Publish, LookFor
<1>11. ASSUME NEW c \in Callers, Raise(c) PROVE TypeOK'
  <2>1. redis' \in [meta : {"none"} \cup Storage, ready : BOOLEAN,
                    lock : Callers \cup {Nobody}]
    BY <1>11 DEF Raise, Goto, Phases, Sites
  <2>2. pc' \in [Callers -> Phases] /\ site' \in [Callers -> Sites]
    BY <1>11 DEF Raise, Goto, Phases, Sites
  <2> QED
    BY <1>11, <2>1, <2>2, Zenon DEF Raise, Goto
<1>12. ASSUME NEW c \in Callers, Mkdir(c) PROVE TypeOK'
  <2>1. files' \in [dir : BOOLEAN, payload : {"none", "partial", "full"},
                   meta : {"none", "partial"} \cup Storage]
    BY <1>12 DEF Mkdir, Goto, Phases, Writing
  <2>2. pc' \in [Callers -> Phases] /\ site' \in [Callers -> Sites]
    BY <1>12 DEF Mkdir, Goto, Phases, Writing
  <2> QED
    BY <1>12, <2>1, <2>2, Zenon DEF Mkdir, Goto
<1>13. ASSUME NEW c \in Callers, OpenPayload(c) PROVE TypeOK'
  <2>1. files' \in [dir : BOOLEAN, payload : {"none", "partial", "full"},
                   meta : {"none", "partial"} \cup Storage]
    BY <1>13 DEF OpenPayload, Goto, Phases, Writing
  <2>2. pc' \in [Callers -> Phases] /\ site' \in [Callers -> Sites]
    BY <1>13 DEF OpenPayload, Goto, Phases, Writing
  <2>3. open' \in [Callers -> {"none", "payload", "meta"}]
    BY <1>13 DEF OpenPayload, Goto, Phases, Writing
  <2> QED
    BY <1>13, <2>1, <2>2, <2>3, Zenon DEF OpenPayload, Goto
<1>14. ASSUME NEW c \in Callers, OpenMeta(c) PROVE TypeOK'
  <2>1. files' \in [dir : BOOLEAN, payload : {"none", "partial", "full"},
                   meta : {"none", "partial"} \cup Storage]
    BY <1>14 DEF OpenMeta, Goto, Phases, Writing
  <2>2. pc' \in [Callers -> Phases] /\ site' \in [Callers -> Sites]
    BY <1>14 DEF OpenMeta, Goto, Phases, Writing
  <2>3. open' \in [Callers -> {"none", "payload", "meta"}]
    BY <1>14 DEF OpenMeta, Goto, Phases, Writing
  <2> QED
    BY <1>14, <2>1, <2>2, <2>3, Zenon DEF OpenMeta, Goto
<1>15. ASSUME NEW c \in Callers, Release(c) \/ ReleaseFails(c) PROVE TypeOK'
  <2>1. Lock(c) \in Callers \cup {Nobody} /\ Holder(c) \in Callers \cup {Nobody}
    BY DEF Lock, Holder, Procs
  <2>2. pc' = [pc EXCEPT ![c] = "idle"] /\ site' = site
        /\ plock' = [plock EXCEPT ![home[c]] = Holder(c)]
        /\ token' = [token EXCEPT ![c] = FALSE] /\ held' = [held EXCEPT ![c] = FALSE]
        /\ UNCHANGED <<files, object, l1, home, kind, open>>
    BY <1>15 DEF Release, ReleaseWith, ReleaseFails, Goto, storeVars
  <2>3. redis' = [redis EXCEPT !.lock = Lock(c)] \/ redis' = redis
    BY <1>15, Zenon DEF Release, ReleaseWith, ReleaseFails, storeVars
  <2>4. redis' \in [meta : {"none"} \cup Storage, ready : BOOLEAN,
                    lock : Callers \cup {Nobody}]
    <3>1. CASE redis' = redis
      BY <3>1
    <3>2. CASE redis' = [redis EXCEPT !.lock = Lock(c)]
      BY <2>1, <3>2
    <3> QED
      BY <2>3, <3>1, <3>2
  <2>5. alone' \in [Callers -> BOOLEAN]
    <3>1. CASE Release(c)
      BY <3>1 DEF Release, ReleaseWith
    <3>2. CASE ReleaseFails(c)
      BY <3>2 DEF ReleaseFails, Fault
    <3> QED
      BY <1>15, <3>1, <3>2
  <2>6. faults' \in 0..MaxFaults
    <3>1. faults' = faults \/ (faults < MaxFaults /\ faults' = faults + 1)
      BY <1>15, Zenon DEF Release, ReleaseWith, ReleaseFails, Fault
    <3> QED
      BY <3>1
  <2> QED
    BY <2>1, <2>2, <2>4, <2>5, <2>6 DEF Phases
<1>16. ASSUME NEW c \in Callers, ClosePayload(c) PROVE TypeOK'
  <2>1. PICK content \in Written(c, "payload", "full") :
            files' = [files EXCEPT !.payload = content]
    BY <1>16 DEF ClosePayload
  <2>2. content \in {"none", "partial", "full"}
    BY <2>1 DEF Written
  <2> QED
    BY <1>16, <2>1, <2>2 DEF ClosePayload, Goto, Phases, Writing
<1>17. ASSUME NEW c \in Callers, CloseMeta(c) PROVE TypeOK'
  <2>1. PICK content \in Written(c, "meta", kind[c]) :
            files' = [files EXCEPT !.meta = content]
    BY <1>17 DEF CloseMeta
  <2>2. content \in {"none", "partial"} \cup Storage
    BY <2>1 DEF Written
  <2> QED
    BY <1>17, <2>1, <2>2 DEF CloseMeta, Goto, Phases, Writing
<1>18. ASSUME NEW c \in Callers, Upload(c) PROVE TypeOK'
  BY <1>18 DEF Upload, Goto, Phases, Writing
<1>19. ASSUME NEW c \in Callers, UploadFails(c) PROVE TypeOK'
  <2>1. alone' \in [Callers -> BOOLEAN] /\ faults' \in 0..MaxFaults
    BY <1>19 DEF UploadFails, Fault, Goto, storeVars, Phases, Writing, Sites
  <2>2. pc' \in [Callers -> Phases] /\ site' \in [Callers -> Sites]
    BY <1>19 DEF UploadFails, Fault, Goto, storeVars, Phases, Writing, Sites
  <2> QED
    BY <1>19, <2>1, <2>2, Zenon DEF UploadFails, Goto, storeVars
<1>20. ASSUME NEW c \in Callers, FactoryFails(c) PROVE TypeOK'
  <2>1. alone' \in [Callers -> BOOLEAN] /\ faults' \in 0..MaxFaults
    BY <1>20 DEF FactoryFails, Fault, Goto, storeVars, Phases, Writing, Sites
  <2>2. pc' \in [Callers -> Phases] /\ site' \in [Callers -> Sites]
    BY <1>20 DEF FactoryFails, Fault, Goto, storeVars, Phases, Writing, Sites
  <2> QED
    BY <1>20, <2>1, <2>2, Zenon DEF FactoryFails, Goto, storeVars
<1>21. ASSUME NEW c \in Callers, RedisAway(c) PROVE TypeOK'
  <2>1. alone' \in [Callers -> BOOLEAN] /\ faults' \in 0..MaxFaults
    BY <1>21 DEF RedisAway, Fault, LookFor, storeVars, Phases, Writing, Sites
  <2>2. pc' \in [Callers -> Phases] /\ site' \in [Callers -> Sites]
    BY <1>21 DEF RedisAway, Fault, LookFor, storeVars, Phases, Writing, Sites
  <2>3. held' \in [Callers -> BOOLEAN]
    BY <1>21 DEF RedisAway, Fault, LookFor, storeVars, Phases, Writing, Sites
  <2> QED
    BY <1>21, <2>1, <2>2, <2>3, Zenon DEF RedisAway, LookFor, storeVars
<1>22. CASE ExpireLeaked
  <2>1. redis' \in [meta : {"none"} \cup Storage, ready : BOOLEAN,
                    lock : Callers \cup {Nobody}]
    BY <1>22 DEF ExpireLeaked, callerVars
  <2> QED
    BY <1>22, <2>1, Zenon DEF ExpireLeaked, callerVars
<1>23. CASE ExpireHeld
  <2>1. alone' \in [Callers -> BOOLEAN] /\ faults' \in 0..MaxFaults
    BY <1>23 DEF ExpireHeld, Fault
  <2>2. redis' \in [meta : {"none"} \cup Storage, ready : BOOLEAN,
                    lock : Callers \cup {Nobody}]
    BY <1>23 DEF ExpireHeld, Fault
  <2> QED
    BY <1>23, <2>1, <2>2, Zenon DEF ExpireHeld, Fault
<1>24. CASE ExpireEntry
  <2>1. alone' \in [Callers -> BOOLEAN] /\ faults' \in 0..MaxFaults
    BY <1>24 DEF ExpireEntry, Fault, NoPointers
  <2>2. redis' \in [meta : {"none"} \cup Storage, ready : BOOLEAN,
                    lock : Callers \cup {Nobody}]
    BY <1>24 DEF ExpireEntry, Fault, NoPointers
  <2>3. object' \in BOOLEAN
    BY <1>24 DEF ExpireEntry, Fault, NoPointers
  <2> QED
    BY <1>24, <2>1, <2>2, <2>3, Zenon DEF ExpireEntry, Fault
<1>25. ASSUME NEW p \in Procs, Crash(p) PROVE TypeOK'
  <2>1. alone' \in [Callers -> BOOLEAN] /\ faults' \in 0..MaxFaults
    BY <1>25 DEF Crash, Fault, Phases
  <2>2. token' \in [Callers -> BOOLEAN] /\ held' \in [Callers -> BOOLEAN]
    BY <1>25 DEF Crash, Fault, Phases
  <2>3. pc' \in [Callers -> Phases] /\ plock' \in [Procs -> Callers \cup {Nobody}]
    BY <1>25 DEF Crash, Fault, Phases
  <2>4. l1' \in [Procs -> {"none", "payload"} \cup Storage]
        /\ open' \in [Callers -> {"none", "payload", "meta"}]
    BY <1>25 DEF Crash, Fault, Phases
  <2> QED
    BY <1>25, <2>1, <2>2, <2>3, <2>4, Zenon DEF Crash, Fault
<1>26. ASSUME NEW p \in Procs, Evict(p) PROVE TypeOK'
  <2>1. l1' \in [Procs -> {"none", "payload"} \cup Storage]
    BY <1>26 DEF Evict, callerVars
  <2> QED
    BY <1>26, <2>1, Zenon DEF Evict, callerVars
<1>27. ASSUME NEW p \in Procs, Invalidate(p) PROVE TypeOK'
  <2>1. alone' \in [Callers -> BOOLEAN] /\ faults' \in 0..MaxFaults
    BY <1>27 DEF Invalidate, Fault, NoPointers, NoFiles
  <2>2. redis' \in [meta : {"none"} \cup Storage, ready : BOOLEAN,
                    lock : Callers \cup {Nobody}]
    BY <1>27 DEF Invalidate, Fault, NoPointers, NoFiles
  <2>3. files' \in [dir : BOOLEAN, payload : {"none", "partial", "full"},
                   meta : {"none", "partial"} \cup Storage]
    BY <1>27 DEF Invalidate, Fault, NoPointers, NoFiles
  <2>4. object' \in BOOLEAN
    BY <1>27 DEF Invalidate, Fault, NoPointers, NoFiles
  <2>5. l1' \in [Procs -> {"none", "payload"} \cup Storage]
        /\ open' \in [Callers -> {"none", "payload", "meta"}]
    BY <1>27 DEF Invalidate, Fault, NoPointers, NoFiles
  <2> QED
    BY <1>27, <2>1, <2>2, <2>3, <2>4, <2>5, Zenon DEF Invalidate, Fault
<1>28. CASE UNCHANGED vars
  BY <1>28 DEF vars
<1> QED
  BY <1>1, <1>2, <1>3, <1>4, <1>5, <1>6, <1>7, <1>8, <1>9, <1>10, <1>11, <1>12, <1>13, <1>14,
     <1>15, <1>16, <1>17,
     <1>18, <1>19, <1>20, <1>21, <1>22, <1>23, <1>24, <1>25, <1>26, <1>27, <1>28
  DEF Next, Call, Lookup, Locking, Filling

-----------------------------------------------------------------------------
(* The process lock *)

\* Before the process lock: a lookup, or waiting for the lock.
Entering(c) ==
    pc[c] \in {"idle", "enter"} \/ (pc[c] \in {"look", "drop", "rmtree"} /\ site[c] = "first")

\* Polling for the Redis lock, which only the holder of the process lock does.
Polling(c) == pc[c] = "poll" \/ (pc[c] \in {"look", "drop", "rmtree"} /\ site[c] = "poll")

\* What the position of a caller says of its process's lock.
Positioned(c) ==
    /\ Entering(c) => plock[home[c]] # c
    /\ Polling(c) => plock[home[c]] = c
    /\ held[c] => plock[home[c]] = c

LockInv ==
    \A c \in Callers : Positioned(c) /\ \A p \in Procs : plock[p] = c => home[c] = p

\* No lock is held.
LEMMA LockInit == Init => LockInv
<1> SUFFICES ASSUME Init PROVE LockInv
  OBVIOUS
<1>1. \A c \in Callers : home[c] \in Procs
  BY StageTypesInit DEF TypeOK
<1> QED
  BY <1>1, StageAssumption DEF Init, LockInv, Positioned, Entering, Polling

\* A step of one caller that leaves the process locks as they are.
LEMMA StepKeepsLocks ==
    ASSUME LockInv, NEW c \in Callers, UNCHANGED <<plock, home>>, Positioned(c)',
           \A d \in Callers \ {c} : pc'[d] = pc[d] /\ site'[d] = site[d] /\ held'[d] = held[d]
    PROVE  LockInv'
  BY DEF LockInv, Positioned, Entering, Polling

\* The lookups of a call keep its position before, at or after the lock.
LEMMA LookupKeepsLocks ==
    ASSUME TypeOK, LockInv, NEW c \in Callers, pc[c] \in {"look", "drop", "rmtree"},
           Found(c) \/ Missed(c) \/ LookupRaises(c), UNCHANGED <<plock, home, held>>
    PROVE  LockInv'
<1>1. \A d \in Callers \ {c} : pc'[d] = pc[d] /\ site'[d] = site[d]
  BY LookupGoes
<1>2. Positioned(c)
  BY DEF LockInv
<1>3. Positioned(c)'
  BY <1>2 DEF Positioned, Entering, Polling, Found, Missed, LookupRaises, Goto, LookFor, TypeOK
<1> QED
  BY <1>1, <1>3, StepKeepsLocks

\* Only who stands at a lock's release or acquisition moves it.
LEMMA LockNext == TypeOK /\ LockInv /\ [Next]_vars => LockInv'
<1> SUFFICES ASSUME TypeOK, LockInv, [Next]_vars PROVE LockInv'
  OBVIOUS
<1> USE StageAssumption DEF Procs
<1>0. \A c \in Callers : Positioned(c)
  BY DEF LockInv
<1>1. ASSUME NEW c \in Callers, Look(c) \/ Drop(c) \/ RemoveEntry(c) PROVE LockInv'
  <2>1. pc[c] \in {"look", "drop", "rmtree"} /\ UNCHANGED <<plock, home, held>>
    BY <1>1 DEF Look, Drop, RemoveEntry
  <2>2. CASE pc' \in {[pc EXCEPT ![c] = "drop"], [pc EXCEPT ![c] = "rmtree"]} /\ site' = site
    <3>1. Positioned(c)'
      BY <1>0, <2>1, <2>2 DEF Positioned, Entering, Polling, TypeOK
    <3> QED
      BY <2>1, <2>2, <3>1, StepKeepsLocks DEF TypeOK
  <2>3. CASE Found(c) \/ Missed(c) \/ LookupRaises(c)
    BY <2>1, <2>3, LookupKeepsLocks
  <2> QED
    BY <1>1, <2>2, <2>3 DEF Look, Drop, RemoveEntry, Goto
<1>2. ASSUME NEW c \in Callers, Ask(c) PROVE LockInv'
  <2>1. /\ UNCHANGED <<plock, home>>
        /\ \A d \in Callers \ {c} : pc'[d] = pc[d] /\ site'[d] = site[d] /\ held'[d] = held[d]
    BY <1>2 DEF Ask, LookFor, storeVars, TypeOK
  <2>2. Positioned(c)'
    BY <1>0, <1>2, <2>1 DEF Ask, LookFor, storeVars, Positioned, Entering,
       Polling, TypeOK
  <2> QED
    BY <2>1, <2>2, StepKeepsLocks
<1>3. ASSUME NEW c \in Callers, EnterTimeout(c) PROVE LockInv'
  <2>1. /\ UNCHANGED <<plock, home>>
        /\ \A d \in Callers \ {c} : pc'[d] = pc[d] /\ site'[d] = site[d] /\ held'[d] = held[d]
    BY <1>3 DEF EnterTimeout, LookFor, storeVars, TypeOK
  <2>2. Positioned(c)'
    BY <1>0, <1>3, <2>1 DEF EnterTimeout, LookFor, storeVars, Positioned, Entering,
       Polling, TypeOK
  <2> QED
    BY <2>1, <2>2, StepKeepsLocks
<1>4. ASSUME NEW c \in Callers, Poll(c) PROVE LockInv'
  <2>1. /\ UNCHANGED <<plock, home>>
        /\ \A d \in Callers \ {c} : pc'[d] = pc[d] /\ site'[d] = site[d] /\ held'[d] = held[d]
    BY <1>4 DEF Poll, LookFor, TypeOK
  <2>2. Positioned(c)'
    BY <1>0, <1>4, <2>1 DEF Poll, LookFor, Positioned, Entering,
       Polling, TypeOK
  <2> QED
    BY <2>1, <2>2, StepKeepsLocks
<1>5. ASSUME NEW c \in Callers, PollTimeout(c) \/ WaitTimeout(c) PROVE LockInv'
  <2>1. /\ UNCHANGED <<plock, home>>
        /\ \A d \in Callers \ {c} : pc'[d] = pc[d] /\ site'[d] = site[d] /\ held'[d] = held[d]
    BY <1>5 DEF PollTimeout, WaitTimeout, LookFor, Goto, storeVars, TypeOK
  <2>2. Positioned(c)'
    BY <1>0, <1>5, <2>1 DEF PollTimeout, WaitTimeout, LookFor, Goto, storeVars, Positioned, Entering,
       Polling, TypeOK
  <2> QED
    BY <2>1, <2>2, StepKeepsLocks
<1>6. ASSUME NEW c \in Callers,
             Compute(c) \/ Publish(c) \/ Raise(c)
      PROVE  LockInv'
  <2>1. /\ UNCHANGED <<plock, home>>
        /\ \A d \in Callers \ {c} : pc'[d] = pc[d] /\ site'[d] = site[d] /\ held'[d] = held[d]
    BY <1>6 DEF Compute, Publish, Raise, LookFor, Goto, TypeOK
  <2>2. Positioned(c)'
    BY <1>0, <1>6, <2>1 DEF Compute, Publish, Raise, LookFor, Goto, Positioned, Entering,
       Polling, TypeOK
  <2> QED
    BY <2>1, <2>2, StepKeepsLocks
<1>7. ASSUME NEW c \in Callers,
             Mkdir(c) \/ OpenPayload(c) \/ OpenMeta(c) \/ ClosePayload(c) \/ CloseMeta(c) \/ Upload(c)
      PROVE  LockInv'
  <2>1. /\ UNCHANGED <<plock, home>>
        /\ \A d \in Callers \ {c} : pc'[d] = pc[d] /\ site'[d] = site[d] /\ held'[d] = held[d]
    BY <1>7 DEF Mkdir, OpenPayload, OpenMeta, ClosePayload, CloseMeta, Upload, Goto, TypeOK
  <2>2. Positioned(c)'
    BY <1>0, <1>7, <2>1 DEF Mkdir, OpenPayload, OpenMeta, ClosePayload, CloseMeta, Upload, Goto,
             Positioned, Entering,
       Polling, TypeOK
  <2> QED
    BY <2>1, <2>2, StepKeepsLocks
<1>8. ASSUME NEW c \in Callers, FactoryFails(c) \/ UploadFails(c) PROVE LockInv'
  <2>1. /\ UNCHANGED <<plock, home>>
        /\ \A d \in Callers \ {c} : pc'[d] = pc[d] /\ site'[d] = site[d] /\ held'[d] = held[d]
    BY <1>8 DEF FactoryFails, UploadFails, Goto, storeVars, TypeOK
  <2>2. Positioned(c)'
    BY <1>0, <1>8, <2>1 DEF FactoryFails, UploadFails, Goto, storeVars, Positioned, Entering,
       Polling, TypeOK
  <2> QED
    BY <2>1, <2>2, StepKeepsLocks
<1>9. ASSUME NEW c \in Callers, RedisAway(c) PROVE LockInv'
  <2>1. /\ UNCHANGED <<plock, home>>
        /\ \A d \in Callers \ {c} : pc'[d] = pc[d] /\ site'[d] = site[d] /\ held'[d] = held[d]
    BY <1>9 DEF RedisAway, LookFor, storeVars, TypeOK
  <2>2. Positioned(c)'
    BY <1>0, <1>9, <2>1 DEF RedisAway, LookFor, storeVars, Positioned, Entering,
       Polling, TypeOK
  <2> QED
    BY <2>1, <2>2, StepKeepsLocks
<1>10. ASSUME NEW c \in Callers, EnterProcess(c) PROVE LockInv'
  <2>1. plock[home[c]] = Nobody /\ plock' = [plock EXCEPT ![home[c]] = c]
        /\ pc' = [pc EXCEPT ![c] = "poll"] /\ UNCHANGED <<home, site, held>>
    BY <1>10 DEF EnterProcess, Goto
  <2> QED
    BY <2>1 DEF LockInv, Positioned, Entering, Polling, TypeOK
<1>11. ASSUME NEW c \in Callers, Release(c) \/ ReleaseFails(c) PROVE LockInv'
  <2>1. pc' = [pc EXCEPT ![c] = "idle"] /\ held' = [held EXCEPT ![c] = FALSE]
        /\ plock' = [plock EXCEPT ![home[c]] = Holder(c)] /\ UNCHANGED <<home, site>>
    BY <1>11 DEF Release, ReleaseWith, ReleaseFails, Goto, storeVars
  <2> QED
    BY <2>1 DEF LockInv, Positioned, Entering, Polling, Holder, TypeOK
<1>12. ASSUME NEW p \in Procs, Crash(p) PROVE LockInv'
  <2>1. /\ pc' = [c \in Callers |-> IF home[c] = p THEN "idle" ELSE pc[c]]
        /\ \A c \in Callers : held'[c] => held[c] /\ home[c] # p
        /\ plock' = [plock EXCEPT ![p] = Nobody] /\ UNCHANGED <<home, site>>
    BY <1>12 DEF Crash, TypeOK
  <2> QED
    BY <2>1 DEF LockInv, Positioned, Entering, Polling, TypeOK
<1>13. CASE \/ ExpireLeaked \/ ExpireHeld \/ ExpireEntry \/ UNCHANGED vars
         \/ \E p \in Procs : Evict(p) \/ Invalidate(p)
  <2>1. UNCHANGED <<plock, home, pc, site, held>>
    BY <1>13 DEF ExpireLeaked, ExpireHeld, ExpireEntry, Evict, Invalidate, callerVars, vars
  <2> QED
    BY <2>1 DEF LockInv, Positioned, Entering, Polling
<1> QED
  BY <1>1, <1>2, <1>3, <1>4, <1>5, <1>6, <1>7, <1>8, <1>9, <1>10,
     <1>11, <1>12, <1>13
  DEF Next, Call, Lookup, Locking, Filling

\* For any number of calls and processes and whatever fails, expires or dies, the
\* cache and its callers have their types ...
THEOREM CacheTypes == Spec => []TypeOK
  BY StageTypesInit, StageTypesNext, PTL DEF Spec

\* ... and no process lock outlives the call that holds it.
THEOREM LocksReleased == Spec => []ProcessLockReleased
<1>1. LockInv => ProcessLockReleased
  BY DEF LockInv, Positioned, Entering, ProcessLockReleased
<1> QED
  BY <1>1, CacheTypes, LockInit, LockNext, PTL DEF Spec

-----------------------------------------------------------------------------
(* The Redis lock *)

\* What a caller itself may do next.
StepOf(c) ==
    \/ Ask(c) \/ Call(c) \/ PollTimeout(c) \/ WaitTimeout(c)
    \/ FactoryFails(c) \/ UploadFails(c) \/ RedisAway(c) \/ ReleaseFails(c)

\* A step of one caller leaves the others where they are.
LEMMA OthersKeepPlace ==
    ASSUME TypeOK, NEW c \in Callers, StepOf(c)
    PROVE  \A d \in Callers \ {c} : pc'[d] = pc[d]
<1> USE DEF TypeOK
<1>1. CASE Look(c) \/ Drop(c) \/ RemoveEntry(c)
  BY <1>1, LookupGoes DEF Look, Drop, RemoveEntry, Goto
<1>2. CASE Locking(c)
  BY <1>2 DEF Locking, EnterProcess, EnterTimeout, Poll, Release, ReleaseWith, Goto, LookFor
<1>3. CASE Filling(c)
  BY <1>3 DEF Filling, Compute, Mkdir, OpenPayload, ClosePayload, Upload, OpenMeta, CloseMeta,
     Publish, Raise, Goto, LookFor
<1>4. CASE \/ Ask(c) \/ PollTimeout(c) \/ WaitTimeout(c)
          \/ FactoryFails(c) \/ UploadFails(c) \/ RedisAway(c) \/ ReleaseFails(c)
  BY <1>4 DEF Ask, PollTimeout, WaitTimeout, FactoryFails, UploadFails, RedisAway,
     ReleaseFails, Goto, LookFor
<1> QED
  BY <1>1, <1>2, <1>3, <1>4 DEF StepOf, Call, Lookup

\* From the finally block there are two ways out.
LEMMA LeavesByRelease ==
    ASSUME TypeOK, NEW c \in Callers, StepOf(c), pc[c] = "release"
    PROVE  Release(c) \/ ReleaseFails(c)
  BY DEF StepOf, Call, Lookup, Locking, Filling, Look, Drop, RemoveEntry, Ask, EnterProcess,
     EnterTimeout, Poll, Compute, Mkdir, OpenPayload, ClosePayload, Upload, OpenMeta, CloseMeta,
     Publish, Raise, PollTimeout, WaitTimeout, FactoryFails, UploadFails, RedisAway

\* A caller whose lock has expired leaves the lock of its successor alone.
THEOREM ReleaseSpares == Spec => ReleaseKeepsOthers
<1>1. TypeOK /\ [Next]_vars =>
        [\A c, d \in Callers :
          (c # d /\ pc[c] = "release" /\ pc'[c] = "idle" /\ pc'[d] = pc[d]
              /\ redis.lock = d /\ token[d] /\ token'[d])
            => (redis'.lock = d \/ faults' # faults)]_vars
  <2> SUFFICES ASSUME TypeOK, Next, NEW c \in Callers, NEW d \in Callers, c # d,
                      pc[c] = "release", pc'[c] = "idle", redis.lock = d
               PROVE  redis'.lock = d \/ faults' # faults
    OBVIOUS
  <2>1. ASSUME NEW e \in Callers, StepOf(e) PROVE redis'.lock = d \/ faults' # faults
    <3>1. e = c
      BY <2>1, OthersKeepPlace
    <3>2. Release(c) \/ ReleaseFails(c)
      BY <2>1, <3>1, LeavesByRelease
    <3>3. CASE Release(c)
      <4>1. redis' = [redis EXCEPT !.lock = Lock(c)] /\ Lock(c) = d
        BY <3>3 DEF Release, ReleaseWith, Lock
      <4> QED
        BY <4>1 DEF TypeOK
    <3>4. CASE ReleaseFails(c)
      BY <3>4 DEF ReleaseFails, Fault, TypeOK
    <3> QED
      BY <3>2, <3>3, <3>4
  <2>2. CASE ExpireLeaked \/ ExpireHeld \/ ExpireEntry \/ \E p \in Procs : Evict(p) \/ Invalidate(p)
    <3>1. pc' = pc
      BY <2>2 DEF ExpireLeaked, ExpireHeld, ExpireEntry, Evict, Invalidate, callerVars
    <3> QED
      BY <3>1
  <2>3. CASE \E p \in Procs : Crash(p)
    <3>1. faults' = faults + 1 /\ faults \in Nat
      BY <2>3, StageAssumption DEF Crash, Fault, TypeOK
    <3> QED
      BY <3>1
  <2> QED
    BY <2>1, <2>2, <2>3 DEF Next, StepOf
<1> QED
  BY <1>1, CacheTypes, PTL DEF Spec, ReleaseKeepsOthers

-----------------------------------------------------------------------------
(* A call that runs alone *)

\* A file that a caller writes is in the directory, and nothing is without it.
OpenInv ==
    /\ \A c \in Callers :
           /\ open[c] = "payload" => pc[c] = "closePayload"
           /\ open[c] = "meta" => pc[c] = "closeMeta"
           /\ open[c] # "none" => files.dir
    /\ ~files.dir => files.payload = "none" /\ files.meta = "none"

\* No file is open.
LEMMA OpenInit == Init => OpenInv
  BY DEF Init, OpenInv, NoFiles

\* An open file is closed by who opened it, and lies in a directory that is there.
LEMMA OpenNext == TypeOK /\ OpenInv /\ [Next]_vars => OpenInv'
<1> SUFFICES ASSUME TypeOK, OpenInv, [Next]_vars PROVE OpenInv'
  OBVIOUS
<1>1. ASSUME UNCHANGED <<files, open>>,
             \A c \in Callers : pc[c] \in {"closePayload", "closeMeta"} => pc'[c] = pc[c]
      PROVE  OpenInv'
  BY <1>1 DEF OpenInv, TypeOK
<1>2. ASSUME NEW c \in Callers, StepOf(c), UNCHANGED <<files, open>>,
             pc[c] \notin {"closePayload", "closeMeta"}
      PROVE  OpenInv'
  BY <1>1, <1>2, OthersKeepPlace
<1>3. ASSUME files' = NoFiles, open' = [d \in Callers |-> "none"] PROVE OpenInv'
  BY <1>3 DEF OpenInv, NoFiles
<1>4. ASSUME NEW c \in Callers, RemoveEntry(c) PROVE OpenInv'
  <2>1. pc[c] = "rmtree" /\ (\/ files' = NoFiles /\ open' = [d \in Callers |-> "none"]
                             \/ UNCHANGED <<files, open>>)
    BY <1>4 DEF RemoveEntry
  <2>2. StepOf(c)
    BY <1>4 DEF StepOf, Call, Lookup
  <2> QED
    BY <1>2, <1>3, <2>1, <2>2
<1>5. ASSUME NEW c \in Callers, Mkdir(c) PROVE OpenInv'
  <2>1. \A d \in Callers \ {c} : pc'[d] = pc[d]
    BY <1>5, OthersKeepPlace DEF StepOf, Call, Filling
  <2>2. files'.dir = TRUE /\ open' = open /\ pc[c] = "mkdir"
    BY <1>5 DEF Mkdir, TypeOK
  <2> QED
    BY <2>1, <2>2 DEF OpenInv, TypeOK
<1>6. ASSUME NEW c \in Callers, OpenPayload(c) PROVE OpenInv'
  <2>1. \A d \in Callers \ {c} : pc'[d] = pc[d]
    BY <1>6, OthersKeepPlace DEF StepOf, Call, Filling
  <2>2. CASE files.dir
    <3>1. files'.dir = TRUE /\ open' = [open EXCEPT ![c] = "payload"] /\ pc'[c] = "closePayload"
      BY <1>6, <2>2 DEF OpenPayload, Goto, TypeOK
    <3> QED
      BY <2>1, <3>1 DEF OpenInv, TypeOK
  <2>3. CASE ~files.dir
    <3>1. UNCHANGED <<files, open>> /\ pc[c] = "openPayload" /\ StepOf(c)
      BY <1>6, <2>3 DEF OpenPayload, StepOf, Call, Filling
    <3> QED
      BY <1>2, <3>1
  <2> QED
    BY <2>2, <2>3
<1>7. ASSUME NEW c \in Callers, OpenMeta(c) PROVE OpenInv'
  <2>1. \A d \in Callers \ {c} : pc'[d] = pc[d]
    BY <1>7, OthersKeepPlace DEF StepOf, Call, Filling
  <2>2. CASE files.dir
    <3>1. files'.dir = TRUE /\ open' = [open EXCEPT ![c] = "meta"] /\ pc'[c] = "closeMeta"
      BY <1>7, <2>2 DEF OpenMeta, Goto, TypeOK
    <3> QED
      BY <2>1, <3>1 DEF OpenInv, TypeOK
  <2>3. CASE ~files.dir
    <3>1. UNCHANGED <<files, open>> /\ pc[c] = "openMeta" /\ StepOf(c)
      BY <1>7, <2>3 DEF OpenMeta, StepOf, Call, Filling
    <3> QED
      BY <1>2, <3>1
  <2> QED
    BY <2>2, <2>3
<1>8. ASSUME NEW c \in Callers, ClosePayload(c) PROVE OpenInv'
  <2>1. \A d \in Callers \ {c} : pc'[d] = pc[d]
    BY <1>8, OthersKeepPlace DEF StepOf, Call, Filling
  <2>2. PICK content \in Written(c, "payload", "full") :
            files' = [files EXCEPT !.payload = content]
    BY <1>8 DEF ClosePayload
  <2>3. open' = [open EXCEPT ![c] = "none"]
    BY <1>8 DEF ClosePayload
  <2>4. files'.dir = files.dir /\ files'.meta = files.meta /\ files'.payload = content
    BY <2>2 DEF TypeOK
  <2>5. ~files.dir => content = "none"
    BY <2>2 DEF Written, OpenInv, TypeOK
  <2> QED
    BY <2>1, <2>3, <2>4, <2>5 DEF OpenInv, TypeOK
<1>9. ASSUME NEW c \in Callers, CloseMeta(c) PROVE OpenInv'
  <2>1. \A d \in Callers \ {c} : pc'[d] = pc[d]
    BY <1>9, OthersKeepPlace DEF StepOf, Call, Filling
  <2>2. PICK content \in Written(c, "meta", kind[c]) :
            files' = [files EXCEPT !.meta = content]
    BY <1>9 DEF CloseMeta
  <2>3. open' = [open EXCEPT ![c] = "none"]
    BY <1>9 DEF CloseMeta
  <2>4. files'.dir = files.dir /\ files'.payload = files.payload /\ files'.meta = content
    BY <2>2 DEF TypeOK
  <2>5. ~files.dir => content = "none"
    BY <2>2 DEF Written, OpenInv, TypeOK
  <2> QED
    BY <2>1, <2>3, <2>4, <2>5 DEF OpenInv, TypeOK
<1>10. ASSUME NEW c \in Callers,
              \/ Look(c) \/ Drop(c) \/ Ask(c) \/ Locking(c) \/ PollTimeout(c) \/ WaitTimeout(c)
              \/ Compute(c) \/ Upload(c) \/ Publish(c) \/ Raise(c)
              \/ FactoryFails(c) \/ UploadFails(c) \/ RedisAway(c) \/ ReleaseFails(c)
       PROVE  OpenInv'
  <2>1. StepOf(c)
    BY <1>10 DEF StepOf, Call, Lookup, Filling
  <2>2. UNCHANGED <<files, open>> /\ pc[c] \notin {"closePayload", "closeMeta"}
    BY <1>10 DEF Look, Drop, Ask, Locking, EnterProcess, EnterTimeout, Poll, Release, ReleaseWith,
       PollTimeout, WaitTimeout, Compute, Upload, Publish, Raise, FactoryFails, UploadFails,
       RedisAway, ReleaseFails, storeVars
  <2> QED
    BY <1>2, <2>1, <2>2
<1>11. CASE ExpireLeaked \/ ExpireHeld \/ ExpireEntry \/ UNCHANGED vars \/ \E p \in Procs : Evict(p)
  <2>1. UNCHANGED <<files, open, pc>>
    BY <1>11 DEF ExpireLeaked, ExpireHeld, ExpireEntry, Evict, callerVars, vars
  <2> QED
    BY <1>1, <2>1
<1>12. ASSUME NEW p \in Procs, Crash(p) PROVE OpenInv'
  <2>1. /\ pc' = [c \in Callers |-> IF home[c] = p THEN "idle" ELSE pc[c]]
        /\ open' = [c \in Callers |-> IF home[c] = p THEN "none" ELSE open[c]]
        /\ files' = files
    BY <1>12 DEF Crash
  <2> QED
    BY <2>1 DEF OpenInv
<1>13. ASSUME NEW p \in Procs, Invalidate(p) PROVE OpenInv'
  BY <1>3, <1>13 DEF Invalidate
<1> QED
  BY <1>4, <1>5, <1>6, <1>7, <1>8, <1>9, <1>10, <1>11, <1>12, <1>13
  DEF Next, Call, Lookup, Filling

\* No layer that the caller reads knows of the entry.
Absent(c) == l1[home[c]] = "none" /\ redis.meta = "none" /\ files.meta = "none"

\* The payload is where the sidecar of the caller says.
Stored(c) == files.payload = "full" /\ (kind[c] = "object" => object)

\* The last lookup meets the pointer that the caller published, in Redis if no
\* longer in L1.
Published(c) == redis.meta = kind[c] /\ l1[home[c]] \in {"none", Kept(kind[c])}

\* How far a call that runs alone has come, by its position: its first lookup has
\* removed what could not be read, and what it computes it stores whole.
Good(c) ==
    /\ pc[c] # "raise"
    /\ pc[c] \in {"drop", "rmtree"} => site[c] = "first"
    /\ pc[c] = "rmtree" => files.dir /\ l1[home[c]] = "none" /\ redis.meta = "none"
    /\ pc[c] \in {"enter", "poll", "compute"} => Absent(c)
    /\ pc[c] = "look" /\ site[c] \notin {"first", "final"} => Absent(c)
    /\ pc[c] \in {"openPayload", "openMeta"} => files.dir
    /\ pc[c] = "closePayload" => open[c] = "payload"
    /\ pc[c] = "closeMeta" => open[c] = "meta"
    /\ pc[c] = "upload" => files.dir /\ files.payload = "full"
    /\ pc[c] \in {"openMeta", "closeMeta", "publish"} => Stored(c)
    /\ pc[c] = "look" /\ site[c] = "final" => Stored(c) /\ Published(c)

AloneInv ==
    \A c \in Callers : alone[c] => Good(c) /\ \A d \in Callers \ {c} : pc[d] = "idle"

\* No call is alone yet.
LEMMA AloneInit == Init => AloneInv
  BY DEF Init, AloneInv

\* One step of a call that was alone and is.
LEMMA GoodStep ==
    ASSUME TypeOK, OpenInv, NEW c \in Callers, Good(c), pc[c] # "idle", StepOf(c),
           faults' = faults, \A d \in Callers \ {c} : pc[d] = "idle"
    PROVE  Good(c)'
<1> USE DEF Good
<1>0. home[c] \in Procs /\ site[c] \in Sites /\ kind[c] \in Storage
  BY DEF TypeOK
<1>a. \A d \in Callers \ {c} : open[d] = "none"
  BY DEF OpenInv, TypeOK
<1>1. CASE Look(c)
  <2>1. pc[c] = "look" /\ UNCHANGED <<files, object, redis, home, held, kind, open>>
    BY <1>1 DEF Look
  <2>2. CASE Readable(Pointer(c))
    <3>1. Found(c) /\ Pointer(c) # "none"
      BY <1>1, <2>2 DEF Look, Readable
    <3>2. site[c] \in {"first", "final"}
      BY <2>1, <3>1 DEF Pointer, Absent
    <3>3. pc'[c] \in {"idle", "release"}
      BY <3>1, <3>2 DEF Found, Goto, TypeOK
    <3> QED
      BY <3>3
  <2>3. CASE ~Readable(Pointer(c)) /\ Pointer(c) = "none"
    <3>1. Missed(c) /\ UNCHANGED l1
      BY <1>1, <2>3 DEF Look
    <3>2. Absent(c)
      BY <2>3 DEF Pointer, Absent
    <3>3. site[c] # "final"
      BY <2>1, <3>2, <1>0 DEF Published, Absent, Storage
    <3>4. Absent(c)'
      BY <2>1, <3>1, <3>2 DEF Absent
    <3>5. /\ pc'[c] \in {"enter", "compute", "look", "poll", "mkdir"}
          /\ pc'[c] = "look" => site'[c] = "wait"
      BY <3>1, <3>3, <1>0 DEF Missed, Goto, LookFor, TypeOK
    <3> QED
      BY <3>4, <3>5
  <2>4. CASE ~Readable(Pointer(c)) /\ Pointer(c) # "none"
    <3>1. pc' = [pc EXCEPT ![c] = "drop"] /\ site' = site
      BY <1>1, <2>4 DEF Look, Goto
    <3>2. site[c] # "final"
      <4>1. SUFFICES ASSUME site[c] = "final" PROVE FALSE
        OBVIOUS
      <4>2. Stored(c) /\ Published(c)
        BY <2>1, <4>1
      <4>3. Pointer(c) \in {Kept(kind[c]), kind[c]}
        BY <1>0, <4>2 DEF Pointer, Published, Storage
      <4>4. Readable(kind[c]) /\ Readable(Kept(kind[c]))
        BY <1>0, <4>2 DEF Readable, Stored, Kept, Storage
      <4> QED
        BY <2>4, <4>3, <4>4
    <3>3. site[c] = "first"
      BY <2>1, <2>4, <3>2 DEF Absent, Pointer
    <3> QED
      BY <3>1, <3>3 DEF TypeOK
  <2> QED
    BY <2>2, <2>3, <2>4
<1>2. CASE Drop(c)
  <2>1. pc[c] = "drop" /\ site[c] = "first" /\ l1' = [l1 EXCEPT ![home[c]] = "none"]
        /\ redis' = NoPointers /\ UNCHANGED <<files, home, held>>
    BY <1>2 DEF Drop
  <2>2. l1'[home'[c]] = "none" /\ redis'.meta = "none"
    BY <1>0, <2>1 DEF NoPointers, TypeOK
  <2>3. CASE files.dir
    <3>1. pc'[c] = "rmtree" /\ site'[c] = "first"
      BY <1>2, <2>1, <2>3 DEF Drop, Goto, TypeOK
    <3> QED
      BY <2>1, <2>2, <2>3, <3>1
  <2>4. CASE ~files.dir
    <3>1. pc'[c] = "enter"
      BY <1>2, <2>1, <2>4 DEF Drop, Missed, Goto, TypeOK
    <3>2. Absent(c)'
      BY <2>1, <2>2, <2>4 DEF Absent, OpenInv
    <3> QED
      BY <3>1, <3>2
  <2> QED
    BY <2>3, <2>4
<1>3. CASE RemoveEntry(c)
  <2>1. pc[c] = "rmtree" /\ site[c] = "first" /\ files.dir /\ l1[home[c]] = "none"
        /\ redis.meta = "none"
    BY <1>3 DEF RemoveEntry
  <2>2. files' = NoFiles /\ Missed(c) /\ UNCHANGED <<l1, redis, home>>
    BY <1>3, <2>1 DEF RemoveEntry
  <2>3. pc'[c] = "enter"
    BY <2>1, <2>2 DEF Missed, Goto, TypeOK
  <2>4. Absent(c)'
    BY <2>1, <2>2 DEF Absent, NoFiles
  <2> QED
    BY <2>3, <2>4
<1>4. CASE EnterProcess(c) \/ EnterTimeout(c) \/ PollTimeout(c)
  <2>1. Absent(c) /\ UNCHANGED <<files, redis, l1, home>>
    BY <1>4 DEF EnterProcess, EnterTimeout, PollTimeout, storeVars
  <2>2. pc'[c] = "poll" \/ (pc'[c] = "look" /\ site'[c] = "again")
    BY <1>4 DEF EnterProcess, EnterTimeout, PollTimeout, Goto, LookFor, TypeOK
  <2> QED
    BY <2>1, <2>2 DEF Absent
<1>5. CASE Poll(c)
  <2>1. Absent(c) /\ UNCHANGED <<files, l1, home>>
    BY <1>5 DEF Poll
  <2>2. pc'[c] = "look" /\ site'[c] \in {"again", "poll"}
    BY <1>5 DEF Poll, LookFor, TypeOK
  <2>3. redis'.meta = redis.meta
    <3>1. redis' = redis \/ redis' = [redis EXCEPT !.lock = c]
      BY <1>5, Zenon DEF Poll
    <3>2. CASE redis' = [redis EXCEPT !.lock = c]
      BY <3>2 DEF TypeOK
    <3> QED
      BY <3>1, <3>2
  <2> QED
    BY <2>1, <2>2, <2>3 DEF Absent
<1>6. CASE WaitTimeout(c)
  <2>1. Absent(c) /\ UNCHANGED <<files, redis, l1, home>> /\ pc'[c] = "compute"
    BY <1>6 DEF WaitTimeout, storeVars, Goto, TypeOK
  <2> QED
    BY <2>1 DEF Absent
<1>7. CASE Release(c)
  BY <1>7 DEF Release, ReleaseWith, Goto, TypeOK
<1>8. CASE Compute(c)
  <2>1. Absent(c) /\ UNCHANGED <<files, l1, home>> /\ redis'.meta = redis.meta
    BY <1>8 DEF Compute, TypeOK
  <2>2. pc'[c] = "look" /\ site'[c] = "put"
    BY <1>8 DEF Compute, LookFor, TypeOK
  <2> QED
    BY <2>1, <2>2 DEF Absent
<1>9. CASE Mkdir(c)
  <2>1. files'.dir = TRUE /\ pc'[c] = "openPayload"
    BY <1>9 DEF Mkdir, Goto, TypeOK
  <2> QED
    BY <2>1
<1>10. CASE OpenPayload(c)
  <2>1. files.dir
    BY <1>10 DEF OpenPayload
  <2>2. pc'[c] = "closePayload" /\ open'[c] = "payload"
    BY <1>10, <2>1 DEF OpenPayload, Goto, TypeOK
  <2> QED
    BY <2>2
<1>11. CASE ClosePayload(c)
  <2>1. open[c] = "payload" /\ files.dir
    BY <1>11 DEF ClosePayload, OpenInv
  <2>2. Written(c, "payload", "full") = {"full"}
    BY <1>a, <2>1 DEF Written
  <2>3. files' = [files EXCEPT !.payload = "full"]
    BY <1>11, <2>2 DEF ClosePayload
  <2>4. files'.dir /\ files'.payload = "full"
    BY <2>1, <2>3 DEF TypeOK
  <2>5. kind'[c] = "local" /\ pc'[c] \in {"upload", "openMeta"}
    BY <1>11 DEF ClosePayload, Goto, TypeOK
  <2> QED
    BY <2>4, <2>5 DEF Stored
<1>12. CASE Upload(c)
  <2>1. files.dir /\ files.payload = "full" /\ files' = files /\ object' = TRUE
        /\ pc'[c] = "openMeta"
    BY <1>12 DEF Upload, Goto, TypeOK
  <2> QED
    BY <2>1 DEF Stored
<1>13. CASE OpenMeta(c)
  <2>1. files.dir /\ Stored(c)
    BY <1>13 DEF OpenMeta
  <2>2. pc'[c] = "closeMeta" /\ open'[c] = "meta" /\ UNCHANGED <<object, kind>>
    BY <1>13, <2>1 DEF OpenMeta, Goto, TypeOK
  <2>3. files'.payload = files.payload
    BY <1>13, <2>1 DEF OpenMeta, TypeOK
  <2> QED
    BY <2>1, <2>2, <2>3 DEF Stored
<1>14. CASE CloseMeta(c)
  <2>1. Stored(c)
    BY <1>14 DEF CloseMeta
  <2>2. pc'[c] = "publish" /\ UNCHANGED <<object, kind>>
    BY <1>14 DEF CloseMeta, Goto, TypeOK
  <2>3. PICK content \in Written(c, "meta", kind[c]) :
            files' = [files EXCEPT !.meta = content]
    BY <1>14 DEF CloseMeta
  <2>4. files'.payload = files.payload
    BY <2>3 DEF TypeOK
  <2> QED
    BY <2>1, <2>2, <2>4 DEF Stored
<1>15. CASE Publish(c)
  <2>1. Stored(c) /\ UNCHANGED <<files, object, kind, home>>
    BY <1>15 DEF Publish
  <2>2. redis'.meta = kind[c] /\ l1'[home[c]] = Kept(kind[c])
    BY <1>0, <1>15 DEF Publish, TypeOK
  <2>3. pc'[c] = "look" /\ site'[c] = "final"
    BY <1>15 DEF Publish, LookFor, TypeOK
  <2> QED
    BY <2>1, <2>2, <2>3 DEF Stored, Published, Kept
<1>16. ~Raise(c)
  BY DEF Raise
<1>17. ~Ask(c)
  BY DEF Ask
<1>18. ~(FactoryFails(c) \/ UploadFails(c) \/ RedisAway(c) \/ ReleaseFails(c))
  BY DEF FactoryFails, UploadFails, RedisAway, ReleaseFails, Fault, TypeOK
<1> QED
  BY <1>1, <1>2, <1>3, <1>4, <1>5, <1>6, <1>7, <1>8, <1>9, <1>10, <1>11, <1>12, <1>13,
     <1>14, <1>15, <1>16, <1>17, <1>18 DEF StepOf, Call, Lookup, Locking, Filling

\* What happens to a caller that is alone: nothing, a fault, or its own step.
LEMMA AloneNext == TypeOK /\ OpenInv /\ AloneInv /\ [Next]_vars => AloneInv'
<1> SUFFICES ASSUME TypeOK, OpenInv, AloneInv, [Next]_vars, NEW c \in Callers, alone'[c]
             PROVE  Good(c)' /\ \A d \in Callers \ {c} : pc'[d] = "idle"
  BY DEF AloneInv
<1>0. ~Fault
  BY DEF Fault
<1>1. ASSUME NEW e \in Callers, Ask(e)
      PROVE  Good(c)' /\ \A d \in Callers \ {c} : pc'[d] = "idle"
  <2>1. c = e /\ \A d \in Callers : pc[d] = "idle"
    BY <1>1 DEF Ask
  <2>2. pc'[c] = "look" /\ site'[c] = "first" /\ \A d \in Callers \ {c} : pc'[d] = pc[d]
    BY <1>1, <2>1 DEF Ask, LookFor, TypeOK
  <2> QED
    BY <2>1, <2>2 DEF Good
<1>2. ASSUME NEW e \in Callers, StepOf(e), ~Ask(e)
      PROVE  Good(c)' /\ \A d \in Callers \ {c} : pc'[d] = "idle"
  <2>1. alone' = alone /\ faults' = faults
    BY <1>0, <1>2 DEF StepOf, Call, Lookup, Locking, Filling, Look, Drop, RemoveEntry, EnterProcess,
       EnterTimeout, Poll, Release, ReleaseWith, Compute, Mkdir, OpenPayload, ClosePayload, Upload,
       OpenMeta, CloseMeta, Publish, Raise, PollTimeout, WaitTimeout, FactoryFails, UploadFails,
       RedisAway, ReleaseFails
  <2>2. pc[e] # "idle"
    BY <1>0, <1>2 DEF StepOf, Call, Lookup, Locking, Filling, Look, Drop, RemoveEntry, EnterProcess,
       EnterTimeout, Poll, Release, ReleaseWith, Compute, Mkdir, OpenPayload, ClosePayload, Upload,
       OpenMeta, CloseMeta, Publish, Raise, PollTimeout, WaitTimeout, FactoryFails, UploadFails,
       RedisAway, ReleaseFails
  <2>3. Good(c) /\ \A d \in Callers \ {c} : pc[d] = "idle"
    BY <2>1 DEF AloneInv
  <2>4. e = c
    BY <2>2, <2>3
  <2>5. Good(c)'
    BY <1>2, <2>1, <2>2, <2>3, <2>4, GoodStep
  <2> QED
    BY <1>2, <2>3, <2>4, <2>5, OthersKeepPlace
<1>3. CASE ExpireLeaked \/ UNCHANGED vars \/ \E p \in Procs : Evict(p)
  <2>1. UNCHANGED <<files, object, home, pc, site, kind, open, alone>>
    BY <1>3 DEF ExpireLeaked, Evict, callerVars, vars
  <2>2. redis'.meta = redis.meta
    <3>1. redis' = redis \/ redis' = [redis EXCEPT !.lock = Nobody]
      BY <1>3, Zenon DEF ExpireLeaked, Evict, vars
    <3>2. CASE redis' = [redis EXCEPT !.lock = Nobody]
      BY <3>2 DEF TypeOK
    <3> QED
      BY <3>1, <3>2
  <2>3. l1'[home[c]] \in {l1[home[c]], "none"}
    BY <1>3 DEF ExpireLeaked, Evict, vars, TypeOK
  <2>4. Good(c) /\ \A d \in Callers \ {c} : pc[d] = "idle"
    BY <2>1 DEF AloneInv
  <2>5. Absent(c) => Absent(c)'
    BY <2>1, <2>2, <2>3 DEF Absent
  <2>6. Stored(c) => Stored(c)'
    BY <2>1 DEF Stored
  <2>7. Published(c) => Published(c)'
    BY <2>1, <2>2, <2>3 DEF Published, Kept
  <2>8. Good(c)'
    BY <2>1, <2>2, <2>3, <2>4, <2>5, <2>6, <2>7 DEF Good
  <2> QED
    BY <2>1, <2>4, <2>8
<1>4. ~(ExpireHeld \/ ExpireEntry \/ \E p \in Procs : Crash(p) \/ Invalidate(p))
  BY <1>0, Zenon DEF ExpireHeld, ExpireEntry, Crash, Invalidate
<1> QED
  BY <1>1, <1>2, <1>3, <1>4 DEF Next, StepOf

\* Whatever other calls, crashes and expiries left in the layers, a call that from
\* its beginning runs alone does not fail: however many callers and processes, for
\* small and large payloads, with and without object storage.
THEOREM LoneCallsSucceed == Spec => []AloneSucceeds
<1>1. AloneInv => AloneSucceeds
  BY DEF AloneInv, Good, AloneSucceeds
<1> QED
  BY <1>1, CacheTypes, OpenInit, OpenNext, AloneInit, AloneNext, PTL DEF Spec
=============================================================================
