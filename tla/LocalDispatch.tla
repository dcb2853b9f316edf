----------------------------- MODULE LocalDispatch -----------------------------
(***************************************************************************)
(* Background jobs without Celery (CELERY_TASK_ALWAYS_EAGER): a bounded    *)
(* thread pool, whose threads hand their coroutine to the one event loop   *)
(* of _WorkerAsyncRuntime and wait for it.  The runtime is built by the    *)
(* first job that needs it and runs one coroutine at a time.               *)
(***************************************************************************)
EXTENDS Naturals, Sequences, FiniteSets

CONSTANTS
    Jobs,      \* bound: jobs that are dispatched, each once
    PoolSize,  \* EAGER_BACKGROUND_MAX_WORKERS
    MaxPending \* EAGER_BACKGROUND_MAX_PENDING

ASSUME DispatchAssumption == PoolSize \in Nat \ {0} /\ MaxPending \in Nat

VARIABLES
    slots,      \* free slots of the semaphore
    pending,    \* jobs in the executor's queue, in order
    phase,      \* where each job is
    runtime,    \* _worker_runtime: "none" or "ready"
    queue,      \* coroutines in the runtime's queue, in order
    onLoop      \* jobs whose coroutine the loop runs

dispatchVars == <<slots, pending, phase, runtime, queue, onLoop>>

Capacity == IF MaxPending > PoolSize THEN MaxPending ELSE PoolSize

DispatchInit ==
    /\ slots = Capacity
    /\ pending = <<>> /\ queue = <<>> /\ onLoop = {}
    /\ phase = [j \in Jobs |-> "none"]
    /\ runtime = "none"

Phase(j, p) == phase' = [phase EXCEPT ![j] = p]

\* Threads of the pool that are at work; one of them may be building the runtime.
Threads == {j \in Jobs : phase[j] \notin {"none", "pending", "over"}}
Building == {j \in Jobs : phase[j] = "building"}

\* dispatch_background_sync_job: without a free slot the caller gets an error.
Dispatch(j) ==
    /\ phase[j] = "none"
    /\ slots > 0
    /\ slots' = slots - 1
    /\ pending' = Append(pending, j)
    /\ Phase(j, "pending")
    /\ UNCHANGED <<runtime, queue, onLoop>>

TakeJob ==
    /\ pending # <<>> /\ Cardinality(Threads) < PoolSize
    /\ Phase(Head(pending), "target")
    /\ pending' = Tail(pending)
    /\ UNCHANGED <<slots, runtime, queue, onLoop>>

\* _get_worker_runtime takes the lock; the first job builds the runtime under it.
AskRuntime(j) ==
    /\ phase[j] = "target"
    /\ Building = {}
    /\ IF runtime = "none"
       THEN Phase(j, "building") /\ UNCHANGED queue
       ELSE Phase(j, "queued") /\ queue' = Append(queue, j)
    /\ UNCHANGED <<slots, pending, runtime, onLoop>>

\* Mutant: a runtime whose thread failed is kept.
BuildAnyRuntime(j) ==
    /\ phase[j] = "building"
    /\ runtime' \in {"ready", "dead"}
    /\ Phase(j, "target")
    /\ UNCHANGED <<slots, pending, queue, onLoop>>

\* _WorkerAsyncRuntime(): its thread sets _ready whether or not it has a
\* sessionmaker; without one the constructor raises and nothing is assigned.
BuildRuntime(j) ==
    /\ phase[j] = "building"
    /\ \/ runtime' = "ready" /\ Phase(j, "target")
       \/ UNCHANGED runtime /\ Phase(j, "ended")
    /\ UNCHANGED <<slots, pending, queue, onLoop>>

\* A target may raise before it has a coroutine to run.
TargetFails(j) ==
    /\ phase[j] = "target"
    /\ Phase(j, "ended")
    /\ UNCHANGED <<slots, pending, runtime, queue, onLoop>>

\* The loop's thread takes the next coroutine when it has finished the last.
RunNext ==
    /\ runtime = "ready" /\ onLoop = {} /\ queue # <<>>
    /\ onLoop' = {Head(queue)}
    /\ queue' = Tail(queue)
    /\ UNCHANGED <<slots, pending, phase, runtime>>

\* set_result or set_exception: the waiting thread goes on.
LoopDone ==
    /\ \E j \in onLoop : Phase(j, "ended")
    /\ onLoop' = {}
    /\ UNCHANGED <<slots, pending, runtime, queue>>

\* The done callback of the executor's future.
ReleaseSlot(j) ==
    /\ phase[j] = "ended"
    /\ slots' = slots + 1
    /\ Phase(j, "over")
    /\ UNCHANGED <<pending, runtime, queue, onLoop>>

DispatchNext ==
    \/ \E j \in Jobs :
           Dispatch(j) \/ AskRuntime(j) \/ BuildRuntime(j) \/ TargetFails(j) \/ ReleaseSlot(j)
    \/ TakeJob \/ RunNext \/ LoopDone

\* Threads go on when they can and every coroutine ends; nobody has to dispatch.
DispatchFairness ==
    /\ WF_dispatchVars(TakeJob)
    /\ WF_dispatchVars(RunNext)
    /\ WF_dispatchVars(LoopDone)
    /\ \A j \in Jobs :
           /\ WF_dispatchVars(AskRuntime(j))
           /\ WF_dispatchVars(BuildRuntime(j))
           /\ WF_dispatchVars(ReleaseSlot(j))

DispatchSpec == DispatchInit /\ [][DispatchNext]_dispatchVars /\ DispatchFairness

-----------------------------------------------------------------------------
(* Properties *)

\* Every accepted job ends and gives its slot back, also when the runtime cannot
\* be built for it or for the jobs before it, with every thread of the pool
\* waiting for the one loop.
AcceptedJobRuns == <>[](slots = Capacity)
=============================================================================
