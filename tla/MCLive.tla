-------------------------------- MODULE MCLive --------------------------------
(***************************************************************************)
(* What must eventually happen, of four parts that share no state: the     *)
(* life of a run, the memories, the jobs of a process without Celery and   *)
(* the reduction of a synthesis.                                           *)
(* A behaviour is of one of them, as the initial state says, while the     *)
(* variables of the others stand still.                                    *)
(***************************************************************************)
EXTENDS RunLifecycle, MemoryStore, LocalDispatch, CorpusSynthesis

VARIABLE focus

allVars == <<vars, memoryVars, dispatchVars, synthesisVars, focus>>

LiveInit ==
    /\ focus \in {"run", "memory", "dispatch", "synthesis"}
    /\ Init /\ MemoryInit /\ DispatchInit /\ SynthesisInit
    /\ focus # "run" => mode = "inline" /\ op = "plain"
    /\ focus # "memory" => reachable /\ audited
    /\ focus # "synthesis" => source[1].current = 1 /\ ~background /\ fanIn = 2

\* What the other parts keep as it is.
Others(part) ==
    /\ UNCHANGED focus
    /\ focus = part
    /\ part # "run" => UNCHANGED vars
    /\ part # "memory" => UNCHANGED memoryVars
    /\ part # "dispatch" => UNCHANGED dispatchVars
    /\ part # "synthesis" => UNCHANGED synthesisVars

LiveNext ==
    \/ Others("run") /\ Next
    \/ Others("memory") /\ MemoryNext
    \/ Others("dispatch") /\ DispatchNext
    \/ Others("synthesis") /\ SynthesisNext

\* Each part under its own fairness, which asks nothing of a part that stands
\* still: none of its actions is enabled before something is begun in it.
LiveSpec ==
    /\ LiveInit /\ [][LiveNext]_allVars
    /\ Fairness /\ MemoryFairness /\ DispatchFairness /\ SynthesisFairness
=============================================================================
