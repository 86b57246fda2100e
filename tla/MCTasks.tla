------------------------------- MODULE MCTasks -------------------------------
(***************************************************************************)
(* Small instances of the task registry, over Redis and in one process,    *)
(* and of the rate limiter.  They share no state, so a behaviour takes the *)
(* steps of one of them and leaves the others alone.                       *)
(***************************************************************************)
EXTENDS TaskRegistries

VARIABLE part   \* the part this behaviour is about

localVars == <<lState, tasks, list, stop>>
rateVars == <<now, redis, dies, memory, check, faults, asked, let, refused>>

ASSUME Local!LocalAssumption /\ Rate!RateAssumption

MCInit ==
    /\ part \in {"registry", "local", "rate"}
    /\ Init /\ Local!Init /\ Rate!Init

MCNext ==
    \/ part = "registry" /\ Next /\ UNCHANGED <<part, localVars, rateVars>>
    \/ part = "local" /\ Local!Next /\ UNCHANGED <<part, vars, rateVars>>
    \/ part = "rate" /\ Rate!Next /\ UNCHANGED <<part, vars, localVars>>

MCSpec ==
    /\ MCInit /\ [][MCNext]_<<part, vars, localVars, rateVars>>
    /\ (part = "registry" => Fairness)

\* No stopped task runs on; see TaskRegistry.
StoppedTaskEnds == part = "registry" => StopEnds
=============================================================================
