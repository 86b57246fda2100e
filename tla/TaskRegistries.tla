---------------------------- MODULE TaskRegistries ----------------------------
(***************************************************************************)
(* The task registry over Redis, the one of a single process and the rate  *)
(* limiter.                                                                *)
(***************************************************************************)
EXTENDS TaskRegistry

CONSTANTS
    MaxLocal,   \* bound: tasks of the single process
    Stoppers,
    Nodes, Limit, Window, BucketSize,
    MaxTime, MaxRequests, MaxFaults     \* bounds of the rate limiter

VARIABLES
    lState, tasks, list, stop,
    now, redis, dies, memory, check, faults, asked, let, refused

Local == INSTANCE LocalTasks WITH MaxTasks <- MaxLocal, state <- lState

Rate == INSTANCE RateLimit

\* A stop misses only what moved under its iterator; see LocalTasks.
MissesOnlyMoved == Local!MissesOnlyMoved

\* The limit is kept and nobody is limited early; see RateLimit.
LimitIsKept == Rate!LimitIsKept
=============================================================================
