---------------------------- MODULE SubagentSlots ----------------------------
(***************************************************************************)
(* The slots of delegate: a semaphore for sub-agents the caller waits for, *)
(* and a set of the sub-agents in the background.  A stop of the calling   *)
(* chat cancels the delegation at the await it is in, and a stop of the    *)
(* sub-agent's chat cancels its task.                                      *)
(***************************************************************************)
EXTENDS Integers, FiniteSets

CONSTANTS
    Foreground, Background,     \* delegations of each kind
    MaxConcurrent, MaxAsync

Delegations == Foreground \cup Background

\* What is assumed of the constants.
SlotAssumption ==
    /\ Foreground \cap Background = {} /\ IsFiniteSet(Delegations)
    /\ MaxConcurrent \in Nat \ {0} /\ MaxAsync \in Nat \ {0}

VARIABLES
    call,       \* where delegate is
    task,       \* the sub-agent's task
    permits,    \* _foreground_semaphore
    active,     \* _background_active
    upset       \* history: a stop came before the task began, or its registration failed

vars == <<call, task, permits, active, upset>>

Calls == {"new", "queued", "making", "registering", "awaiting", "ended"}

\* Types; a task exists only for a chat that was made.
TypeOK ==
    /\ call \in [Delegations -> Calls]
    /\ task \in [Delegations -> {"none", "fresh", "running", "cancelling", "over"}]
    /\ \A d \in Delegations : call[d] \in {"new", "queued", "making"} => task[d] = "none"
    /\ permits \in Nat /\ active \subseteq Background /\ upset \in BOOLEAN

Init ==
    /\ call = [d \in Delegations |-> "new"]
    /\ task = [d \in Delegations |-> "none"]
    /\ permits = MaxConcurrent /\ active = {} /\ upset = FALSE

-----------------------------------------------------------------------------
\* A call for the background takes a slot or is refused.
ReserveBackground(d) ==
    /\ d \in Background /\ call[d] = "new"
    /\ IF Cardinality(active) >= MaxAsync
       THEN call' = [call EXCEPT ![d] = "ended"] /\ UNCHANGED active
       ELSE call' = [call EXCEPT ![d] = "making"] /\ active' = active \cup {d}
    /\ UNCHANGED <<task, permits, upset>>

\* A call in the foreground waits for the semaphore.
Queue(d) ==
    /\ d \in Foreground /\ call[d] = "new"
    /\ call' = [call EXCEPT ![d] = "queued"]
    /\ UNCHANGED <<task, permits, active, upset>>

\* The semaphore is acquired.
Acquire(d) ==
    /\ call[d] = "queued" /\ permits > 0
    /\ permits' = permits - 1
    /\ call' = [call EXCEPT ![d] = "making"]
    /\ UNCHANGED <<task, active, upset>>

\* The slot of d is given back.
Release(d) ==
    /\ permits' = IF d \in Foreground THEN permits + 1 ELSE permits
    /\ active' = active \ {d}

MakeFailsKeeps(d) ==
    /\ call[d] = "making"
    /\ call' = [call EXCEPT ![d] = "ended"]
    /\ UNCHANGED <<task, permits, active, upset>>

\* The chat of the sub-agent cannot be made.
MakeFails(d) ==
    /\ call[d] = "making" /\ Release(d)
    /\ call' = [call EXCEPT ![d] = "ended"]
    /\ UNCHANGED <<task, upset>>

\* The chat is made and its task scheduled; create_task goes on to register it.
Make(d) ==
    /\ call[d] = "making"
    /\ call' = [call EXCEPT ![d] = "registering"]
    /\ task' = [task EXCEPT ![d] = "fresh"]
    /\ UNCHANGED <<permits, active, upset>>

\* The foreground call waits for the task; the background call returns.
Register(d) ==
    /\ call[d] = "registering"
    /\ call' = [call EXCEPT ![d] = IF d \in Foreground THEN "awaiting" ELSE "ended"]
    /\ UNCHANGED <<task, permits, active, upset>>

\* redis_save_task raises: the error path gives the slot back.
RegisterFails(d) ==
    /\ call[d] = "registering" /\ Release(d)
    /\ call' = [call EXCEPT ![d] = "ended"] /\ upset' = TRUE
    /\ UNCHANGED task

\* The task begins.
Begin(d) ==
    /\ task[d] = "fresh"
    /\ task' = [task EXCEPT ![d] = "running"]
    /\ UNCHANGED <<call, permits, active, upset>>

\* The completion returned or raised, or the cancelled task has stored its
\* error; the slot goes back in the end.
End(d) ==
    /\ task[d] \in {"running", "cancelling"} /\ Release(d)
    /\ task' = [task EXCEPT ![d] = "over"]
    /\ UNCHANGED <<call, upset>>

\* The caller has its answer.
Return(d) ==
    /\ call[d] = "awaiting" /\ task[d] = "over"
    /\ call' = [call EXCEPT ![d] = "ended"]
    /\ UNCHANGED <<task, permits, active, upset>>

\* What a cancelled task becomes; one that has not begun never runs its code.
Cancelled(d) ==
    [task EXCEPT ![d] = CASE task[d] = "running" -> "cancelling"
                          [] task[d] = "fresh" -> "over"
                          [] OTHER -> task[d]]

\* The calling chat is stopped: the await raises, and an awaited task is
\* cancelled with it.
StopCaller(d) ==
    /\ call[d] \in {"queued", "making", "registering", "awaiting"}
    /\ upset' = (upset \/ call[d] = "making" \/ task[d] = "fresh")
    /\ call' = [call EXCEPT ![d] = "ended"]
    /\ task' = IF call[d] = "awaiting" THEN Cancelled(d) ELSE task
    /\ UNCHANGED <<permits, active>>

\* The chat of the sub-agent is stopped.
StopTask(d) ==
    /\ task[d] \in {"running", "fresh"}
    /\ task' = Cancelled(d) /\ upset' = (upset \/ task[d] = "fresh")
    /\ UNCHANGED <<call, permits, active>>

Next ==
    \E d \in Delegations :
        \/ ReserveBackground(d) \/ Queue(d) \/ Acquire(d) \/ Make(d) \/ MakeFails(d)
        \/ Register(d) \/ RegisterFails(d) \/ Begin(d) \/ End(d) \/ Return(d)
        \/ StopCaller(d) \/ StopTask(d)

Spec == Init /\ [][Next]_vars

-----------------------------------------------------------------------------
\* The slots in use are those of the delegations under way, so none is lost and
\* none is given back twice: whether the sub-agent was made, answered, raised or
\* was stopped at work; only a stop before its task began or a failed registration
\* upsets the count.
SlotsAreHeld ==
    LET Holds(d) == call[d] = "making" \/ task[d] \in {"fresh", "running", "cancelling"}
    IN ~upset => /\ permits = MaxConcurrent - Cardinality({d \in Foreground : Holds(d)})
                 /\ active = {d \in Background : Holds(d)}
=============================================================================
