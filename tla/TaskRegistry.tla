----------------------------- MODULE TaskRegistry -----------------------------
(***************************************************************************)
(* The task registry over Redis, for the tasks of one chat: the tasks each *)
(* instance runs, the hash of all tasks, the set of the chat's tasks and   *)
(* the response streams in Redis, the stop command over publish/subscribe  *)
(* and the listeners that may be reconnecting when it is published.  A     *)
(* pipeline is one step, two commands one after the other are two.         *)
(***************************************************************************)
EXTENDS Naturals, FiniteSets

CONSTANTS
    MaxTasks,       \* bound: tasks, numbered as they are created
    Instances,      \* server processes
    Nowhere,        \* the task does not exist yet
    MaxDrops,       \* bound: lost subscriptions
    MaxCrashes      \* bound: crashes of instances

ASSUME RegistryAssumption ==
    /\ MaxTasks \in Nat /\ IsFiniteSet(Instances) /\ Nowhere \notin Instances
    /\ MaxDrops \in Nat /\ MaxCrashes \in Nat

VARIABLES
    owner,      \* the instance whose `tasks` holds the task
    state,      \* the asyncio task: "none", "running", "done", "lost"
    saving,     \* create_task's redis_save_task: "none", "sent", "saved"
    cleaning,   \* the done callback's cleanup_task, step by step
    stopping,   \* stop_task, step by step
    hash,       \* REDIS_TASKS_KEY
    set,        \* REDIS_ITEM_TASKS_KEY of the chat
    streams,    \* REDIS_RESPONSE_STREAMS_KEY
    inbox,      \* stop commands on their way to each instance
    subscribed, \* instances whose listener is subscribed
    drops, crashes

vars == <<owner, state, saving, cleaning, stopping, hash, set, streams, inbox, subscribed, drops, crashes>>

Tasks == 1..MaxTasks
CleanSteps == {"none", "queued", "removed", "empty", "done"}
StopSteps == {"none", "asked", "published", "removed", "empty", "done"}

\* Types; the owner runs what it owns.
TypeOK ==
    /\ owner \in [Tasks -> Instances \cup {Nowhere}]
    /\ state \in [Tasks -> {"none", "running", "done", "lost"}]
    /\ \A t \in Tasks : owner[t] = Nowhere <=> state[t] = "none"
    /\ saving \in [Tasks -> {"none", "sent", "saved"}]
    /\ cleaning \in [Tasks -> CleanSteps]
    /\ stopping \in [Tasks -> StopSteps]
    /\ \A t \in Tasks : cleaning[t] # "none" => state[t] = "done"
    /\ hash \subseteq Tasks /\ set \subseteq Tasks /\ streams \subseteq Tasks
    /\ inbox \in [Instances -> SUBSET Tasks]
    /\ subscribed \subseteq Instances
    /\ drops \in 0..MaxDrops /\ crashes \in 0..MaxCrashes

Init ==
    /\ owner = [t \in Tasks |-> Nowhere]
    /\ state = [t \in Tasks |-> "none"]
    /\ saving = [t \in Tasks |-> "none"]
    /\ cleaning = [t \in Tasks |-> "none"]
    /\ stopping = [t \in Tasks |-> "none"]
    /\ hash = {} /\ set = {} /\ streams = {}
    /\ inbox = [i \in Instances |-> {}]
    /\ subscribed = Instances
    /\ drops = 0 /\ crashes = 0

-----------------------------------------------------------------------------
\* create_task: the coroutine is scheduled before the entry is saved.
CreateTask(t, i) ==
    /\ state[t] = "none" /\ \A u \in 1..(t - 1) : state[u] # "none"
    /\ owner' = [owner EXCEPT ![t] = i]
    /\ state' = [state EXCEPT ![t] = "running"]
    /\ saving' = [saving EXCEPT ![t] = "sent"]
    /\ UNCHANGED <<cleaning, stopping, hash, set, streams, inbox, subscribed, drops, crashes>>

\* redis_save_task is served.
RedisSaveTask(t) ==
    /\ saving[t] = "sent"
    /\ saving' = [saving EXCEPT ![t] = "saved"]
    /\ hash' = hash \cup {t}
    /\ set' = set \cup {t}
    /\ UNCHANGED <<owner, state, cleaning, stopping, streams, inbox, subscribed, drops, crashes>>

\* The running task saves what it has streamed so far, or clears it.
SaveResponseStream(t) ==
    /\ state[t] = "running"
    /\ streams' = streams \cup {t}
    /\ UNCHANGED <<owner, state, saving, cleaning, stopping, hash, set, inbox, subscribed, drops, crashes>>

ClearResponseStream(t) ==
    /\ state[t] = "running"
    /\ streams' = streams \ {t}
    /\ UNCHANGED <<owner, state, saving, cleaning, stopping, hash, set, inbox, subscribed, drops, crashes>>

\* The task returns, raises or was cancelled: the done callback starts.
Finish(t) ==
    /\ state' = [state EXCEPT ![t] = "done"]
    /\ cleaning' = [cleaning EXCEPT ![t] = "queued"]

TaskEnds(t) ==
    /\ state[t] = "running"
    /\ Finish(t)
    /\ UNCHANGED <<owner, saving, stopping, hash, set, streams, inbox, subscribed, drops, crashes>>

\* redis_cleanup_task: its pipeline.
RemovedFromRedis(t) ==
    /\ hash' = hash \ {t}
    /\ set' = set \ {t}
    /\ streams' = streams \ {t}

RemovedButStream(t) ==
    /\ cleaning[t] = "queued" /\ saving[t] = "saved"
    /\ hash' = hash \ {t}
    /\ set' = set \ {t}
    /\ cleaning' = [cleaning EXCEPT ![t] = "removed"]
    /\ UNCHANGED <<owner, state, saving, stopping, streams, inbox, subscribed, drops, crashes>>

\* cleanup_task: the pipeline, which Redis serves after the save its process sent
\* before it; the count; the deletion of the whole key.
CleanRemove(t) ==
    /\ cleaning[t] = "queued" /\ saving[t] = "saved"
    /\ RemovedFromRedis(t)
    /\ cleaning' = [cleaning EXCEPT ![t] = "removed"]
    /\ UNCHANGED <<owner, state, saving, stopping, inbox, subscribed, drops, crashes>>

CleanCount(t) ==
    /\ cleaning[t] = "removed"
    /\ cleaning' = [cleaning EXCEPT ![t] = IF set = {} THEN "empty" ELSE "done"]
    /\ UNCHANGED <<owner, state, saving, stopping, hash, set, streams, inbox, subscribed, drops, crashes>>

CleanDelete(t) ==
    /\ cleaning[t] = "empty"
    /\ set' = {}
    /\ cleaning' = [cleaning EXCEPT ![t] = "done"]
    /\ UNCHANGED <<owner, state, saving, stopping, hash, streams, inbox, subscribed, drops, crashes>>

-----------------------------------------------------------------------------
\* stop_task, for a task an earlier list returned: it looks the chat up,
StopAsk(t) ==
    /\ stopping[t] = "none" /\ t \in hash \cup set
    /\ stopping' = [stopping EXCEPT ![t] = "asked"]
    /\ UNCHANGED <<owner, state, saving, cleaning, hash, set, streams, inbox, subscribed, drops, crashes>>

StopPublishOnce(t) ==
    /\ stopping[t] = "asked"
    /\ inbox' = [i \in Instances |-> IF i \in subscribed /\ inbox[i] = {} THEN {t} ELSE inbox[i]]
    /\ stopping' = [stopping EXCEPT ![t] = "published"]
    /\ UNCHANGED <<owner, state, saving, cleaning, hash, set, streams, subscribed, drops, crashes>>

\* publishes the command to whoever is subscribed,
StopPublish(t) ==
    /\ stopping[t] = "asked"
    /\ inbox' = [i \in Instances |-> IF i \in subscribed THEN inbox[i] \cup {t} ELSE inbox[i]]
    /\ stopping' = [stopping EXCEPT ![t] = "published"]
    /\ UNCHANGED <<owner, state, saving, cleaning, hash, set, streams, subscribed, drops, crashes>>

\* and cleans Redis itself.
StopRemove(t) ==
    /\ stopping[t] = "published"
    /\ RemovedFromRedis(t)
    /\ stopping' = [stopping EXCEPT ![t] = "removed"]
    /\ UNCHANGED <<owner, state, saving, cleaning, inbox, subscribed, drops, crashes>>

StopCount(t) ==
    /\ stopping[t] = "removed"
    /\ stopping' = [stopping EXCEPT ![t] = IF set = {} THEN "empty" ELSE "done"]
    /\ UNCHANGED <<owner, state, saving, cleaning, hash, set, streams, inbox, subscribed, drops, crashes>>

StopDelete(t) ==
    /\ stopping[t] = "empty"
    /\ set' = {}
    /\ stopping' = [stopping EXCEPT ![t] = "done"]
    /\ UNCHANGED <<owner, state, saving, cleaning, hash, streams, inbox, subscribed, drops, crashes>>

-----------------------------------------------------------------------------
\* The listener receives a command and cancels the task if it is its own,
\* which ends it.
Listen(i, t) ==
    /\ i \in subscribed /\ t \in inbox[i]
    /\ inbox' = [inbox EXCEPT ![i] = @ \ {t}]
    /\ IF owner[t] = i /\ state[t] = "running" THEN Finish(t) ELSE UNCHANGED <<state, cleaning>>
    /\ UNCHANGED <<owner, saving, stopping, hash, set, streams, subscribed, drops, crashes>>

\* The subscription is lost, with what was not read; it is made again later.
ListenerDrops(i) ==
    /\ drops < MaxDrops /\ i \in subscribed
    /\ drops' = drops + 1
    /\ subscribed' = subscribed \ {i}
    /\ inbox' = [inbox EXCEPT ![i] = {}]
    /\ UNCHANGED <<owner, state, saving, cleaning, stopping, hash, set, streams, crashes>>

ListenerReconnects(i) ==
    /\ i \notin subscribed
    /\ subscribed' = subscribed \cup {i}
    /\ UNCHANGED <<owner, state, saving, cleaning, stopping, hash, set, streams, inbox, drops, crashes>>

\* A process ends and is started again; Redis keeps what it wrote.
Crash(i) ==
    /\ crashes < MaxCrashes
    /\ crashes' = crashes + 1
    /\ state' = [t \in Tasks |-> IF owner[t] = i THEN "lost" ELSE state[t]]
    /\ cleaning' = [t \in Tasks |-> IF owner[t] = i THEN "none" ELSE cleaning[t]]
    /\ inbox' = [inbox EXCEPT ![i] = {}]
    /\ UNCHANGED <<owner, saving, stopping, hash, set, streams, subscribed, drops>>

CleanStep(t) == CleanRemove(t) \/ CleanCount(t) \/ CleanDelete(t)
StopStep(t) == StopPublish(t) \/ StopRemove(t) \/ StopCount(t) \/ StopDelete(t)

Next ==
    \/ \E t \in Tasks : \/ \E i \in Instances : CreateTask(t, i) \/ Listen(i, t)
                        \/ RedisSaveTask(t) \/ SaveResponseStream(t) \/ ClearResponseStream(t)
                        \/ TaskEnds(t) \/ CleanStep(t) \/ StopAsk(t) \/ StopStep(t)
    \/ \E i \in Instances : ListenerDrops(i) \/ ListenerReconnects(i) \/ Crash(i)

Spec == Init /\ [][Next]_vars

\* Redis answers, coroutines go on and listeners read; a task need never end.
Fairness ==
    /\ \A t \in Tasks : WF_vars(RedisSaveTask(t)) /\ WF_vars(CleanStep(t)) /\ WF_vars(StopStep(t))
    /\ \A i \in Instances : WF_vars(\E t \in Tasks : Listen(i, t)) /\ WF_vars(ListenerReconnects(i))

FairSpec == Spec /\ Fairness

-----------------------------------------------------------------------------
\* Once a task's cleanup is through, Redis knows nothing of it: no save, no
\* stream of a task already stopped and no second cleanup leaves an entry.
GoneWhenDone ==
    \A t \in Tasks : cleaning[t] = "done" /\ saving[t] = "saved" => t \notin hash \cup set \cup streams

\* No stopped task runs on: the stop reaches the instance that owns the task
\* and cancels it, if no subscription was lost; a crash does not keep it alive.
StopEnds == <>[](drops > 0 \/ \A t \in Tasks : stopping[t] = "done" => state[t] # "running")
=============================================================================
