------------------------------ MODULE LocalTasks ------------------------------
(***************************************************************************)
(* The task registry of a single process without Redis, for the tasks of   *)
(* one item: `tasks`, the item's list in `item_tasks`, and the calls of    *)
(* stop_item_tasks, which iterate over that very list while the cleanups   *)
(* of the tasks they stop remove from it.                                  *)
(***************************************************************************)
EXTENDS Naturals, Sequences, FiniteSets, SequencesExt

CONSTANTS
    MaxTasks,   \* bound: tasks, numbered as they are created
    Stoppers    \* calls of stop_item_tasks

\* What is assumed of the constants.
LocalAssumption == MaxTasks \in Nat /\ IsFiniteSet(Stoppers)

VARIABLES
    state,      \* the asyncio tasks: "none", "running", "cancelling", "ended", "raised", "cleaned"
    tasks,      \* the keys of `tasks`
    list,       \* item_tasks[id]
    stop        \* the calls: [pc, at, cur, same, asked, moved]

Tasks == 1..MaxTasks
vars == <<state, tasks, list, stop>>

\* A call's iterator: its index, the task it awaits, whether its list still is
\* item_tasks[id], and as history the tasks that ran when it started and how many
\* cleanups took a task it had passed out of the list.
IdleStop == [pc |-> "idle", at |-> 1, cur |-> {}, same |-> TRUE, asked |-> {}, moved |-> 0]

Live == {"running", "cancelling"}
Over == {"ended", "raised"}

\* Types; a call awaits at most one task.
TypeOK ==
    /\ state \in [Tasks -> {"none", "cleaned"} \cup Live \cup Over]
    /\ tasks \subseteq Tasks
    /\ list \in Seq(Tasks)
    /\ stop \in [Stoppers -> [pc : {"idle", "next", "await", "stopped", "failed"}, at : Nat,
                              cur : SUBSET Tasks, same : BOOLEAN, asked : SUBSET Tasks,
                              moved : Nat]]
    /\ \A s \in Stoppers : Cardinality(stop[s].cur) = IF stop[s].pc = "await" THEN 1 ELSE 0

Init ==
    /\ state = [t \in Tasks |-> "none"]
    /\ tasks = {}
    /\ list = <<>>
    /\ stop = [s \in Stoppers |-> IdleStop]

\* No call is between two awaits: what it does there nothing interrupts.
Yielded == \A s \in Stoppers : stop[s].pc # "next"

-----------------------------------------------------------------------------
\* create_task
CreateTask(t) ==
    /\ Yielded
    /\ state[t] = "none" /\ \A u \in 1..(t - 1) : state[u] # "none"
    /\ state' = [state EXCEPT ![t] = "running"]
    /\ tasks' = tasks \cup {t}
    /\ list' = Append(list, t)
    /\ UNCHANGED stop

\* The coroutine ends by itself, by an exception or by its cancellation.
TaskEnds(t) ==
    /\ Yielded
    /\ state[t] \in Live
    /\ \E how \in Over : state' = [state EXCEPT ![t] = how]
    /\ UNCHANGED <<tasks, list, stop>>

\* list.remove, of a list that has the task.
Without(l, t) ==
    LET at == {k \in 1..Len(l) : l[k] = t} IN IF at = {} THEN l ELSE RemoveAt(l, Min(at))

\* The call s is in its loop and has gone past t.
Passed(s, t) ==
    /\ stop[s].pc = "await" /\ stop[s].same
    /\ \E k \in DOMAIN list : list[k] = t /\ k < stop[s].at

\* cleanup_task, scheduled by the done callback; a call that awaits the task
\* was woken before it.
CleanupTask(t) ==
    /\ Yielded /\ state[t] \in Over /\ (\A s \in Stoppers : t \notin stop[s].cur)
    /\ state' = [state EXCEPT ![t] = "cleaned"]
    /\ tasks' = tasks \ {t}
    /\ list' = Without(list, t)
    /\ stop' = [s \in Stoppers |-> [stop[s] EXCEPT !.same = @ /\ list' # <<>>,
                                                  !.moved = IF Passed(s, t) THEN @ + 1 ELSE @]]

-----------------------------------------------------------------------------
\* stop_item_tasks takes the list itself.
StopItemTasks(s) ==
    /\ Yielded
    /\ stop[s].pc = "idle"
    /\ stop' = [stop EXCEPT ![s].pc = IF list = <<>> THEN "stopped" ELSE "next",
                           ![s].same = TRUE,
                           ![s].asked = {t \in Tasks : state[t] \in Live}]
    /\ UNCHANGED <<state, tasks, list>>

Exhausted(s) == ~stop[s].same \/ stop[s].at > Len(list)

\* What follows the await of a task in a given state: a task already over is
\* not waited for, and its own exception leaves stop_item_tasks.
After(t) == CASE state[t] = "raised" -> "failed"
              [] state[t] = "ended" -> "next"
              [] OTHER -> "await"

\* Mutant of StopTask: it takes the task out of the list itself.
StopTaskRemoving(s) ==
    LET t == list[stop[s].at] IN
    /\ stop[s].pc = "next" /\ ~Exhausted(s)
    /\ IF t \in tasks
         THEN /\ stop' = [stop EXCEPT ![s].pc = After(t), ![s].at = @ + 1,
                                     ![s].cur = IF After(t) = "await" THEN {t} ELSE {}]
              /\ tasks' = tasks \ {t}
              /\ state' = [state EXCEPT ![t] = IF @ = "running" THEN "cancelling" ELSE @]
              /\ list' = Without(list, t)
         ELSE /\ stop' = [stop EXCEPT ![s].pc = "failed"]
              /\ UNCHANGED <<tasks, state, list>>

\* The loop's next task: stop_task pops and cancels it, and awaits it.
StopTask(s) ==
    LET t == list[stop[s].at] IN
    /\ stop[s].pc = "next" /\ ~Exhausted(s)
    /\ IF t \in tasks
         THEN /\ stop' = [stop EXCEPT ![s].pc = After(t), ![s].at = @ + 1,
                                     ![s].cur = IF After(t) = "await" THEN {t} ELSE {}]
              /\ tasks' = tasks \ {t}
              /\ state' = [state EXCEPT ![t] = IF @ = "running" THEN "cancelling" ELSE @]
         ELSE /\ stop' = [stop EXCEPT ![s].pc = "failed"]
              /\ UNCHANGED <<tasks, state>>
    /\ UNCHANGED list

StopAll(s) ==
    /\ stop[s].pc = "next" /\ Exhausted(s)
    /\ stop' = [stop EXCEPT ![s].pc = "stopped"]
    /\ UNCHANGED <<state, tasks, list>>

\* The awaited task is over.
StopAwaited(s) ==
    \E t \in stop[s].cur :
        /\ state[t] \in Over
        /\ stop' = [stop EXCEPT ![s].pc = After(t), ![s].cur = {}]
        /\ UNCHANGED <<state, tasks, list>>

StopStep(s) == StopTask(s) \/ StopAll(s) \/ StopAwaited(s)

Next ==
    \/ \E t \in Tasks : CreateTask(t) \/ TaskEnds(t) \/ CleanupTask(t)
    \/ \E s \in Stoppers : StopItemTasks(s) \/ StopStep(s)

Spec == Init /\ [][Next]_vars

-----------------------------------------------------------------------------
\* What a call that answers that all tasks were stopped has left running.
Missed(s) == {t \in stop[s].asked : state[t] = "running"}

\* stop_item_tasks walks over item_tasks[id] while the cleanups of the tasks it has
\* awaited remove from it, so it can skip tasks and still answer that all were stopped.
\* It misses at most one task for each of those cleanups, and so none when no task it
\* had passed was cleaned up meanwhile, whatever two calls, new tasks and tasks that
\* end by themselves do.
MissesOnlyMoved ==
    \A s \in Stoppers : stop[s].pc = "stopped" => Cardinality(Missed(s)) <= stop[s].moved
=============================================================================
