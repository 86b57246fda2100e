--------------------------- MODULE SubagentResults ---------------------------
(***************************************************************************)
(* How results of background sub-agents reach the chat that asked for      *)
(* them.  A result is put into the history of the chat; whoever then finds *)
(* the chat idle, the sub-agent or a turn that ends, takes the waiting     *)
(* results and starts a turn that answers them.  Each server process has   *)
(* its own lock for the chat; on PostgreSQL the chat row is locked too.    *)
(***************************************************************************)
EXTENDS Integers, Sequences, FiniteSets, Selection

CONSTANTS
    Agents,         \* background sub-agents
    Workers,        \* server processes
    Home,           \* the process each sub-agent runs in
    MaxTurns,       \* bound on the turns of the chat
    MaxPrompts,     \* bound on the turns the user starts
    Postgres,       \* the chat row is locked between read and commit
    MaxFaults       \* bound on completions that fail to start

\* What is assumed of the constants.
ResultAssumption ==
    /\ Home \in [Agents -> Workers] /\ Agents \cap (0..MaxTurns) = {} /\ Postgres \in BOOLEAN
    /\ MaxTurns \in Nat /\ MaxPrompts \in Nat /\ MaxFaults \in Nat

VARIABLES
    pc,         \* where each sub-agent and each turn is
    at,         \* the process each of them runs in
    running,    \* turns in the task registry: has_active_tasks
    waiting,    \* results in the history without an answer, with their parents
    finished,   \* turns that ended: the newest finished reply
    lock,       \* _parent_locks of each process
    row,        \* who has the chat row locked
    batch,      \* the results each one is about to answer
    answers,    \* history: how often each result was given to a turn
    prompts, faults

vars == <<pc, at, running, waiting, finished, lock, row, batch, answers, prompts, faults>>

Turns == 1..MaxTurns
Actors == Agents \cup Turns
Nobody == 0             \* is no actor

Steps == {"new", "running", "working", "deliver", "deliverRow", "store", "check", "idle?", "lock", "locked",
          "read", "commit", "call", "ended"}

\* Types; who has a lock is at work under it.
TypeOK ==
    /\ pc \in [Actors -> Steps] /\ at \in [Actors -> Workers]
    /\ running \subseteq {t \in Turns : pc[t] = "running"}
    /\ finished \in 0..MaxTurns /\ prompts \in 0..MaxPrompts /\ faults \in 0..MaxFaults
    /\ \A w \in Workers : lock[w] # Nobody =>
         /\ at[lock[w]] = w
         /\ pc[lock[w]] \in {"deliverRow", "store", "locked", "read", "commit", "call"}
    /\ row # Nobody => pc[row] \in {"store", "commit"}
    /\ batch \in [Actors -> SUBSET Agents]

Init ==
    /\ pc = [a \in Actors |-> IF a \in Agents THEN "working" ELSE "new"]
    /\ at = [a \in Actors |-> IF a \in Agents THEN Home[a] ELSE CHOOSE w \in Workers : TRUE]
    /\ running = {} /\ waiting = <<>> /\ finished = 0
    /\ lock = [w \in Workers |-> Nobody] /\ row = Nobody
    /\ batch = [a \in Actors |-> {}]
    /\ answers = [d \in Agents |-> 0]
    /\ prompts = 0 /\ faults = 0

Goto(a, step) == pc' = [pc EXCEPT ![a] = step]

\* The process lock is taken, or given back.
Lock(a) == lock[at[a]] = Nobody /\ lock' = [lock EXCEPT ![at[a]] = a]
Unlock(a) == lock' = [lock EXCEPT ![at[a]] = Nobody]

\* The chat is read; on PostgreSQL no one else may have it.
LockRow(a) == (Postgres => row = Nobody) /\ row' = a

-----------------------------------------------------------------------------
\* A turn that has not been used begins in process w.
StartTurn(t, w) ==
    /\ pc[t] = "new" /\ \A u \in 1..(t - 1) : pc[u] # "new"
    /\ at' = [at EXCEPT ![t] = w]
    /\ running' = running \cup {t}

\* The user sends a prompt.
Prompt(t, w) ==
    /\ prompts < MaxPrompts /\ StartTurn(t, w) /\ Goto(t, "running")
    /\ prompts' = prompts + 1
    /\ UNCHANGED <<waiting, finished, lock, row, batch, answers, faults>>

\* The turn ends, and its task leaves the registry.
EndTurn(t) ==
    /\ t \in running
    /\ running' = running \ {t} /\ finished' = finished + 1
    /\ Goto(t, "check")
    /\ UNCHANGED <<at, waiting, lock, row, batch, answers, prompts, faults>>

\* The sub-agent is done, failed or was cancelled; it takes the chat's lock.
Deliver(d) ==
    /\ pc[d] = "working" /\ Lock(d) /\ Goto(d, "deliverRow")
    /\ UNCHANGED <<at, running, waiting, finished, row, batch, answers, prompts, faults>>

\* The chat is read to put the result into it.
ReadParent(d) ==
    /\ pc[d] = "deliverRow" /\ LockRow(d) /\ Goto(d, "store")
    /\ UNCHANGED <<at, running, waiting, finished, lock, batch, answers, prompts, faults>>

\* The result is put below the newest finished reply.
Store(d) ==
    /\ pc[d] = "store"
    /\ waiting' = Append(waiting, [agent |-> d, parent |-> finished])
    /\ row' = Nobody /\ Unlock(d) /\ Goto(d, "check")
    /\ UNCHANGED <<at, running, finished, batch, answers, prompts, faults>>

\* Results are looked for only if the chat has no turn under way.
Check(a) ==
    /\ pc[a] = "check"
    /\ Goto(a, IF running = {} THEN "idle?" ELSE "ended")
    /\ UNCHANGED <<at, running, waiting, finished, lock, row, batch, answers, prompts, faults>>

-----------------------------------------------------------------------------
\* process_pending_internal_messages waits for the chat to be idle,
AwaitIdle(a) ==
    /\ pc[a] = "idle?" /\ running = {}
    /\ Goto(a, "lock")
    /\ UNCHANGED <<at, running, waiting, finished, lock, row, batch, answers, prompts, faults>>

\* takes the lock,
TakeLock(a) ==
    /\ pc[a] = "lock" /\ Lock(a) /\ Goto(a, "locked")
    /\ UNCHANGED <<at, running, waiting, finished, row, batch, answers, prompts, faults>>

\* and looks again: a turn that began since will look when it ends.
LookAgain(a) ==
    /\ pc[a] = "locked"
    /\ IF running = {} THEN Goto(a, "read") /\ UNCHANGED lock
                       ELSE Goto(a, "ended") /\ Unlock(a)
    /\ UNCHANGED <<at, running, waiting, finished, row, batch, answers, prompts, faults>>

\* The results that hang below the same reply as the first are one batch.
FirstBatch == {waiting[k].agent : k \in {j \in DOMAIN waiting : waiting[j].parent = Head(waiting).parent}}

\* The waiting results are read; without any there is nothing to do.
ReadResults(a) ==
    /\ pc[a] = "read"
    /\ IF waiting = <<>>
       THEN Goto(a, "ended") /\ Unlock(a) /\ UNCHANGED <<row, batch>>
       ELSE LockRow(a) /\ Goto(a, "commit") /\ batch' = [batch EXCEPT ![a] = FirstBatch] /\ UNCHANGED lock
    /\ (Postgres => row = Nobody)
    /\ UNCHANGED <<at, running, waiting, finished, answers, prompts, faults>>

TakeKeeps(a) ==
    /\ pc[a] = "commit"
    /\ row' = Nobody /\ Goto(a, "call")
    /\ UNCHANGED <<at, running, waiting, finished, lock, batch, answers, prompts, faults>>

\* One message with the results and an empty reply below it are committed.
Take(a) ==
    /\ pc[a] = "commit"
    /\ waiting' = Only(waiting, [agent : Agents \ batch[a], parent : Nat])
    /\ row' = Nobody /\ Goto(a, "call")
    /\ UNCHANGED <<at, running, finished, lock, batch, answers, prompts, faults>>

\* CHAT_COMPLETION_HANDLER starts the turn that answers.
Call(a, t) ==
    /\ pc[a] = "call" /\ StartTurn(t, at[a])
    /\ pc' = [pc EXCEPT ![a] = "ended", ![t] = "running"]
    /\ Unlock(a)
    /\ batch' = [batch EXCEPT ![a] = {}]
    /\ answers' = [d \in Agents |-> IF d \in batch[a] THEN answers[d] + 1 ELSE answers[d]]
    /\ UNCHANGED <<waiting, finished, row, prompts, faults>>

\* It raises: the model is gone, or its filters refuse.
CallFails(a) ==
    /\ pc[a] = "call" /\ faults < MaxFaults
    /\ faults' = faults + 1
    /\ Goto(a, "ended") /\ Unlock(a)
    /\ batch' = [batch EXCEPT ![a] = {}]
    /\ UNCHANGED <<at, running, waiting, finished, row, answers, prompts>>

Process(a) ==
    \/ Check(a) \/ AwaitIdle(a) \/ TakeLock(a) \/ LookAgain(a) \/ ReadResults(a) \/ Take(a)
    \/ \E t \in Turns : Call(a, t)

Next ==
    \/ \E t \in Turns : EndTurn(t) \/ \E w \in Workers : Prompt(t, w)
    \/ \E d \in Agents : Deliver(d) \/ ReadParent(d) \/ Store(d)
    \/ \E a \in Actors : Process(a) \/ CallFails(a)

Spec == Init /\ [][Next]_vars

\* Something under way goes on: sub-agents and turns end, locks are handed on.
Fairness ==
    WF_vars(\/ \E t \in Turns : EndTurn(t)
            \/ \E d \in Agents : Deliver(d) \/ ReadParent(d) \/ Store(d)
            \/ \E a \in Actors : Process(a))

FairSpec == Spec /\ Fairness

-----------------------------------------------------------------------------
\* In the end every result was given to exactly one turn, in whichever process
\* it arrived, whatever turns ran and whoever else looked at the same time; only
\* a completion that fails to start loses results.
AnsweredExactlyOnce == <>[](faults > 0 \/ \A d \in Agents : answers[d] = 1)
=============================================================================
