------------------------------ MODULE ChatTimers ------------------------------
(***************************************************************************)
(* A one-shot timer of a chat: the internal child chat that holds it, the  *)
(* scheduler loop of every instance that claims it when it is due, the     *)
(* executors it spawns, the cancellation by events of the parent chat and  *)
(* the instances that crash.  A select and the commit of what was computed *)
(* from it are two steps; on PostgreSQL the select of a claim locks the    *)
(* row, on SQLite nothing does.                                            *)
(***************************************************************************)
EXTENDS Naturals, FiniteSets

CONSTANTS
    Instances,  \* server processes, each with its scheduler loop
    Claims,     \* bound: claim ids handed out
    Nobody,     \* no claim id, no lock holder
    Postgres,   \* the database dialect
    CancelOn,   \* the events that cancel this timer
    MaxEvents,  \* bound: events of the parent chat
    MaxCrashes  \* bound: crashes of instances

Events == {"chat.read", "chat.user_message"}

ASSUME TimerAssumption ==
    /\ IsFiniteSet(Instances) /\ IsFiniteSet(Claims)
    /\ Nobody \notin Claims \cup Instances
    /\ Postgres \in BOOLEAN /\ CancelOn \subseteq Events
    /\ MaxEvents \in Nat /\ MaxCrashes \in Nat

VARIABLES
    due,        \* the timer's time has come
    row,        \* the timer's chat row: [status, armed, claim]
    lock,       \* the instance whose open transaction locks the row
    loop,       \* what the claim transaction of each instance read
    exec,       \* execute_due_timer, one per claim: [pc, on]
    cancel,     \* cancel_timers_for_chat: [pc, event]
    active,     \* the parent chat has an active task
    parent,     \* the parent chat exists
    events, crashes,
    fired       \* history: prompts sent into the parent chat

vars == <<due, row, lock, loop, exec, cancel, active, parent, events, crashes, fired>>

NoExec == [pc |-> "none", on |-> Nobody]
NoCancel == [pc |-> "idle", event |-> "chat.read"]
Pending == row.status = "pending"

\* Types; a row waiting for its time is armed and nobody has claimed it.
TypeOK ==
    /\ due \in BOOLEAN /\ active \in BOOLEAN /\ parent \in BOOLEAN
    /\ row \in [status : {"pending", "running", "completed", "cancelled", "error"},
                armed : BOOLEAN, claim : Claims \cup {Nobody}]
    /\ Postgres /\ Pending => row.armed /\ row.claim = Nobody
    /\ lock \in Instances \cup {Nobody}
    /\ loop \in [Instances -> {"idle", "selected"}]
    /\ exec \in [Claims -> [pc : {"none", "waiting", "checked", "clear", "calling", "failing", "done"},
                            on : Instances \cup {Nobody}]]
    /\ cancel \in [pc : {"idle", "selected", "skipped"}, event : Events]
    /\ events \in 0..MaxEvents /\ crashes \in 0..MaxCrashes
    /\ fired \in 0..Cardinality(Claims)

\* create_timer: the row is pending and armed.
Init ==
    /\ due = FALSE /\ active = FALSE /\ parent = TRUE
    /\ row = [status |-> "pending", armed |-> TRUE, claim |-> Nobody]
    /\ lock = Nobody
    /\ loop = [i \in Instances |-> "idle"]
    /\ exec = [c \in Claims |-> NoExec]
    /\ cancel = NoCancel
    /\ events = 0 /\ crashes = 0 /\ fired = 0

Unlocked == lock = Nobody

-----------------------------------------------------------------------------
ClaimSelectUnlocked(i) ==
    /\ loop[i] = "idle"
    /\ due /\ row.armed /\ Pending
    /\ loop' = [loop EXCEPT ![i] = "selected"]
    /\ UNCHANGED <<due, row, lock, exec, cancel, active, parent, events, crashes, fired>>

\* claim_due_timers reads the due timers, skipping rows another one locks.
ClaimSelect(i) ==
    /\ loop[i] = "idle"
    /\ due /\ row.armed /\ Pending
    /\ Postgres => Unlocked
    /\ loop' = [loop EXCEPT ![i] = "selected"]
    /\ lock' = IF Postgres THEN i ELSE lock
    /\ UNCHANGED <<due, row, exec, cancel, active, parent, events, crashes, fired>>

\* Its commit; the loop then spawns the executor.
ClaimCommit(i) ==
    \E c \in Claims :
        /\ loop[i] = "selected"
        /\ exec[c].pc = "none"
        /\ row' = [status |-> "running", armed |-> FALSE, claim |-> c]
        /\ exec' = [exec EXCEPT ![c] = [pc |-> "waiting", on |-> i]]
        /\ loop' = [loop EXCEPT ![i] = "idle"]
        /\ lock' = IF lock = i THEN Nobody ELSE lock
        /\ UNCHANGED <<due, cancel, active, parent, events, crashes, fired>>

-----------------------------------------------------------------------------
\* _timer_locks: executors of one instance run one after the other.
Busy(i) == \E c \in Claims : exec[c].on = i /\ exec[c].pc \in {"checked", "clear", "calling", "failing"}

Go(c, pc) == exec' = [exec EXCEPT ![c].pc = pc]

\* The claim is still the row's.
IsMine(c) == row.status = "running" /\ row.claim = c

\* execute_due_timer enters its lock, reads the timer and checks the claim.
ExecCheck(c) ==
    /\ exec[c].pc = "waiting" /\ ~Busy(exec[c].on)
    /\ Go(c, IF IsMine(c) THEN "checked" ELSE "done")
    /\ UNCHANGED <<due, row, lock, loop, cancel, active, parent, events, crashes, fired>>

\* The parent chat, the prompt, the user or the model is gone.
ExecMissing(c) ==
    /\ exec[c].pc = "checked" /\ ~parent /\ Unlocked
    /\ row' = [row EXCEPT !.status = "error"]
    /\ Go(c, "done")
    /\ UNCHANGED <<due, lock, loop, cancel, active, parent, events, crashes, fired>>

ExecDeferHalf(c) ==
    /\ exec[c].pc = "checked" /\ parent /\ active /\ Unlocked
    /\ row' = [row EXCEPT !.status = "pending", !.claim = Nobody]
    /\ Go(c, "done")
    /\ UNCHANGED <<due, lock, loop, cancel, active, parent, events, crashes, fired>>

\* The parent is busy: the timer is put back, whatever its status has become.
ExecDefer(c) ==
    /\ exec[c].pc = "checked" /\ parent /\ active /\ Unlocked
    /\ row' = [status |-> "pending", armed |-> TRUE, claim |-> Nobody]
    /\ Go(c, "done")
    /\ UNCHANGED <<due, lock, loop, cancel, active, parent, events, crashes, fired>>

\* has_active_tasks was false; the transaction goes on to its commit.
ExecClear(c) ==
    /\ exec[c].pc = "checked" /\ parent /\ ~active
    /\ Go(c, "clear")
    /\ UNCHANGED <<due, row, lock, loop, cancel, active, parent, events, crashes, fired>>

\* The commit: the prompt and the empty answer are in the parent chat.
ExecFire(c) ==
    /\ exec[c].pc = "clear" /\ Unlocked
    /\ row' = [row EXCEPT !.status = "completed"]
    /\ fired' = fired + 1
    /\ Go(c, "calling")
    /\ UNCHANGED <<due, lock, loop, cancel, active, parent, events, crashes>>

\* CHAT_COMPLETION_HANDLER returns (its task is the chat's active task) or raises.
ExecAnswer(c) ==
    /\ exec[c].pc = "calling"
    /\ \/ Go(c, "done") /\ active' = TRUE
       \/ Go(c, "failing") /\ UNCHANGED active
    /\ UNCHANGED <<due, row, lock, loop, cancel, parent, events, crashes, fired>>

ExecFailRetry(c) ==
    /\ exec[c].pc = "failing" /\ Unlocked
    /\ row' = [status |-> "pending", armed |-> TRUE, claim |-> Nobody]
    /\ Go(c, "done")
    /\ UNCHANGED <<due, lock, loop, cancel, active, parent, events, crashes, fired>>

\* _set_timer_state: a handler that raised leaves an error.
ExecFail(c) ==
    /\ exec[c].pc = "failing" /\ Unlocked
    /\ row' = [row EXCEPT !.status = "error"]
    /\ Go(c, "done")
    /\ UNCHANGED <<due, lock, loop, cancel, active, parent, events, crashes, fired>>

-----------------------------------------------------------------------------
\* The owner reads the chat or sends a message: cancel_timers_for_chat reads
\* the pending timers with this event.
CancelSelect(e) ==
    /\ cancel.pc = "idle" /\ events < MaxEvents /\ parent
    /\ events' = events + 1
    /\ cancel' = [pc |-> IF Pending /\ row.armed /\ e \in CancelOn THEN "selected" ELSE "skipped",
                  event |-> e]
    /\ UNCHANGED <<due, row, lock, loop, exec, active, parent, crashes, fired>>

\* Its commit, by primary key; a message then starts the chat's task.
CancelCommit ==
    /\ cancel.pc # "idle"
    /\ cancel.pc = "selected" => Unlocked
    /\ row' = IF cancel.pc = "selected"
                THEN [status |-> "cancelled", armed |-> FALSE, claim |-> Nobody] ELSE row
    /\ active' = (active \/ cancel.event = "chat.user_message")
    /\ cancel' = NoCancel
    /\ UNCHANGED <<due, lock, loop, exec, parent, events, crashes, fired>>

TaskEnds ==
    /\ active
    /\ active' = FALSE
    /\ UNCHANGED <<due, row, lock, loop, exec, cancel, parent, events, crashes, fired>>

DeleteParent ==
    /\ parent /\ events < MaxEvents
    /\ parent' = FALSE /\ events' = events + 1
    /\ UNCHANGED <<due, row, lock, loop, exec, cancel, active, crashes, fired>>

ComesDue ==
    /\ ~due /\ due' = TRUE
    /\ UNCHANGED <<row, lock, loop, exec, cancel, active, parent, events, crashes, fired>>

\* A process ends: its loop and executors are gone, its transaction undone.
Crash(i) ==
    /\ crashes < MaxCrashes
    /\ crashes' = crashes + 1
    /\ loop' = [loop EXCEPT ![i] = "idle"]
    /\ lock' = IF lock = i THEN Nobody ELSE lock
    /\ exec' = [c \in Claims |-> IF exec[c].on = i THEN [exec[c] EXCEPT !.pc = "done"] ELSE exec[c]]
    /\ UNCHANGED <<due, row, cancel, active, parent, events, fired>>

ExecStep(c) == \/ ExecCheck(c) \/ ExecMissing(c) \/ ExecDefer(c) \/ ExecClear(c)
               \/ ExecFire(c) \/ ExecAnswer(c) \/ ExecFail(c)

Next ==
    \/ \E i \in Instances : ClaimSelect(i) \/ ClaimCommit(i) \/ Crash(i)
    \/ \E c \in Claims : ExecStep(c)
    \/ \E e \in Events : CancelSelect(e)
    \/ CancelCommit \/ TaskEnds \/ DeleteParent \/ ComesDue

Spec == Init /\ [][Next]_vars

\* The loops poll, executors and handlers run on, and tasks end.
Fairness ==
    /\ \A i \in Instances : SF_vars(ClaimSelect(i)) /\ SF_vars(ClaimCommit(i))
    /\ \A c \in Claims : WF_vars(ExecStep(c))
    /\ WF_vars(CancelCommit) /\ WF_vars(TaskEnds) /\ WF_vars(ComesDue)
FairSpec == Spec /\ Fairness

-----------------------------------------------------------------------------
\* One-shot: the prompt is sent into the chat at most once, whatever instances
\* poll and whatever is put back, cancelled or crashes in between.
FiredOnce == fired <= 1

\* A timer cancelled before an executor looked at it stays so: no claim, no
\* executor of an earlier claim and no commit of an old read brings it back.
CancelledStays ==
    [][row.status = "cancelled" /\ (\A c \in Claims : exec[c].pc \in {"none", "waiting", "done"})
       => row' = row /\ fired' = fired]_vars

\* A due timer fires, is cancelled or ends in an error, however often it is put
\* back because the chat is busy; an instance that ends may take it with it.
Settled == row.status \in {"completed", "cancelled", "error"}
OutOfClaims == \A c \in Claims : exec[c].pc # "none"
DueFires == due ~> (Settled \/ OutOfClaims \/ crashes > 0)
=============================================================================
