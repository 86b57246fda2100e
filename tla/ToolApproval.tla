----------------------------- MODULE ToolApproval -----------------------------
(***************************************************************************)
(* Approval of the tool calls of one reply.  The calls and their results   *)
(* are kept in the stored message; a click resolves one call there and     *)
(* starts a completion, which runs what is approved and goes on with the   *)
(* reply.  Clicks and completions read the output and later write all of   *)
(* it back.  The ask_user tool is not modelled.                            *)
(***************************************************************************)
EXTENDS Integers, FiniteSetsExt

CONSTANTS
    Tabs,
    MaxCalls,       \* bound: calls of the reply, numbered as the model makes them
    MaxTasks,       \* bound: completions under way at once
    MaxClicks,      \* bound: presses of approve and reject
    MaxSwitches,    \* bound: switches of the permission mode
    MaxStops,       \* bound: presses of stop
    MaxFaults       \* bound: completions that fail

ASSUME ApprovalAssumption ==
    /\ {MaxCalls, MaxTasks, MaxClicks, MaxSwitches, MaxStops, MaxFaults} \subseteq Nat
    /\ MaxTasks # 0

VARIABLES
    msg,        \* the stored message: [st, ok, res, done]
    mode,       \* params.tool_approval_mode of the chat
    req,        \* the resolve request of each tab
    task,       \* the completions: [pc, mode, out, todo]
    calls,      \* calls made so far
    ran,        \* history: calls that were executed
    twice,      \* history: calls that were executed again
    allowed,    \* history: calls the user approved, or made in full mode
    clicks, switches, stops, faults

vars == <<msg, mode, req, task, calls, ran, twice, allowed, clicks, switches, stops, faults>>

Calls == 1..MaxCalls
Tasks == 1..MaxTasks

\* Status of each call, the ones marked approved, the ones with a result.
Output == [st : [Calls -> {"none", "in_progress", "pending", "queued", "rejected", "completed"}],
           ok : SUBSET Calls, res : SUBSET Calls, done : BOOLEAN]
NoOutput == [st |-> [c \in Calls |-> "none"], ok |-> {}, res |-> {}, done |-> FALSE]
Over == [pc |-> "over", mode |-> "ask", out |-> NoOutput, todo |-> {}]
Started(m) == [Over EXCEPT !.pc = "drain", !.mode = m]
Idle == [at |-> "idle"]

\* Types; a completion that is over holds nothing.
TypeOK ==
    /\ msg \in Output /\ mode \in {"ask", "full"}
    /\ task \in [Tasks -> [pc : {"drain", "exec", "write", "reply", "stream", "run", "over"},
                           mode : {"ask", "full"}, out : Output, todo : SUBSET Calls]]
    /\ \A k \in Tasks : task[k].pc = "over" => task[k] = Over
    /\ calls \in 0..MaxCalls /\ twice \subseteq ran /\ ran \subseteq Calls /\ allowed \subseteq Calls
    /\ clicks \in 0..MaxClicks /\ switches \in 0..MaxSwitches /\ stops \in 0..MaxStops /\ faults \in 0..MaxFaults

\* The prompt was sent.
Init ==
    /\ msg = NoOutput /\ mode \in {"ask", "full"}
    /\ req = [t \in Tabs |-> Idle]
    /\ task = [k \in Tasks |-> IF k = 1 THEN Started(mode) ELSE Over]
    /\ calls = 0 /\ ran = {} /\ twice = {} /\ allowed = {}
    /\ clicks = 0 /\ switches = 0 /\ stops = 0 /\ faults = 0

-----------------------------------------------------------------------------
Unresolved(o) == {c \in Calls : o.st[c] # "none"} \ o.res
Open(o) == {c \in Unresolved(o) : o.st[c] \in {"pending", "queued"}}
Pending(o) == {c \in Unresolved(o) : o.st[c] = "pending"}

\* Queued calls that nobody has approved.
Waiting(o) == {c \in Unresolved(o) : o.st[c] = "queued" /\ c \notin o.ok}

ApprovedAnyQueued(o) == {c \in Unresolved(o) : o.st[c] = "queued"}

\* approved_calls of drain_approved_tool_calls
Approved(o) == {c \in Unresolved(o) : o.st[c] = "queued" /\ c \in o.ok}

PauseNothing(o) ==
    LET live == {c \in Unresolved(o) : o.st[c] # "rejected"}
    IN [o EXCEPT !.done = FALSE,
                 !.st = [c \in Calls |-> IF c \in live /\ @[c] = "in_progress"
                                         THEN IF c = Min(live) THEN "pending" ELSE "queued"
                                         ELSE @[c]]]

\* pause_for_tool_approval: the first open call is the one asked about.
Pause(o) ==
    LET live == {c \in Unresolved(o) : o.st[c] # "rejected"}
    IN [o EXCEPT !.done = FALSE,
                 !.st = [c \in Calls |-> IF c \in live /\ c = Min(live) THEN "pending"
                                         ELSE IF c \in live /\ @[c] = "in_progress" THEN "queued"
                                         ELSE @[c]]]

PauseIfAsked(o, m) == IF m = "ask" /\ Waiting(o) # {} THEN Pause(o) ELSE o

-----------------------------------------------------------------------------
(* The tabs. *)

Request(t, c, action) == req' = [req EXCEPT ![t] = [at |-> "read", call |-> c, action |-> action]]

\* A tab shows the buttons of a pending call, and one is pressed.
Click(t, c, action) ==
    /\ req[t] = Idle /\ c \in Pending(msg) /\ clicks < MaxClicks
    /\ clicks' = clicks + 1
    /\ Request(t, c, action)
    /\ allowed' = IF action = "approve" THEN allowed \cup {c} ELSE allowed
    /\ UNCHANGED <<msg, mode, task, calls, ran, twice, switches, stops, faults>>

\* The mode is switched; with full permissions the pending call is approved.
SwitchMode(t, m) ==
    /\ req[t] = Idle /\ m # mode /\ switches < MaxSwitches
    /\ mode' = m /\ switches' = switches + 1
    /\ IF m = "full" /\ Pending(msg) # {}
       THEN Request(t, Min(Pending(msg)), "approve") /\ allowed' = allowed \cup {Min(Pending(msg))}
       ELSE UNCHANGED <<req, allowed>>
    /\ UNCHANGED <<msg, task, calls, ran, twice, clicks, stops, faults>>

\* The output with the call resolved.
Resolved(o, c, action) ==
    IF action = "approve" THEN [o EXCEPT !.st[c] = "queued", !.ok = @ \cup {c}]
                          ELSE [o EXCEPT !.st[c] = "rejected", !.res = @ \cup {c}]

\* resolve_tool_call_output reads the message; a call already resolved is 409.
ResolveRead(t) ==
    LET r == req[t]
    IN /\ r.at = "read"
       /\ req' = [req EXCEPT ![t] =
                    IF r.call \in Open(msg)
                    THEN [at |-> "write", out |-> Resolved(msg, r.call, r.action), mode |-> mode]
                    ELSE Idle]
       /\ UNCHANGED <<msg, mode, task, calls, ran, twice, allowed, clicks, switches, stops, faults>>

\* It writes the output back, and the reply is resumed.
ResolveWrite(t) ==
    LET free == {k \in Tasks : task[k] = Over}
    IN /\ req[t].at = "write" /\ free # {}
       /\ msg' = [req[t].out EXCEPT !.done = FALSE]
       /\ task' = [task EXCEPT ![Min(free)] = Started(req[t].mode)]
       /\ req' = [req EXCEPT ![t] = Idle]
       /\ UNCHANGED <<mode, calls, ran, twice, allowed, clicks, switches, stops, faults>>

-----------------------------------------------------------------------------
(* A completion: process_chat. *)

At(k, pc) == task[k].pc = pc

\* drain_approved_tool_calls reads the message.
Drain(k) ==
    /\ At(k, "drain")
    /\ IF Approved(msg) # {}
       THEN /\ task' = [task EXCEPT ![k] = [@ EXCEPT !.pc = "exec", !.out = msg, !.todo = Approved(msg)]]
            /\ UNCHANGED msg
       ELSE /\ msg' = PauseIfAsked(msg, task[k].mode)
            /\ task' = [task EXCEPT ![k] = IF @.mode = "ask" /\ Waiting(msg) # {} THEN Over
                                                                  ELSE [@ EXCEPT !.pc = "reply"]]
    /\ UNCHANGED <<mode, req, calls, ran, twice, allowed, clicks, switches, stops, faults>>

\* The next approved call is executed.
Execute(k) ==
    LET c == Min(task[k].todo)
        o == task[k].out
        left == task[k].todo \ {c}
    IN /\ At(k, "exec")
       /\ ran' = ran \cup {c} /\ twice' = twice \cup (ran \cap {c})
       /\ task' = [task EXCEPT ![k] =
                    [@ EXCEPT !.out = [o EXCEPT !.st[c] = "completed", !.res = o.res \cup {c}],
                              !.todo = left, !.pc = IF left = {} THEN "write" ELSE "exec"]]
       /\ UNCHANGED <<msg, mode, req, calls, allowed, clicks, switches, stops, faults>>

\* The output is written; open calls pause the reply.
WriteOutput(k) ==
    LET o == PauseIfAsked(task[k].out, task[k].mode)
    IN /\ At(k, "write")
       /\ msg' = [o EXCEPT !.done = FALSE]
       /\ task' = [task EXCEPT ![k] = IF Open(o) # {} THEN Over
                                      ELSE [@ EXCEPT !.pc = "reply", !.out = NoOutput]]
       /\ UNCHANGED <<mode, req, calls, ran, twice, allowed, clicks, switches, stops, faults>>

\* The model is called; the stored output is what the reply goes on from.
Reply(k) ==
    /\ At(k, "reply")
    /\ task' = [task EXCEPT ![k].pc = "stream", ![k].out = msg]
    /\ UNCHANGED <<msg, mode, req, calls, ran, twice, allowed, clicks, switches, stops, faults>>

\* The reply is over.
Answer(k) ==
    /\ At(k, "stream")
    /\ msg' = [task[k].out EXCEPT !.done = TRUE]
    /\ task' = [task EXCEPT ![k] = Over]
    /\ UNCHANGED <<mode, req, calls, ran, twice, allowed, clicks, switches, stops, faults>>

\* The model makes n calls: they are asked about, or executed one by one.
CallTools(k, n) ==
    LET batch == (calls + 1)..(calls + n)
        out == [task[k].out EXCEPT !.st = [c \in Calls |-> IF c \in batch THEN "in_progress" ELSE @[c]]]
    IN /\ At(k, "stream") /\ calls + n <= MaxCalls
       /\ calls' = calls + n
       /\ IF task[k].mode = "ask"
          THEN /\ msg' = Pause(out) /\ task' = [task EXCEPT ![k] = Over]
               /\ UNCHANGED allowed
          ELSE /\ task' = [task EXCEPT ![k] = [@ EXCEPT !.pc = "run", !.out = out, !.todo = batch]]
               /\ allowed' = allowed \cup batch
               /\ UNCHANGED msg
       /\ UNCHANGED <<mode, req, ran, twice, clicks, switches, stops, faults>>

\* A call of a batch in full mode; the results are added after the last.
Run(k) ==
    LET c == Min(task[k].todo)
        batch == {b \in Calls : task[k].out.st[b] = "in_progress"}
        o == task[k].out
        left == task[k].todo \ {c}
    IN /\ At(k, "run")
       /\ ran' = ran \cup {c} /\ twice' = twice \cup (ran \cap {c})
       /\ task' = [task EXCEPT ![k] =
                    IF left # {} THEN [@ EXCEPT !.todo = left]
                    ELSE [@ EXCEPT !.pc = "stream", !.todo = {},
                            !.out = [o EXCEPT !.res = o.res \cup batch,
                                              !.st = [b \in Calls |-> IF b \in batch THEN "completed"
                                                                                    ELSE o.st[b]]]]]
       /\ UNCHANGED <<msg, mode, req, calls, allowed, clicks, switches, stops, faults>>

\* The payload cannot be built or the model not be reached: the error is stored.
Fail(k) ==
    /\ task[k].pc \in {"drain", "reply"} /\ faults < MaxFaults
    /\ faults' = faults + 1
    /\ task' = [task EXCEPT ![k] = Over]
    /\ UNCHANGED <<msg, mode, req, calls, ran, twice, allowed, clicks, switches, stops>>

\* Stop cancels the completions; one that streams saves its output.  Without any,
\* the calls that wait are rejected.
Stop ==
    LET active == {k \in Tasks : task[k] # Over}
        saving == {k \in active : task[k].pc \in {"stream", "run"}}
    IN /\ stops < MaxStops /\ stops' = stops + 1
       /\ task' = [k \in Tasks |-> Over]
       /\ IF saving # {} THEN \E k \in saving : msg' = [task[k].out EXCEPT !.done = TRUE]
          ELSE IF active # {} \/ msg.done THEN UNCHANGED msg
          ELSE LET waits == {c \in Calls : msg.st[c] \in {"pending", "queued"}}
               IN msg' = [msg EXCEPT !.done = TRUE, !.ok = @ \ waits,
                            !.st = [c \in Calls |-> IF c \in waits THEN "rejected" ELSE @[c]]]
       /\ UNCHANGED <<mode, req, calls, ran, twice, allowed, clicks, switches, faults>>

Next ==
    \/ \E t \in Tabs :
         \/ ResolveRead(t) \/ ResolveWrite(t)
         \/ \E c \in Calls, a \in {"approve", "reject"} : Click(t, c, a)
         \/ \E m \in {"ask", "full"} : SwitchMode(t, m)
    \/ \E k \in Tasks :
         \/ Drain(k) \/ Execute(k) \/ WriteOutput(k) \/ Reply(k) \/ Answer(k) \/ Run(k) \/ Fail(k)
         \/ \E n \in 1..2 : CallTools(k, n)
    \/ Stop

Spec == Init /\ [][Next]_vars

-----------------------------------------------------------------------------
\* A tool runs only if the user approved that call, or made it in a reply that
\* was started with full permissions: no write of a stale output, pause, stop or
\* switch of the mode lets a call through that was only queued behind another.
RunsOnlyApproved == ran \subseteq allowed

\* A reply that nobody works on is finished or asks about a call, whatever two
\* tabs resolved at once, unless it was stopped, failed or the mode was switched.
NeverStuck ==
    /\ stops = 0 /\ faults = 0 /\ switches = 0
    /\ \A k \in Tasks : task[k] = Over
    /\ \A t \in Tabs : req[t] = Idle
    => msg.done \/ Pending(msg) # {}

\* "Tool call has already been resolved.": a call that was resolved is not
\* resolved again, so it runs once.
RunsOnce == twice = {}
=============================================================================
