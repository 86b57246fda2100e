------------------------------ MODULE ChatProofs ------------------------------
(***************************************************************************)
(* Proofs about a chat: the approval of tool calls, for any number of      *)
(* tabs, calls, completions, clicks, switches of the mode, stops and       *)
(* failures; the slots of sub-agents, for any number of delegations and    *)
(* any limits; the messages of the tree, for any number of tabs, messages, *)
(* requests and row writes that fail; and the results of sub-agents, for   *)
(* any number of sub-agents, processes and turns.                          *)
(***************************************************************************)
EXTENDS ChatParts, FiniteSetTheorems, SequenceTheorems, WellFoundedInduction, TLAPS

-----------------------------------------------------------------------------
(* The approval of tool calls *)

Reading == [at : {"read"}, call : Calls, action : {"approve", "reject"}]
Writing == [at : {"write"}, out : Output, mode : {"ask", "full"}]
Task == [pc : {"drain", "exec", "write", "reply", "stream", "run", "over"},
         mode : {"ask", "full"}, out : Output, todo : SUBSET Calls]

\* The requests and the completions, with the calls they were given.
Types ==
    /\ msg \in Output /\ mode \in {"ask", "full"} /\ calls \in Nat
    /\ req \in [Tabs -> {Idle} \cup Reading \cup Writing]
    /\ task \in [Tasks -> Task]

\* What RunsOnlyApproved rests on: every approval mark, in the stored reply and in
\* every copy that will be written over it, and every call about to be executed,
\* is of a call the user allowed.
MarksAreAllowed ==
    /\ ran \subseteq allowed /\ msg.ok \subseteq allowed
    /\ \A t \in Tabs : /\ req[t].at = "read" /\ req[t].action = "approve" => req[t].call \in allowed
                       /\ req[t].at = "write" => req[t].out.ok \subseteq allowed
    /\ \A k \in Tasks : /\ task[k].out.ok \subseteq allowed /\ task[k].todo \subseteq allowed
                        /\ task[k].pc \in {"exec", "run"} => task[k].todo # {}

ApprovalInv == Types /\ MarksAreAllowed

-----------------------------------------------------------------------------
\* A set of numbers that is not empty has a least one.
LEMMA MinIn ==
  ASSUME NEW S \in SUBSET Nat, S # {}
  PROVE  Min(S) \in S
  <1>1. PICK x \in S : \A y \in S : <<y, x>> \notin OpToRel(<, Nat)
    BY NatLessThanWellFounded, WFMin
  <1>2. \A y \in S : ~ (y < x)
    BY <1>1 DEF OpToRel
  <1>3. \A y \in S : x <= y
    BY <1>2
  <1> QED
    BY <1>3 DEF Min

\* Calls are numbered, so a set of them has a least one.
LEMMA CallsAreNat == Calls \subseteq Nat
  BY ApprovalAssumption DEF Calls

\* A pause asks about a call and approves none.
LEMMA PauseMarks ==
  ASSUME NEW o \in Output, NEW m
  PROVE  /\ Pause(o) \in Output /\ Pause(o).ok = o.ok
         /\ PauseIfAsked(o, m) \in Output /\ PauseIfAsked(o, m).ok = o.ok
  <1>1. Pause(o) \in Output /\ Pause(o).ok = o.ok
    BY DEF Pause, Output
  <1> QED
    BY <1>1 DEF PauseIfAsked

\* A resolution marks only the call it is about.
LEMMA ResolvedMarks ==
  ASSUME NEW o \in Output, NEW c \in Calls, NEW a \in {"approve", "reject"}
  PROVE  /\ Resolved(o, c, a) \in Output
         /\ Resolved(o, c, a).ok = IF a = "approve" THEN o.ok \cup {c} ELSE o.ok
  BY DEF Resolved, Output

\* The blank reply and the fresh and the finished completion carry no mark.
LEMMA Constants == NoOutput \in Output /\ NoOutput.ok = {} /\ Over \in Task
                   /\ Over.out = NoOutput /\ Over.todo = {} /\ Over.pc = "over"
                   /\ \A m \in {"ask", "full"} : /\ Started(m) \in Task /\ Started(m).out = NoOutput
                                                 /\ Started(m).todo = {} /\ Started(m).pc = "drain"
  BY DEF NoOutput, Output, Over, Task, Started

\* Nothing is marked at the start.
LEMMA InitInv == Init => ApprovalInv
  <1> SUFFICES ASSUME Init PROVE ApprovalInv
    OBVIOUS
  <1>1. Types
    BY Constants DEF Init, Types
  <1>2. MarksAreAllowed
    BY Constants DEF Init, MarksAreAllowed, Idle
  <1> QED
    BY <1>1, <1>2 DEF ApprovalInv

-----------------------------------------------------------------------------
\* The tabs: a mark is made only for a call that was allowed when it was pressed.
LEMMA ClickInv ==
  ASSUME ApprovalInv, NEW t \in Tabs, NEW c \in Calls, NEW a \in {"approve", "reject"}, Click(t, c, a)
  PROVE  ApprovalInv'
  <1>1. Types'
    BY DEF ApprovalInv, Types, Click, Request, Reading
  <1>2. MarksAreAllowed'
    BY DEF ApprovalInv, Types, MarksAreAllowed, Click, Request
  <1> QED
    BY <1>1, <1>2 DEF ApprovalInv

\* Switching to full permissions approves the first call that waits, and so allows it.
LEMMA SwitchInv ==
  ASSUME ApprovalInv, NEW t \in Tabs, NEW m \in {"ask", "full"}, SwitchMode(t, m)
  PROVE  ApprovalInv'
  <1>1. CASE m = "full" /\ Pending(msg) # {}
    <2> DEFINE c == Min(Pending(msg))
    <2>1. c \in Calls
      <3>1. Pending(msg) \subseteq Calls
        BY DEF Pending, Unresolved
      <3> QED
        BY <1>1, <3>1, CallsAreNat, MinIn
    <2>2. /\ req' = [req EXCEPT ![t] = [at |-> "read", call |-> c, action |-> "approve"]]
          /\ allowed' = allowed \cup {c} /\ mode' = m
          /\ UNCHANGED <<msg, task, calls, ran>>
      BY <1>1 DEF SwitchMode, Request
    <2> HIDE DEF c
    <2>3. Types'
      BY <2>1, <2>2 DEF ApprovalInv, Types, Reading
    <2>4. MarksAreAllowed'
      BY <2>1, <2>2 DEF ApprovalInv, Types, MarksAreAllowed
    <2> QED
      BY <2>3, <2>4 DEF ApprovalInv
  <1>2. CASE ~(m = "full" /\ Pending(msg) # {})
    BY <1>2 DEF SwitchMode, ApprovalInv, Types, MarksAreAllowed
  <1> QED
    BY <1>1, <1>2

\* A click copies the reply and marks at most the call it approves.
LEMMA ResolveReadInv ==
  ASSUME ApprovalInv, NEW t \in Tabs, ResolveRead(t)
  PROVE  ApprovalInv'
  <1> DEFINE r == req[t]
             o == Resolved(msg, r.call, r.action)
             w == [at |-> "write", out |-> o, mode |-> mode]
  <1>1. r \in Reading
    BY DEF ResolveRead, ApprovalInv, Types, Idle, Writing
  <1>2. o \in Output /\ o.ok \subseteq allowed
    <2>1. /\ o \in Output
          /\ o.ok = IF r.action = "approve" THEN msg.ok \cup {r.call} ELSE msg.ok
      <3>1. msg \in Output
        BY DEF ApprovalInv, Types
      <3>2. r.call \in Calls /\ r.action \in {"approve", "reject"}
        BY <1>1 DEF Reading
      <3> HIDE DEF r
      <3> QED
        BY <3>1, <3>2, ResolvedMarks
    <2>2. msg.ok \subseteq allowed /\ (r.action = "approve" => r.call \in allowed)
      BY <1>1 DEF ApprovalInv, MarksAreAllowed, Reading
    <2> QED
      BY <2>1, <2>2
  <1>3. /\ UNCHANGED <<msg, mode, calls, task, ran, allowed>>
        /\ \/ req' = [req EXCEPT ![t] = w]
           \/ req' = [req EXCEPT ![t] = Idle]
    BY DEF ResolveRead
  <1> HIDE DEF o
  <1>4. Types'
    BY <1>2, <1>3 DEF ApprovalInv, Types, Writing
  <1>5. MarksAreAllowed'
    BY <1>2, <1>3 DEF ApprovalInv, Types, MarksAreAllowed, Idle
  <1> QED
    BY <1>4, <1>5 DEF ApprovalInv

\* A click writes back a copy whose marks are allowed.
LEMMA ResolveWriteInv ==
  ASSUME ApprovalInv, NEW t \in Tabs, ResolveWrite(t)
  PROVE  ApprovalInv'
  <1> DEFINE o == [req[t].out EXCEPT !.done = FALSE]
             k == Min({j \in Tasks : task[j] = Over})
  <1>1. req[t] \in Writing /\ req[t].out.ok \subseteq allowed
    BY DEF ResolveWrite, ApprovalInv, Types, MarksAreAllowed, Idle, Reading
  <1>2. o \in Output /\ o.ok \subseteq allowed
    BY <1>1 DEF Writing, Output
  <1>3. /\ msg' = o /\ task' = [task EXCEPT ![k] = Started(req[t].mode)]
        /\ req' = [req EXCEPT ![t] = Idle] /\ UNCHANGED <<mode, calls, ran, allowed>>
    BY DEF ResolveWrite
  <1>4. /\ Started(req[t].mode) \in Task /\ Started(req[t].mode).out.ok = {}
        /\ Started(req[t].mode).todo = {} /\ Started(req[t].mode).pc = "drain"
    BY <1>1, Constants DEF Writing
  <1> HIDE DEF o, k
  <1>5. Types'
    BY <1>2, <1>3, <1>4 DEF ApprovalInv, Types
  <1>6. MarksAreAllowed'
    BY <1>2, <1>3, <1>4 DEF ApprovalInv, Types, MarksAreAllowed, Idle
  <1> QED
    BY <1>5, <1>6 DEF ApprovalInv

-----------------------------------------------------------------------------
\* The completions: each step gives one completion a new state w, and what it
\* leaves in the message, in w and among the executed calls is allowed.
Given(w, als) == /\ w \in Task /\ w.out.ok \subseteq als /\ w.todo \subseteq als
                 /\ w.pc \in {"exec", "run"} => w.todo # {}

\* A completion keeps the invariant if what it becomes and writes is allowed.
LEMMA CompletionStep ==
  ASSUME ApprovalInv, NEW k \in Tasks, NEW w,
         task' = [task EXCEPT ![k] = w], Given(w, allowed'),
         msg' \in Output, msg'.ok \subseteq allowed',
         ran' \subseteq allowed', allowed \subseteq allowed', calls' \in Nat,
         UNCHANGED <<mode, req>>
  PROVE  ApprovalInv'
  <1>1. Types'
    BY DEF ApprovalInv, Types, Given
  <1>2. MarksAreAllowed'
    <2>1. \A t \in Tabs :
            /\ req'[t].at = "read" /\ req'[t].action = "approve" => req'[t].call \in allowed'
            /\ req'[t].at = "write" => req'[t].out.ok \subseteq allowed'
      BY DEF ApprovalInv, MarksAreAllowed
    <2>2. \A j \in Tasks : Given(task'[j], allowed')
      BY DEF ApprovalInv, Types, MarksAreAllowed, Given
    <2> QED
      BY <2>1, <2>2 DEF MarksAreAllowed, Given
  <1> QED
    BY <1>1, <1>2 DEF ApprovalInv

\* What a completion has in hand before its step.
LEMMA InHand ==
  ASSUME ApprovalInv, NEW k \in Tasks
  PROVE  /\ Given(task[k], allowed) /\ Given(Over, allowed)
         /\ msg \in Output /\ msg.ok \subseteq allowed
         /\ ran \subseteq allowed /\ calls \in Nat
         /\ task[k].todo # {} => Min(task[k].todo) \in task[k].todo
  <1>1. Given(task[k], allowed)
    BY DEF ApprovalInv, Types, MarksAreAllowed, Given
  <1>2. Given(Over, allowed)
    BY Constants DEF Given
  <1>3. task[k].todo # {} => Min(task[k].todo) \in task[k].todo
    BY <1>1, CallsAreNat, MinIn DEF Given, Task
  <1> QED
    BY <1>1, <1>2, <1>3 DEF ApprovalInv, Types, MarksAreAllowed

\* The drain takes over marked calls only.
LEMMA DrainInv ==
  ASSUME ApprovalInv, NEW k \in Tasks, Drain(k)
  PROVE  ApprovalInv'
  <1>1. CASE Approved(msg) # {}
    <2> DEFINE w == [task[k] EXCEPT !.pc = "exec", !.out = msg, !.todo = Approved(msg)]
    <2>1. Approved(msg) \subseteq Calls /\ Approved(msg) \subseteq msg.ok
      BY DEF Approved, Unresolved
    <2>2. Given(w, allowed)
      BY <1>1, <2>1, InHand DEF Given, Task
    <2>3. task' = [task EXCEPT ![k] = w] /\ UNCHANGED <<msg, mode, req, calls, ran, allowed>>
      BY <1>1 DEF Drain, ApprovalInv, Types
    <2> HIDE DEF w
    <2> QED
      BY <2>2, <2>3, InHand, CompletionStep
  <1>2. CASE Approved(msg) = {}
    <2> DEFINE w == IF task[k].mode = "ask" /\ Waiting(msg) # {} THEN Over
                    ELSE [task[k] EXCEPT !.pc = "reply"]
    <2>1. Given(w, allowed)
      BY InHand DEF Given, Task
    <2>2. /\ task' = [task EXCEPT ![k] = w] /\ msg' = PauseIfAsked(msg, task[k].mode)
          /\ UNCHANGED <<mode, req, calls, ran, allowed>>
      BY <1>2 DEF Drain, ApprovalInv, Types
    <2>3. msg' \in Output /\ msg'.ok \subseteq allowed
      BY <2>2, InHand, PauseMarks
    <2> HIDE DEF w
    <2> QED
      BY <2>1, <2>2, <2>3, InHand, CompletionStep
  <1> QED
    BY <1>1, <1>2

\* The drain executes one of the calls it took.
LEMMA ExecuteInv ==
  ASSUME ApprovalInv, NEW k \in Tasks, Execute(k)
  PROVE  ApprovalInv'
  <1> DEFINE c == Min(task[k].todo)
             left == task[k].todo \ {c}
             out == [task[k].out EXCEPT !.st[c] = "completed", !.res = task[k].out.res \cup {c}]
             w == [task[k] EXCEPT !.out = out, !.todo = left, !.pc = IF left = {} THEN "write" ELSE "exec"]
  <1>1. c \in task[k].todo
    BY InHand DEF Execute, At, Given
  <1>2. /\ ran' = ran \cup {c} /\ task' = [task EXCEPT ![k] = w]
        /\ UNCHANGED <<msg, mode, req, calls, allowed>>
    BY DEF Execute, ApprovalInv, Types
  <1> HIDE DEF c
  <1>3. Given(w, allowed)
    <2>1. out \in Output /\ out.ok = task[k].out.ok
      <3>1. task[k].out \in Output /\ c \in Calls
        BY <1>1, InHand DEF Given, Task
      <3> QED
        BY <3>1 DEF Output
    <2> HIDE DEF out
    <2> QED
      BY <2>1, InHand DEF Given, Task
  <1>4. ran' \subseteq allowed
    BY <1>1, <1>2, InHand DEF Given
  <1> HIDE DEF w
  <1> QED
    BY <1>2, <1>3, <1>4, InHand, CompletionStep

\* Writing the results back brings no new mark.
LEMMA WriteOutputInv ==
  ASSUME ApprovalInv, NEW k \in Tasks, WriteOutput(k)
  PROVE  ApprovalInv'
  <1> DEFINE o == PauseIfAsked(task[k].out, task[k].mode)
             w == IF Open(o) # {} THEN Over ELSE [task[k] EXCEPT !.pc = "reply", !.out = NoOutput]
  <1>1. o \in Output /\ o.ok = task[k].out.ok
    BY InHand, PauseMarks DEF Given, Task
  <1>2. /\ msg' = [o EXCEPT !.done = FALSE] /\ task' = [task EXCEPT ![k] = w]
        /\ UNCHANGED <<mode, req, calls, ran, allowed>>
    BY DEF WriteOutput, ApprovalInv, Types
  <1> HIDE DEF o
  <1>3. Given(w, allowed)
    BY InHand, Constants DEF Given, Task
  <1>4. msg' \in Output /\ msg'.ok \subseteq allowed
    BY <1>1, <1>2, InHand DEF Given, Output
  <1> HIDE DEF w
  <1> QED
    BY <1>2, <1>3, <1>4, InHand, CompletionStep

\* A completion that goes on to the model copies the reply with its marks.
LEMMA ReplyInv ==
  ASSUME ApprovalInv, NEW k \in Tasks, Reply(k)
  PROVE  ApprovalInv'
  <1> DEFINE w == [task[k] EXCEPT !.pc = "stream", !.out = msg]
  <1>1. task' = [task EXCEPT ![k] = w] /\ UNCHANGED <<msg, mode, req, calls, ran, allowed>>
    BY DEF Reply, ApprovalInv, Types
  <1>2. Given(w, allowed)
    BY InHand DEF Given, Task
  <1> HIDE DEF w
  <1> QED
    BY <1>1, <1>2, InHand, CompletionStep

\* A final answer writes the completion's copy, which marks nothing more.
LEMMA AnswerInv ==
  ASSUME ApprovalInv, NEW k \in Tasks, Answer(k)
  PROVE  ApprovalInv'
  <1>1. /\ msg' = [task[k].out EXCEPT !.done = TRUE] /\ task' = [task EXCEPT ![k] = Over]
        /\ UNCHANGED <<mode, req, calls, ran, allowed>>
    BY DEF Answer
  <1>2. msg' \in Output /\ msg'.ok \subseteq allowed
    BY <1>1, InHand DEF Given, Task, Output
  <1> QED
    BY <1>1, <1>2, InHand, CompletionStep

\* A failure ends the completion.
LEMMA FailInv ==
  ASSUME ApprovalInv, NEW k \in Tasks, Fail(k)
  PROVE  ApprovalInv'
  <1>1. task' = [task EXCEPT ![k] = Over] /\ UNCHANGED <<msg, mode, req, calls, ran, allowed>>
    BY DEF Fail
  <1> QED
    BY <1>1, InHand, CompletionStep

\* A batch made in full mode is allowed as it is made.
LEMMA CallToolsInv ==
  ASSUME ApprovalInv, NEW k \in Tasks, NEW n \in 1..2, CallTools(k, n)
  PROVE  ApprovalInv'
  <1> DEFINE made == (calls + 1)..(calls + n)
             out == [task[k].out EXCEPT !.st = [c \in Calls |-> IF c \in made THEN "in_progress" ELSE @[c]]]
             w == [task[k] EXCEPT !.pc = "run", !.out = out, !.todo = made]
  <1>1. calls \in Nat /\ calls' = calls + n /\ calls + n <= MaxCalls
    BY InHand DEF CallTools
  <1>2. made \subseteq Calls /\ made # {}
    <2>1. calls + 1 \in made
      BY <1>1
    <2> QED
      BY <1>1, <2>1, ApprovalAssumption DEF Calls
  <1>3. out \in Output /\ out.ok = task[k].out.ok
    BY InHand DEF Given, Task, Output
  <1>4. CASE task[k].mode = "ask"
    <2>1. /\ msg' = Pause(out) /\ task' = [task EXCEPT ![k] = Over]
          /\ UNCHANGED <<mode, req, ran, allowed>>
      BY <1>4 DEF CallTools
    <2> HIDE DEF out
    <2>2. msg' \in Output /\ msg'.ok \subseteq allowed
      BY <1>3, <2>1, InHand, PauseMarks DEF Given
    <2>3. calls' \in Nat
      BY <1>1
    <2> HIDE DEF made
    <2> QED
      BY <2>1, <2>2, <2>3, InHand, CompletionStep
  <1>5. CASE task[k].mode # "ask"
    <2>1. /\ task' = [task EXCEPT ![k] = w] /\ allowed' = allowed \cup made
          /\ UNCHANGED <<msg, mode, req, ran>>
      BY <1>5 DEF CallTools, ApprovalInv, Types
    <2> HIDE DEF out, made
    <2>2. Given(w, allowed')
      BY <1>2, <1>3, <2>1, InHand DEF Given, Task
    <2> HIDE DEF w
    <2>3. /\ ran' \subseteq allowed' /\ msg' \in Output /\ msg'.ok \subseteq allowed'
          /\ allowed \subseteq allowed' /\ calls' \in Nat
      BY <1>1, <2>1, InHand
    <2> QED
      BY <2>1, <2>2, <2>3, CompletionStep
  <1> QED
    BY <1>4, <1>5

\* The tool loop runs the first of the calls it allowed.
LEMMA RunInv ==
  ASSUME ApprovalInv, NEW k \in Tasks, Run(k)
  PROVE  ApprovalInv'
  <1> DEFINE c == Min(task[k].todo)
             o == task[k].out
             made == {b \in Calls : o.st[b] = "in_progress"}
             left == task[k].todo \ {c}
             out == [o EXCEPT !.res = o.res \cup made,
                              !.st = [b \in Calls |-> IF b \in made THEN "completed" ELSE o.st[b]]]
             w == IF left # {} THEN [task[k] EXCEPT !.todo = left]
                  ELSE [task[k] EXCEPT !.pc = "stream", !.todo = {}, !.out = out]
  <1>1. c \in task[k].todo
    BY InHand DEF Run, At, Given
  <1>2. /\ ran' = ran \cup {c} /\ task' = [task EXCEPT ![k] = w]
        /\ UNCHANGED <<msg, mode, req, calls, allowed>>
    BY DEF Run, ApprovalInv, Types
  <1>3. out \in Output /\ out.ok = o.ok
    BY InHand DEF Given, Task, Output
  <1> HIDE DEF c, out
  <1>4. Given(w, allowed)
    <2>1. CASE left # {}
      BY <2>1, InHand DEF Given, Task
    <2>2. CASE left = {}
      BY <2>2, <1>3, InHand DEF Given, Task
    <2> QED
      BY <2>1, <2>2
  <1>5. ran' \subseteq allowed
    BY <1>1, <1>2, InHand DEF Given
  <1> HIDE DEF w
  <1> QED
    BY <1>2, <1>4, <1>5, InHand, CompletionStep

\* Stop writes back the output of a completion, or takes marks away.
LEMMA StopInv ==
  ASSUME ApprovalInv, Stop
  PROVE  ApprovalInv'
  <1>1. task' = [k \in Tasks |-> Over] /\ UNCHANGED <<mode, req, calls, ran, allowed>>
    BY DEF Stop
  <1>2. msg' \in Output /\ msg'.ok \subseteq allowed
    <2> DEFINE waits == {c \in Calls : msg.st[c] \in {"pending", "queued"}}
               stopped == [msg EXCEPT !.done = TRUE, !.ok = @ \ waits,
                             !.st = [c \in Calls |-> IF c \in waits THEN "rejected" ELSE @[c]]]
    <2>1. \/ \E k \in Tasks : msg' = [task[k].out EXCEPT !.done = TRUE]
          \/ msg' = msg
          \/ msg' = stopped
      BY DEF Stop
    <2>2. msg \in Output /\ msg.ok \subseteq allowed
      BY DEF ApprovalInv, Types, MarksAreAllowed
    <2>3. stopped \in Output /\ stopped.ok \subseteq allowed
      BY <2>2 DEF Output
    <2>4. \A k \in Tasks : LET s == [task[k].out EXCEPT !.done = TRUE]
                           IN s \in Output /\ s.ok \subseteq allowed
      BY InHand DEF Given, Task, Output
    <2> HIDE DEF stopped
    <2> QED
      BY <2>1, <2>2, <2>3, <2>4
  <1>3. Types'
    BY <1>1, <1>2, Constants DEF ApprovalInv, Types
  <1>4. MarksAreAllowed'
    BY <1>1, <1>2, Constants DEF ApprovalInv, MarksAreAllowed
  <1> QED
    BY <1>3, <1>4 DEF ApprovalInv

-----------------------------------------------------------------------------
\* Every step keeps the marks allowed.
LEMMA StepInv == ApprovalInv /\ [Next]_vars => ApprovalInv'
  <1> SUFFICES ASSUME ApprovalInv, [Next]_vars PROVE ApprovalInv'
    OBVIOUS
  <1>1. ASSUME NEW t \in Tabs, NEW c \in Calls, NEW a \in {"approve", "reject"}, Click(t, c, a)
        PROVE  ApprovalInv'
    BY <1>1, ClickInv
  <1>2. ASSUME NEW t \in Tabs, NEW m \in {"ask", "full"}, SwitchMode(t, m)
        PROVE  ApprovalInv'
    BY <1>2, SwitchInv
  <1>3. ASSUME NEW t \in Tabs, ResolveRead(t) \/ ResolveWrite(t)
        PROVE  ApprovalInv'
    BY <1>3, ResolveReadInv, ResolveWriteInv
  <1>4. ASSUME NEW k \in Tasks, Drain(k) \/ Execute(k) \/ WriteOutput(k) \/ Reply(k)
        PROVE  ApprovalInv'
    BY <1>4, DrainInv, ExecuteInv, WriteOutputInv, ReplyInv
  <1>5. ASSUME NEW k \in Tasks, Answer(k) \/ Run(k) \/ Fail(k)
        PROVE  ApprovalInv'
    BY <1>5, AnswerInv, RunInv, FailInv
  <1>6. ASSUME NEW k \in Tasks, NEW n \in 1..2, CallTools(k, n)
        PROVE  ApprovalInv'
    BY <1>6, CallToolsInv
  <1>7. CASE Stop
    BY <1>7, StopInv
  <1>8. CASE UNCHANGED vars
    BY <1>8 DEF vars, ApprovalInv, Types, MarksAreAllowed
  <1> QED
    BY <1>1, <1>2, <1>3, <1>4, <1>5, <1>6, <1>7, <1>8 DEF Next

\* Of a reply with any number of calls, resolved from any number of tabs while any
\* number of completions write stale outputs over each other, only calls that the
\* user approved, or that were made with full permissions, are ever executed.
THEOREM OnlyApprovedRun == Spec => []RunsOnlyApproved
  <1>1. ApprovalInv => RunsOnlyApproved
    BY DEF ApprovalInv, MarksAreAllowed, RunsOnlyApproved
  <1> QED
    BY <1>1, InitInv, StepInv, PTL DEF Spec
-----------------------------------------------------------------------------
(* A reply is not left unfinished *)

\* The reply was not stopped and did not fail, and the mode is the one it began with.
Steady == stops = 0 /\ faults = 0 /\ switches = 0

\* An output of calls that were made, and one of a reply with full permissions.
Known(o) == \A c \in Calls : c \in o.res \/ o.st[c] # "none" => c <= calls
Unasked(o) == \A c \in Calls : o.st[c] \notin {"pending", "queued"}

\* All completions and requests have the mode of the chat.
OneMode ==
    /\ \A k \in Tasks : task[k].pc = "over" \/ task[k].mode = mode
    /\ \A t \in Tabs : req[t].at = "write" => req[t].mode = mode

\* With full permissions nothing is ever asked.
NothingAsked ==
    mode = "full" => /\ Unasked(msg) /\ \A k \in Tasks : Unasked(task[k].out)
                     /\ \A t \in Tabs : req[t].at = "idle"

\* A result and a status are of a call that was made.
CallsAreKnown ==
    /\ Known(msg)
    /\ \A k \in Tasks : Known(task[k].out) /\ \A c \in task[k].todo : c <= calls
    /\ \A t \in Tabs : req[t].at = "write" => Known(req[t].out)

\* A completion that runs approved calls has all the approved ones ahead of it, and
\* none when it writes.
Drains ==
    \A k \in Tasks : /\ task[k].pc \in {"exec", "write"} => Approved(task[k].out) \subseteq task[k].todo
                     /\ task[k].pc = "write" => task[k].todo = {}
                     /\ task[k].pc = "over" => task[k] = Over

\* Without a completion, the reply is finished or asks.
Rests == (\A k \in Tasks : task[k].pc = "over") => msg.done \/ Pending(msg) # {}

UnstuckInv == OneMode /\ NothingAsked /\ CallsAreKnown /\ Drains /\ Rests

-----------------------------------------------------------------------------
\* Setting the mark of the end changes nothing else.
LEMMA DoneFacts ==
  ASSUME NEW o \in Output, NEW b \in BOOLEAN
  PROVE  LET x == [o EXCEPT !.done = b]
         IN /\ x.st = o.st /\ x.ok = o.ok /\ x.res = o.res /\ x.done = b
            /\ Pending(x) = Pending(o)
            /\ Known(o) => Known(x)
            /\ Unasked(o) => Unasked(x)
  <1> DEFINE x == [o EXCEPT !.done = b]
  <1>1. x.st = o.st /\ x.ok = o.ok /\ x.res = o.res /\ x.done = b
    BY DEF Output
  <1> HIDE DEF x
  <1>2. Pending(x) = Pending(o) /\ (Known(o) => Known(x)) /\ (Unasked(o) => Unasked(x))
    BY <1>1 DEF Pending, Unresolved, Known, Unasked
  <1> QED
    BY <1>1, <1>2 DEF x

\* A pause with a live call asks about one, and makes no call.
LEMMA PauseAsks ==
  ASSUME NEW o \in Output
  PROVE  /\ Known(o) => Known(Pause(o))
         /\ (\E c \in Unresolved(o) : o.st[c] # "rejected") => Pending(Pause(o)) # {}
  <1> DEFINE live == {c \in Unresolved(o) : o.st[c] # "rejected"}
             st == [c \in Calls |-> IF c \in live /\ c = Min(live) THEN "pending"
                                    ELSE IF c \in live /\ o.st[c] = "in_progress" THEN "queued"
                                    ELSE o.st[c]]
  <1>1. Pause(o).res = o.res /\ Pause(o).st = st
    BY DEF Pause, Output
  <1>2. live \in SUBSET Nat /\ live \subseteq Calls
    BY CallsAreNat DEF Unresolved
  <1>3. \A c \in Calls : o.st[c] = "none" => st[c] = "none"
    <2>1. \A c \in Calls : o.st[c] = "none" => c \notin live
      BY DEF Unresolved
    <2> QED
      BY <2>1
  <1>4. ASSUME live # {} PROVE Pending(Pause(o)) # {}
    <2>1. Min(live) \in live
      BY <1>2, <1>4, MinIn
    <2>2. Min(live) \in Calls /\ st[Min(live)] = "pending" /\ Min(live) \notin o.res
      BY <1>2, <2>1 DEF Unresolved
    <2> HIDE DEF live, st
    <2>3. Min(live) \in Pending(Pause(o))
      BY <1>1, <2>2 DEF Pending, Unresolved
    <2> QED
      BY <2>3
  <1>5. Known(o) => Known(Pause(o))
    BY <1>1, <1>3 DEF Known
  <1> QED
    BY <1>4, <1>5

\* What a completion is given, and that it is not the last one without an end.
Unstuck(w, m) ==
  /\ w.pc = "over" => w = Over /\ (m.done \/ Pending(m) # {})
  /\ w.pc # "over" => w.mode = mode
  /\ mode = "full" => Unasked(w.out) /\ Unasked(m)
  /\ w.pc \in {"exec", "write"} => Approved(w.out) \subseteq w.todo
  /\ w.pc = "write" => w.todo = {}

\* A completion keeps the invariant if what it becomes and writes is not stuck.
LEMMA UnstuckStep ==
  ASSUME ApprovalInv, UnstuckInv, NEW k \in Tasks, NEW w,
         task' = [task EXCEPT ![k] = w], Unstuck(w, msg'), UNCHANGED <<mode, req>>,
         calls' \in Nat, calls <= calls', Known(msg)', \A c \in Calls : c \in w.out.res \/ w.out.st[c] # "none" => c <= calls',
         \A c \in w.todo : c <= calls'
  PROVE  UnstuckInv'
  <1>1. \A j \in Tasks : j # k => task'[j] = task[j]
    BY DEF ApprovalInv, Types
  <1>2. task'[k] = w
    BY DEF ApprovalInv, Types
  <1>3. OneMode'
    BY <1>1, <1>2 DEF UnstuckInv, OneMode, Unstuck
  <1>4. NothingAsked'
    BY <1>1, <1>2 DEF UnstuckInv, NothingAsked, Unstuck, Unasked
  <1>5. calls \in Nat /\ Calls \subseteq Nat
    BY CallsAreNat DEF ApprovalInv, Types
  <1>6. CallsAreKnown'
    <2>1. \A c \in Calls : c <= calls => c <= calls'
      BY <1>5
    <2>2. \A j \in Tasks : task[j].todo \subseteq Calls
      BY DEF ApprovalInv, Types, Task
    <2>3. ASSUME NEW j \in Tasks
          PROVE  /\ \A c \in Calls : c \in task'[j].out.res \/ task'[j].out.st[c] # "none" => c <= calls'
                 /\ \A c \in task'[j].todo : c <= calls'
      BY <1>1, <1>2, <2>1, <2>2 DEF UnstuckInv, CallsAreKnown, Known
    <2>4. \A t \in Tabs : req'[t].at = "write" =>
            \A c \in Calls : c \in req'[t].out.res \/ req'[t].out.st[c] # "none" => c <= calls'
      BY <2>1 DEF UnstuckInv, CallsAreKnown, Known
    <2> QED
      BY <2>3, <2>4 DEF CallsAreKnown, Known
  <1>7. Drains'
    BY <1>1, <1>2 DEF UnstuckInv, Drains, Unstuck, Approved, Unresolved
  <1>8. Rests'
    BY <1>2 DEF Rests, Unstuck, Pending, Unresolved
  <1> QED
    BY <1>3, <1>4, <1>6, <1>7, <1>8 DEF UnstuckInv

\* What the state before gives each completion.
LEMMA UnstuckInHand ==
  ASSUME ApprovalInv, UnstuckInv, NEW k \in Tasks
  PROVE  /\ task[k] \in Task /\ task[k].out \in Output /\ msg \in Output /\ calls \in Nat /\ Calls \subseteq Nat
         /\ task[k].todo \subseteq Calls /\ (task[k].pc \in {"exec", "run"} => task[k].todo # {})
         /\ Known(msg) /\ Known(task[k].out) /\ \A c \in task[k].todo : c <= calls
         /\ task[k].pc # "over" => task[k].mode = mode
         /\ mode = "full" => Unasked(msg) /\ Unasked(task[k].out)
         /\ mode \in {"ask", "full"}
         /\ Unasked(NoOutput) /\ Known(NoOutput) /\ Over.pc = "over" /\ Over.out = NoOutput /\ Over.todo = {}
         /\ NoOutput \in Output
  <1>1. Unasked(NoOutput) /\ Known(NoOutput)
    BY DEF Unasked, Known, NoOutput
  <1> QED
    BY <1>1, CallsAreNat, Constants DEF ApprovalInv, Types, Task, MarksAreAllowed, UnstuckInv, CallsAreKnown, OneMode, NothingAsked

\* The drain goes on, or leaves a pause the user can resolve.
LEMMA DrainUnstuck ==
  ASSUME ApprovalInv, UnstuckInv, NEW k \in Tasks, Drain(k)
  PROVE  UnstuckInv'
  <1>1. CASE Approved(msg) # {}
    <2> DEFINE w == [task[k] EXCEPT !.pc = "exec", !.out = msg, !.todo = Approved(msg)]
    <2>1. task' = [task EXCEPT ![k] = w] /\ UNCHANGED <<msg, mode, req, calls>>
      BY <1>1 DEF Drain, ApprovalInv, Types
    <2>2. w.pc = "exec" /\ w.mode = task[k].mode /\ w.out = msg /\ w.todo = Approved(msg)
      BY UnstuckInHand DEF Task
    <2>3. \A c \in Approved(msg) : c <= calls
      BY UnstuckInHand DEF Approved, Unresolved, Known
    <2> HIDE DEF w
    <2>4. task[k].mode = mode
      BY UnstuckInHand DEF Drain, At
    <2>5. Unstuck(w, msg')
      BY <2>1, <2>2, <2>4, UnstuckInHand DEF Unstuck
    <2>6. Known(msg)' /\ calls' \in Nat /\ calls <= calls'
      BY <2>1, UnstuckInHand DEF Known
    <2>7. \A c \in Calls : c \in w.out.res \/ w.out.st[c] # "none" => c <= calls'
      BY <2>1, <2>2, UnstuckInHand DEF Known
    <2> QED
      BY <2>1, <2>2, <2>3, <2>5, <2>6, <2>7, UnstuckStep
  <1>2. CASE Approved(msg) = {}
    <2>1. /\ msg' = PauseIfAsked(msg, task[k].mode) /\ UNCHANGED <<mode, req, calls>>
          /\ task[k].mode = mode /\ task[k].pc = "drain"
      BY <1>2, UnstuckInHand DEF Drain, At
    <2>2. CASE task[k].mode = "ask" /\ Waiting(msg) # {}
      <3>1. task' = [task EXCEPT ![k] = Over] /\ msg' = Pause(msg)
        BY <1>2, <2>1, <2>2 DEF Drain, PauseIfAsked
      <3>2. \E c \in Unresolved(msg) : msg.st[c] # "rejected"
        BY <2>2 DEF Waiting
      <3>3. Pending(msg') # {} /\ Known(Pause(msg))
        BY <3>1, <3>2, PauseAsks, UnstuckInHand
      <3>4. Unstuck(Over, msg')
        BY <2>1, <2>2, <3>3, UnstuckInHand DEF Unstuck
      <3>5. Known(msg)' /\ calls' \in Nat /\ calls <= calls'
        BY <2>1, <3>1, <3>3, UnstuckInHand DEF Known
      <3>6. /\ \A c \in Calls : c \in Over.out.res \/ Over.out.st[c] # "none" => c <= calls'
            /\ \A c \in Over.todo : c <= calls'
        BY <2>1, UnstuckInHand DEF Known
      <3> QED
        BY <2>1, <3>1, <3>4, <3>5, <3>6, UnstuckStep
    <2>3. CASE ~(task[k].mode = "ask" /\ Waiting(msg) # {})
      <3> DEFINE w == [task[k] EXCEPT !.pc = "reply"]
      <3>1. task' = [task EXCEPT ![k] = w] /\ msg' = msg
        BY <1>2, <2>1, <2>3 DEF Drain, PauseIfAsked, ApprovalInv, Types
      <3>2. w.pc = "reply" /\ w.mode = task[k].mode /\ w.out = task[k].out /\ w.todo = task[k].todo
        BY UnstuckInHand DEF Task
      <3> HIDE DEF w
      <3>3. Unstuck(w, msg')
        BY <2>1, <3>1, <3>2, UnstuckInHand DEF Unstuck
      <3>4. Known(msg)' /\ calls' \in Nat /\ calls <= calls'
        BY <2>1, <3>1, UnstuckInHand DEF Known
      <3>5. /\ \A c \in Calls : c \in w.out.res \/ w.out.st[c] # "none" => c <= calls'
            /\ \A c \in w.todo : c <= calls'
        BY <2>1, <3>2, UnstuckInHand DEF Known
      <3> QED
        BY <2>1, <3>1, <3>3, <3>4, <3>5, UnstuckStep
    <2> QED
      BY <2>2, <2>3
  <1> QED
    BY <1>1, <1>2

\* Executing a call leaves a smaller rest to the same completion.
LEMMA ExecuteUnstuck ==
  ASSUME ApprovalInv, UnstuckInv, NEW k \in Tasks, Execute(k)
  PROVE  UnstuckInv'
  <1> DEFINE c == Min(task[k].todo)
             o == task[k].out
             left == task[k].todo \ {c}
             out == [o EXCEPT !.st[c] = "completed", !.res = o.res \cup {c}]
             w == [task[k] EXCEPT !.out = out, !.todo = left, !.pc = IF left = {} THEN "write" ELSE "exec"]
  <1>1. c \in task[k].todo /\ c \in Calls /\ c <= calls
    BY UnstuckInHand, InHand DEF Execute, At
  <1>2. task' = [task EXCEPT ![k] = w] /\ UNCHANGED <<msg, mode, req, calls>>
    BY DEF Execute, ApprovalInv, Types
  <1> HIDE DEF c
  <1>3. out.ok = o.ok /\ out.res = o.res \cup {c} /\ \A b \in Calls : out.st[b] = IF b = c THEN "completed" ELSE o.st[b]
    BY <1>1, UnstuckInHand DEF Output
  <1>4. /\ w.pc \in {"write", "exec"} /\ (w.pc = "write" => w.todo = {}) /\ w.mode = task[k].mode
        /\ w.out = out /\ w.todo = left
    BY UnstuckInHand DEF Task
  <1> HIDE DEF out, w
  <1>5. task[k].mode = mode /\ Approved(o) \subseteq task[k].todo
    BY UnstuckInHand DEF Execute, At, UnstuckInv, Drains
  <1>6. Approved(out) \subseteq left
    BY <1>3, <1>5 DEF Approved, Unresolved
  <1>7. mode = "full" => Unasked(out)
    BY <1>3, UnstuckInHand DEF Unasked
  <1>8. Unstuck(w, msg')
    BY <1>2, <1>4, <1>5, <1>6, <1>7, UnstuckInHand DEF Unstuck
  <1>9. Known(msg)' /\ calls' \in Nat /\ calls <= calls'
    BY <1>2, UnstuckInHand DEF Known
  <1>10. \A b \in Calls : b \in w.out.res \/ w.out.st[b] # "none" => b <= calls'
    BY <1>1, <1>2, <1>3, <1>4, UnstuckInHand DEF Known
  <1>11. \A b \in w.todo : b <= calls'
    BY <1>2, <1>4, UnstuckInHand
  <1> QED
    BY <1>2, <1>8, <1>9, <1>10, <1>11, UnstuckStep

\* After its write a completion goes on, or the reply waits for the user.
LEMMA WriteOutputUnstuck ==
  ASSUME ApprovalInv, UnstuckInv, NEW k \in Tasks, WriteOutput(k)
  PROVE  UnstuckInv'
  <1> DEFINE out == task[k].out
             o == PauseIfAsked(out, task[k].mode)
             w == IF Open(o) # {} THEN Over ELSE [task[k] EXCEPT !.pc = "reply", !.out = NoOutput]
  <1>1. o \in Output
    BY UnstuckInHand, PauseMarks
  <1>2. /\ msg' = [o EXCEPT !.done = FALSE] /\ task' = [task EXCEPT ![k] = w]
        /\ UNCHANGED <<mode, req, calls>>
    BY DEF WriteOutput, ApprovalInv, Types
  <1>3. task[k].mode = mode /\ Approved(out) = {} /\ task[k].pc = "write" /\ task[k].todo = {}
    BY UnstuckInHand DEF WriteOutput, At, UnstuckInv, Drains
  <1>4. Known(o)
    BY UnstuckInHand, PauseAsks DEF PauseIfAsked
  <1>5. mode = "full" => o = out /\ Unasked(o)
    BY <1>3, UnstuckInHand DEF PauseIfAsked
  <1>6. Open(o) # {} => Pending(o) # {}
    <2>1. CASE task[k].mode = "ask" /\ Waiting(out) # {}
      <3>1. o = Pause(out)
        BY <2>1 DEF PauseIfAsked
      <3>2. \E c \in Unresolved(out) : out.st[c] # "rejected"
        BY <2>1 DEF Waiting
      <3> QED
        BY <3>1, <3>2, PauseAsks, UnstuckInHand
    <2>2. CASE task[k].mode = "ask" /\ Waiting(out) = {}
      <3>1. o = out
        BY <2>2 DEF PauseIfAsked
      <3> QED
        BY <1>3, <2>2, <3>1 DEF Open, Pending, Waiting, Approved
    <2>3. CASE task[k].mode = "full"
      BY <1>3, <1>5, <2>3 DEF Open, Unasked, Unresolved
    <2> QED
      BY <1>3, <2>1, <2>2, <2>3, UnstuckInHand
  <1>7. Pending(msg') = Pending(o) /\ Known(msg') /\ (mode = "full" => Unasked(msg'))
    <2> HIDE DEF o
    <2>1. LET x == [o EXCEPT !.done = FALSE]
          IN Pending(x) = Pending(o) /\ (Known(o) => Known(x)) /\ (Unasked(o) => Unasked(x))
      BY <1>1, DoneFacts
    <2> QED
      BY <1>2, <1>4, <1>5, <2>1
  <1> HIDE DEF o
  <1>8. Open(o) = {} => w.pc = "reply" /\ w.mode = task[k].mode /\ w.out = NoOutput /\ w.todo = {}
    BY <1>3, UnstuckInHand DEF Task
  <1>9. Open(o) # {} => w = Over
    OBVIOUS
  <1> HIDE DEF w
  <1>10. Unstuck(w, msg')
    BY <1>3, <1>6, <1>7, <1>8, <1>9, UnstuckInHand DEF Unstuck
  <1>11. Known(msg)' /\ calls' \in Nat /\ calls <= calls'
    BY <1>2, <1>7, UnstuckInHand DEF Known
  <1>12. /\ \A b \in Calls : b \in w.out.res \/ w.out.st[b] # "none" => b <= calls'
         /\ \A b \in w.todo : b <= calls'
    BY <1>2, <1>8, <1>9, UnstuckInHand DEF Known
  <1> QED
    BY <1>2, <1>10, <1>11, <1>12, UnstuckStep

\* A completion that goes on to the model is still at work.
LEMMA ReplyUnstuck ==
  ASSUME ApprovalInv, UnstuckInv, NEW k \in Tasks, Reply(k)
  PROVE  UnstuckInv'
  <1> DEFINE w == [task[k] EXCEPT !.pc = "stream", !.out = msg]
  <1>1. task' = [task EXCEPT ![k] = w] /\ UNCHANGED <<msg, mode, req, calls>>
    BY DEF Reply, ApprovalInv, Types
  <1>2. w.pc = "stream" /\ w.mode = task[k].mode /\ w.out = msg /\ w.todo = task[k].todo
    BY UnstuckInHand DEF Task
  <1> HIDE DEF w
  <1>3. Unstuck(w, msg')
    BY <1>1, <1>2, UnstuckInHand DEF Unstuck, Reply, At
  <1>4. Known(msg)' /\ calls' \in Nat /\ calls <= calls'
    BY <1>1, UnstuckInHand DEF Known
  <1>5. /\ \A b \in Calls : b \in w.out.res \/ w.out.st[b] # "none" => b <= calls'
        /\ \A b \in w.todo : b <= calls'
    BY <1>1, <1>2, UnstuckInHand DEF Known
  <1> QED
    BY <1>1, <1>3, <1>4, <1>5, UnstuckStep

\* A final answer marks the reply done.
LEMMA AnswerUnstuck ==
  ASSUME ApprovalInv, UnstuckInv, NEW k \in Tasks, Answer(k)
  PROVE  UnstuckInv'
  <1>1. /\ msg' = [task[k].out EXCEPT !.done = TRUE] /\ task' = [task EXCEPT ![k] = Over]
        /\ UNCHANGED <<mode, req, calls>>
    BY DEF Answer
  <1>2. msg'.done = TRUE /\ Known(msg') /\ (mode = "full" => Unasked(msg'))
    <2>1. LET x == [task[k].out EXCEPT !.done = TRUE]
          IN x.done = TRUE /\ (Known(task[k].out) => Known(x)) /\ (Unasked(task[k].out) => Unasked(x))
      BY UnstuckInHand, DoneFacts
    <2> QED
      BY <1>1, <2>1, UnstuckInHand
  <1>3. Unstuck(Over, msg')
    BY <1>2, UnstuckInHand DEF Unstuck
  <1>4. Known(msg)' /\ calls' \in Nat /\ calls <= calls'
    BY <1>1, <1>2, UnstuckInHand DEF Known
  <1>5. /\ \A b \in Calls : b \in Over.out.res \/ Over.out.st[b] # "none" => b <= calls'
        /\ \A b \in Over.todo : b <= calls'
    BY <1>1, UnstuckInHand DEF Known
  <1> QED
    BY <1>1, <1>3, <1>4, <1>5, UnstuckStep

\* New calls are run by the completion or leave a pause.
LEMMA CallToolsUnstuck ==
  ASSUME ApprovalInv, UnstuckInv, NEW k \in Tasks, NEW n \in 1..2, CallTools(k, n)
  PROVE  UnstuckInv'
  <1> DEFINE made == (calls + 1)..(calls + n)
             o == task[k].out
             out == [task[k].out EXCEPT !.st = [c \in Calls |-> IF c \in made THEN "in_progress" ELSE @[c]]]
             w == [task[k] EXCEPT !.pc = "run", !.out = out, !.todo = made]
  <1>1. /\ calls \in Nat /\ calls' = calls + n /\ calls + n <= MaxCalls /\ n \in Nat /\ calls' \in Nat
        /\ calls <= calls'
    BY UnstuckInHand DEF CallTools
  <1>2. calls + 1 \in made /\ made \subseteq Calls /\ \A b \in made : b <= calls' /\ ~(b <= calls)
    BY <1>1, ApprovalAssumption DEF Calls
  <1>3. out \in Output /\ out.ok = o.ok /\ out.res = o.res
        /\ \A c \in Calls : out.st[c] = IF c \in made THEN "in_progress" ELSE o.st[c]
    BY UnstuckInHand DEF Output
  <1>4. task[k].mode = mode /\ UNCHANGED <<mode, req>>
    BY UnstuckInHand DEF CallTools, At
  <1>5. \A c \in Calls : c <= calls => c <= calls'
    BY <1>1, UnstuckInHand
  <1>6. \A c \in Calls : c \in out.res \/ out.st[c] # "none" => c <= calls'
    BY <1>2, <1>3, <1>5, UnstuckInHand DEF Known
  <1>7. CASE task[k].mode = "ask"
    <2>1. /\ msg' = Pause(out) /\ task' = [task EXCEPT ![k] = Over]
      BY <1>7 DEF CallTools
    <2> HIDE DEF out
    <2>2. calls + 1 \in Unresolved(out) /\ out.st[calls + 1] = "in_progress"
      BY <1>2, <1>3, UnstuckInHand DEF Unresolved, Known
    <2> HIDE DEF made
    <2>3. Pending(msg') # {}
      BY <1>3, <2>1, <2>2, PauseAsks
    <2>4. Known(msg)'
      <3>1. \A c \in Calls : Pause(out).st[c] # "none" => out.st[c] # "none"
        BY <1>3 DEF Pause, Output, Unresolved
      <3>2. Pause(out).res = out.res
        BY <1>3 DEF Pause, Output
      <3> QED
        BY <1>6, <2>1, <3>1, <3>2 DEF Known
    <2>5. Unstuck(Over, msg')
      BY <1>4, <1>7, <2>3, UnstuckInHand DEF Unstuck
    <2>6. /\ \A b \in Calls : b \in Over.out.res \/ Over.out.st[b] # "none" => b <= calls'
          /\ \A b \in Over.todo : b <= calls'
      BY <1>5, UnstuckInHand DEF Known
    <2> QED
      BY <1>1, <1>4, <2>1, <2>4, <2>5, <2>6, UnstuckStep
  <1>8. CASE task[k].mode # "ask"
    <2>1. task' = [task EXCEPT ![k] = w] /\ msg' = msg
      BY <1>8 DEF CallTools, ApprovalInv, Types
    <2>2. w.pc = "run" /\ w.mode = task[k].mode /\ w.out = out /\ w.todo = made
      BY UnstuckInHand DEF Task
    <2> HIDE DEF out, made, w
    <2>3. mode = "full" => Unasked(out) /\ Unasked(msg')
      BY <1>3, <2>1, UnstuckInHand DEF Unasked
    <2>4. Unstuck(w, msg')
      BY <1>4, <2>2, <2>3 DEF Unstuck
    <2>5. Known(msg)'
      BY <1>5, <2>1, UnstuckInHand DEF Known
    <2> QED
      BY <1>1, <1>2, <1>4, <1>6, <2>1, <2>2, <2>4, <2>5, UnstuckStep
  <1> QED
    BY <1>7, <1>8

\* A call that ran leaves the rest to the same completion.
LEMMA RunUnstuck ==
  ASSUME ApprovalInv, UnstuckInv, NEW k \in Tasks, Run(k)
  PROVE  UnstuckInv'
  <1> DEFINE c == Min(task[k].todo)
             o == task[k].out
             made == {b \in Calls : o.st[b] = "in_progress"}
             left == task[k].todo \ {c}
             out == [o EXCEPT !.res = o.res \cup made,
                              !.st = [b \in Calls |-> IF b \in made THEN "completed" ELSE o.st[b]]]
             w == IF left # {} THEN [task[k] EXCEPT !.todo = left]
                  ELSE [task[k] EXCEPT !.pc = "stream", !.todo = {}, !.out = out]
  <1>1. task' = [task EXCEPT ![k] = w] /\ UNCHANGED <<msg, mode, req, calls>> /\ task[k].pc = "run"
    BY DEF Run, ApprovalInv, Types, At
  <1>2. out.res = o.res \cup made /\ \A b \in Calls : out.st[b] = IF b \in made THEN "completed" ELSE o.st[b]
    BY UnstuckInHand DEF Output
  <1>3. \A b \in Calls : b \in out.res \/ out.st[b] # "none" => b <= calls
    BY <1>2, UnstuckInHand DEF Known
  <1>4. mode = "full" => Unasked(out)
    BY <1>2, UnstuckInHand DEF Unasked
  <1> HIDE DEF c, out
  <1>5. /\ w.pc \in {"run", "stream"} /\ w.mode = task[k].mode /\ (w.out = o \/ w.out = out)
        /\ w.todo \subseteq task[k].todo
    BY <1>1, UnstuckInHand DEF Task
  <1> HIDE DEF w
  <1>6. Unstuck(w, msg')
    BY <1>1, <1>4, <1>5, UnstuckInHand DEF Unstuck
  <1>7. Known(msg)' /\ calls' \in Nat /\ calls <= calls'
    BY <1>1, UnstuckInHand DEF Known
  <1>8. /\ \A b \in Calls : b \in w.out.res \/ w.out.st[b] # "none" => b <= calls'
        /\ \A b \in w.todo : b <= calls'
    BY <1>1, <1>3, <1>5, UnstuckInHand DEF Known
  <1> QED
    BY <1>1, <1>6, <1>7, <1>8, UnstuckStep

-----------------------------------------------------------------------------
\* A click is on a call that is asked about; the request reads the mode later.
LEMMA ClickUnstuck ==
  ASSUME ApprovalInv, UnstuckInv, NEW t \in Tabs, NEW c \in Calls, NEW a \in {"approve", "reject"}, Click(t, c, a)
  PROVE  UnstuckInv'
  <1>1. UNCHANGED <<msg, mode, task, calls>> /\ c \in Pending(msg)
    BY DEF Click
  <1>2. \A s \in Tabs : s # t => req'[s] = req[s]
    BY DEF Click, Request, ApprovalInv, Types
  <1>3. req'[t].at = "read"
    BY DEF Click, Request, ApprovalInv, Types
  <1>4. mode # "full"
    BY <1>1 DEF UnstuckInv, NothingAsked, Unasked, Pending, Unresolved
  <1>5. OneMode' /\ NothingAsked'
    BY <1>1, <1>2, <1>3, <1>4 DEF UnstuckInv, OneMode, NothingAsked
  <1>6. CallsAreKnown'
    BY <1>1, <1>2, <1>3 DEF UnstuckInv, CallsAreKnown, Known
  <1>7. Drains' /\ Rests'
    BY <1>1 DEF UnstuckInv, Drains, Rests, Approved, Pending, Unresolved
  <1> QED
    BY <1>5, <1>6, <1>7 DEF UnstuckInv

\* The output read is the stored one with an open call resolved.
LEMMA ResolveReadUnstuck ==
  ASSUME ApprovalInv, UnstuckInv, NEW t \in Tabs, ResolveRead(t)
  PROVE  UnstuckInv'
  <1> DEFINE r == req[t]
             w == IF r.call \in Open(msg)
                  THEN [at |-> "write", out |-> Resolved(msg, r.call, r.action), mode |-> mode]
                  ELSE Idle
  <1>1. UNCHANGED <<msg, mode, task, calls>> /\ r.at = "read"
    BY DEF ResolveRead
  <1>2. \A s \in Tabs : s # t => req'[s] = req[s]
    BY DEF ResolveRead, ApprovalInv, Types
  <1>3. req'[t] = w
    BY DEF ResolveRead, ApprovalInv, Types
  <1>4. msg \in Output /\ Known(msg)
    BY DEF ApprovalInv, Types, UnstuckInv, CallsAreKnown
  <1>5. r.call \in Open(msg) => Known(Resolved(msg, r.call, r.action))
    <2> SUFFICES ASSUME r.call \in Open(msg) PROVE Known(Resolved(msg, r.call, r.action))
      OBVIOUS
    <2> DEFINE x == Resolved(msg, r.call, r.action)
    <2>1. r.call \in Calls /\ msg.st[r.call] # "none"
      BY DEF Open, Unresolved
    <2>2. /\ x.res \subseteq msg.res \cup {r.call}
          /\ \A c \in Calls : c # r.call => x.st[c] = msg.st[c]
      BY <1>4, <2>1 DEF Resolved, Output
    <2> HIDE DEF x
    <2>3. Known(x)
      BY <1>4, <2>1, <2>2 DEF Known
    <2> QED
      BY <2>3 DEF x
  <1>6. w.at = "write" => w.mode = mode /\ w.out = Resolved(msg, r.call, r.action) /\ r.call \in Open(msg)
    BY DEF Idle
  <1>7. mode # "full"
    BY <1>1 DEF UnstuckInv, NothingAsked
  <1> HIDE DEF w
  <1>8. OneMode' /\ NothingAsked'
    BY <1>1, <1>2, <1>3, <1>6, <1>7 DEF UnstuckInv, OneMode, NothingAsked
  <1>9. CallsAreKnown'
    BY <1>1, <1>2, <1>3, <1>5, <1>6 DEF UnstuckInv, CallsAreKnown, Known
  <1>10. Drains' /\ Rests'
    BY <1>1 DEF UnstuckInv, Drains, Rests, Approved, Pending, Unresolved
  <1> QED
    BY <1>8, <1>9, <1>10 DEF UnstuckInv

\* The output is written and a completion of the same mode is started.
LEMMA ResolveWriteUnstuck ==
  ASSUME ApprovalInv, UnstuckInv, NEW t \in Tabs, ResolveWrite(t)
  PROVE  UnstuckInv'
  <1> DEFINE free == {k \in Tasks : task[k] = Over}
             k == Min(free)
             w == Started(req[t].mode)
             o == req[t].out
  <1>1. /\ msg' = [o EXCEPT !.done = FALSE] /\ task' = [task EXCEPT ![k] = w]
        /\ req' = [req EXCEPT ![t] = Idle] /\ UNCHANGED <<mode, calls>> /\ req[t].at = "write"
    BY DEF ResolveWrite
  <1>2. k \in Tasks
    <2>1. free \in SUBSET Nat /\ free # {}
      BY ApprovalAssumption DEF ResolveWrite, Tasks
    <2>2. k \in free
      BY <2>1, MinIn
    <2> QED
      BY <2>2
  <1>3. /\ req[t].mode = mode /\ Known(o) /\ mode # "full" /\ o \in Output
    BY <1>1 DEF UnstuckInv, OneMode, CallsAreKnown, NothingAsked, ApprovalInv, Types, Idle, Reading, Writing
  <1>4. Known(msg')
    <2> HIDE DEF o
    <2>1. LET x == [o EXCEPT !.done = FALSE] IN Known(o) => Known(x)
      BY <1>3, DoneFacts
    <2> QED
      BY <1>1, <1>3, <2>1
  <1>5. w.pc = "drain" /\ w.mode = mode /\ w.out = NoOutput /\ w.todo = {}
    BY <1>3 DEF Started, Over
  <1> HIDE DEF k, w
  <1>6. \A s \in Tabs : req'[s] = IF s = t THEN Idle ELSE req[s]
    BY <1>1 DEF ApprovalInv, Types
  <1>7. \A j \in Tasks : task'[j] = IF j = k THEN w ELSE task[j]
    BY <1>1, <1>2 DEF ApprovalInv, Types
  <1>8. Idle.at = "idle"
    BY DEF Idle
  <1>9. OneMode' /\ NothingAsked'
    BY <1>1, <1>3, <1>5, <1>6, <1>7, <1>8 DEF UnstuckInv, OneMode, NothingAsked
  <1>10. CallsAreKnown'
    <2>1. Known(NoOutput)
      BY DEF Known, NoOutput
    <2>2. \A j \in Tasks : Known(task'[j].out) /\ \A c \in task'[j].todo : c <= calls
      BY <1>5, <1>7, <2>1 DEF UnstuckInv, CallsAreKnown
    <2>3. \A s \in Tabs : req'[s].at = "write" => Known(req'[s].out)
      BY <1>6, <1>8 DEF UnstuckInv, CallsAreKnown
    <2> QED
      BY <1>1, <1>4, <2>2, <2>3 DEF CallsAreKnown, Known
  <1>11. Drains'
    BY <1>5, <1>7 DEF UnstuckInv, Drains, Approved, Unresolved
  <1>12. Rests'
    BY <1>2, <1>5, <1>7 DEF Rests
  <1> QED
    BY <1>9, <1>10, <1>11, <1>12 DEF UnstuckInv

-----------------------------------------------------------------------------
Counters == stops \in Nat /\ faults \in Nat /\ switches \in Nat

\* A reply that was not disturbed stays out of the dead ends.
LEMMA UnstuckNext == ApprovalInv /\ Counters /\ (Steady => UnstuckInv) /\ [Next]_vars
                       => Counters' /\ (Steady' => UnstuckInv')
  <1> SUFFICES ASSUME ApprovalInv, Counters, Steady => UnstuckInv, [Next]_vars
               PROVE  Counters' /\ (Steady' => UnstuckInv')
    OBVIOUS
  <1>1. ASSUME NEW t \in Tabs, NEW c \in Calls, NEW a \in {"approve", "reject"}, Click(t, c, a)
        PROVE  Counters' /\ (Steady' => UnstuckInv')
    <2>1. UNCHANGED <<stops, faults, switches>>
      BY <1>1 DEF Click
    <2> QED
      BY <1>1, <2>1, ClickUnstuck DEF Counters, Steady
  <1>2. ASSUME NEW t \in Tabs, NEW m \in {"ask", "full"}, SwitchMode(t, m)
        PROVE  Counters' /\ (Steady' => UnstuckInv')
    BY <1>2 DEF Counters, Steady, SwitchMode
  <1>3. ASSUME NEW t \in Tabs, ResolveRead(t) \/ ResolveWrite(t)
        PROVE  Counters' /\ (Steady' => UnstuckInv')
    <2>1. UNCHANGED <<stops, faults, switches>>
      BY <1>3 DEF ResolveRead, ResolveWrite
    <2> QED
      BY <1>3, <2>1, ResolveReadUnstuck, ResolveWriteUnstuck DEF Counters, Steady
  <1>4. ASSUME NEW k \in Tasks, Drain(k) \/ Execute(k) \/ WriteOutput(k) \/ Reply(k) \/ Answer(k) \/ Run(k)
        PROVE  Counters' /\ (Steady' => UnstuckInv')
    <2>1. UNCHANGED <<stops, faults, switches>>
      BY <1>4 DEF Drain, Execute, WriteOutput, Reply, Answer, Run
    <2> QED
      BY <1>4, <2>1, DrainUnstuck, ExecuteUnstuck, WriteOutputUnstuck, ReplyUnstuck, AnswerUnstuck, RunUnstuck
         DEF Counters, Steady
  <1>5. ASSUME NEW k \in Tasks, Fail(k)
        PROVE  Counters' /\ (Steady' => UnstuckInv')
    BY <1>5 DEF Counters, Steady, Fail
  <1>6. ASSUME NEW k \in Tasks, NEW n \in 1..2, CallTools(k, n)
        PROVE  Counters' /\ (Steady' => UnstuckInv')
    <2>1. UNCHANGED <<stops, faults, switches>>
      BY <1>6 DEF CallTools
    <2> QED
      BY <1>6, <2>1, CallToolsUnstuck DEF Counters, Steady
  <1>7. CASE Stop
    BY <1>7 DEF Counters, Steady, Stop
  <1>8. CASE UNCHANGED vars
    <2>1. Counters' /\ (Steady' => Steady)
      BY <1>8 DEF vars, Counters, Steady
    <2>2. UNCHANGED <<msg, mode, req, task, calls>>
      BY <1>8 DEF vars
    <2>3. UnstuckInv => UnstuckInv'
      BY <2>2 DEF UnstuckInv, OneMode, NothingAsked, CallsAreKnown, Drains, Rests, Known, Unasked,
                  Approved, Pending, Unresolved
    <2> QED
      BY <2>1, <2>3
  <1> QED
    BY <1>1, <1>2, <1>3, <1>4, <1>5, <1>6, <1>7, <1>8 DEF Next

\* The first completion is under way when the prompt was sent.
LEMMA UnstuckInit == Init => Counters /\ UnstuckInv
  <1> SUFFICES ASSUME Init PROVE Counters /\ UnstuckInv
    OBVIOUS
  <1>1. Counters
    BY DEF Init, Counters
  <1>2. 1 \in Tasks
    BY ApprovalAssumption DEF Tasks
  <1>3. \A k \in Tasks : task[k] = Over \/ (task[k] = Started(mode))
    BY DEF Init
  <1>4. /\ Over.pc = "over" /\ Over.out = NoOutput /\ Over.todo = {}
        /\ Started(mode).pc = "drain" /\ Started(mode).mode = mode
        /\ Started(mode).out = NoOutput /\ Started(mode).todo = {}
    BY DEF Over, Started
  <1>5. \A k \in Tasks : /\ task[k].out = NoOutput /\ task[k].todo = {}
                         /\ task[k].pc \in {"over", "drain"} /\ (task[k].pc = "over" => task[k] = Over)
                         /\ task[k].pc = "over" \/ task[k].mode = mode
    BY <1>3, <1>4
  <1>6. task[1].pc = "drain"
    BY <1>2, <1>4 DEF Init
  <1>7. \A t \in Tabs : req[t].at = "idle"
    BY DEF Init, Idle
  <1>8. msg = NoOutput /\ Known(NoOutput) /\ Unasked(NoOutput)
    BY DEF Init, Known, Unasked, NoOutput
  <1>9. OneMode /\ NothingAsked /\ CallsAreKnown
    BY <1>5, <1>7, <1>8 DEF OneMode, NothingAsked, CallsAreKnown
  <1>10. Drains /\ Rests
    BY <1>2, <1>5, <1>6 DEF Drains, Rests
  <1> QED
    BY <1>1, <1>9, <1>10 DEF UnstuckInv

\* With any number of tabs and completions resolving and writing over each other, a
\* reply that was not stopped, did not fail and kept its mode is never left with
\* nobody working on it, not finished and asking about no call.
THEOREM ReplyIsNeverStuck == Spec => []NeverStuck
  <1>1. (Steady => UnstuckInv) => NeverStuck
    <2>1. Over.pc = "over"
      BY DEF Over
    <2> QED
      BY <2>1 DEF Steady, UnstuckInv, Rests, NeverStuck
  <1>2. Init => Counters /\ (Steady => UnstuckInv)
    BY UnstuckInit
  <1> QED
    BY <1>1, <1>2, InitInv, StepInv, UnstuckNext, PTL DEF Spec

-----------------------------------------------------------------------------
(* The slots of sub-agents *)

\* The instance counts as FiniteSets does.
LEMMA SlotsCount ==
    ASSUME NEW S
    PROVE  (Slots!IsFiniteSet(S) <=> IsFiniteSet(S)) /\ Slots!Cardinality(S) = Cardinality(S)
<1>1. Slots!IsFiniteSet(S) <=> IsFiniteSet(S)
  BY DEF Slots!IsFiniteSet, IsFiniteSet
<1>2. Slots!Cardinality(S) = Cardinality(S)
  BY DEF Slots!Cardinality, Cardinality
<1> QED BY <1>1, <1>2

\* The delegations that have a slot.
Holds(d) == call[d] = "making" \/ sTask[d] \in {"fresh", "running", "cancelling"}
Holders(S) == {d \in S : Holds(d)}

\* What a cancelled task becomes, without the case distinction.
LEMMA CancelledFacts ==
    ASSUME Slots!TypeOK, NEW d \in Slots!Delegations
    PROVE  /\ Slots!Cancelled(d) \in [Slots!Delegations -> {"none", "fresh", "running", "cancelling", "over"}]
           /\ \A e \in Slots!Delegations \ {d} : Slots!Cancelled(d)[e] = sTask[e]
           /\ sTask[d] = "none" => Slots!Cancelled(d)[d] = "none"
           /\ sTask[d] # "fresh" =>
                (Slots!Cancelled(d)[d] \in {"fresh", "running", "cancelling"}
                   <=> sTask[d] \in {"fresh", "running", "cancelling"})
  BY DEF Slots!TypeOK, Slots!Cancelled

\* Types hold throughout: in particular a delegation that has made no chat has no task.
LEMMA SlotTypes == Slots!SlotAssumption /\ Slots!Spec => []Slots!TypeOK
<1> SUFFICES ASSUME Slots!SlotAssumption PROVE Slots!Spec => []Slots!TypeOK
  OBVIOUS
<1>1. Slots!Init => Slots!TypeOK
  BY DEF Slots!SlotAssumption, Slots!Init, Slots!TypeOK, Slots!Calls, Slots!Delegations
<1>2. ASSUME Slots!TypeOK, [Slots!Next]_(Slots!vars) PROVE Slots!TypeOK'
  <2> USE DEF Slots!TypeOK, Slots!Calls
  <2>1. CASE UNCHANGED Slots!vars
    BY <1>2, <2>1 DEF Slots!vars
  <2>2. ASSUME NEW d \in Slots!Delegations, Slots!ReserveBackground(d) PROVE Slots!TypeOK'
    BY <1>2, <2>2 DEF Slots!ReserveBackground
  <2>3. ASSUME NEW d \in Slots!Delegations, Slots!Queue(d) PROVE Slots!TypeOK'
    BY <1>2, <2>3 DEF Slots!Queue
  <2>4. ASSUME NEW d \in Slots!Delegations, Slots!Acquire(d) PROVE Slots!TypeOK'
    BY <1>2, <2>4 DEF Slots!Acquire
  <2>5. ASSUME NEW d \in Slots!Delegations, Slots!Make(d) \/ Slots!MakeFails(d) PROVE Slots!TypeOK'
    BY <1>2, <2>5 DEF Slots!Make, Slots!MakeFails, Slots!Release
  <2>6. ASSUME NEW d \in Slots!Delegations, Slots!Register(d) PROVE Slots!TypeOK'
    BY <1>2, <2>6 DEF Slots!Register
  <2>10. ASSUME NEW d \in Slots!Delegations, Slots!RegisterFails(d) PROVE Slots!TypeOK'
    BY <1>2, <2>10 DEF Slots!RegisterFails, Slots!Release
  <2>7. ASSUME NEW d \in Slots!Delegations, Slots!Begin(d) \/ Slots!End(d) \/ Slots!Return(d) PROVE Slots!TypeOK'
    BY <1>2, <2>7 DEF Slots!Begin, Slots!End, Slots!Return, Slots!Release
  <2>8. ASSUME NEW d \in Slots!Delegations, Slots!StopCaller(d) PROVE Slots!TypeOK'
    <3>1. upset' \in BOOLEAN
      BY <1>2, <2>8 DEF Slots!StopCaller
    <3> QED BY <1>2, <2>8, <3>1, CancelledFacts DEF Slots!StopCaller
  <2>9. ASSUME NEW d \in Slots!Delegations, Slots!StopTask(d) PROVE Slots!TypeOK'
    <3>1. upset' \in BOOLEAN
      BY <1>2, <2>9 DEF Slots!StopTask
    <3> QED BY <1>2, <2>9, <3>1, CancelledFacts DEF Slots!StopTask
  <2> QED BY <1>2, <2>1, <2>2, <2>3, <2>4, <2>5, <2>6, <2>7, <2>8, <2>9, <2>10 DEF Slots!Next
<1> QED BY <1>1, <1>2, PTL DEF Slots!Spec

-----------------------------------------------------------------------------
\* A delegation that begins or stops to hold a slot changes the count of its kind
\* by one.
LEMMA CountHolders ==
    ASSUME Slots!SlotAssumption, NEW d \in Slots!Delegations, NEW S, S = Foreground \/ S = Background,
           \A e \in Slots!Delegations \ {d} : Holds(e)' <=> Holds(e)
    PROVE  /\ Cardinality(Holders(S)) \in Nat
           /\ (d \notin S \/ (Holds(d) <=> Holds(d)')) => Holders(S)' = Holders(S)
           /\ d \in S /\ ~Holds(d) /\ Holds(d)' =>
                /\ Holders(S)' = Holders(S) \cup {d}
                /\ Cardinality(Holders(S)') = Cardinality(Holders(S)) + 1
           /\ d \in S /\ Holds(d) /\ ~Holds(d)' =>
                /\ Holders(S)' = Holders(S) \ {d}
                /\ Cardinality(Holders(S)') = Cardinality(Holders(S)) - 1
<1>1. IsFiniteSet(Holders(S)) /\ S \subseteq Slots!Delegations
  <2>1. Holders(S) \subseteq Slots!Delegations /\ S \subseteq Slots!Delegations
    BY DEF Holders, Slots!Delegations
  <2>2. IsFiniteSet(Slots!Delegations)
    BY SlotsCount DEF Slots!SlotAssumption
  <2> QED BY <2>1, <2>2, FS_Subset
<1>2. (d \notin S \/ (Holds(d) <=> Holds(d)')) => Holders(S)' = Holders(S)
  BY <1>1, Zenon DEF Holders
<1>3. d \in S /\ ~Holds(d) /\ Holds(d)' => Holders(S)' = Holders(S) \cup {d} /\ d \notin Holders(S)
  BY <1>1, Zenon DEF Holders
<1>4. d \in S /\ Holds(d) /\ ~Holds(d)' => Holders(S)' = Holders(S) \ {d} /\ d \in Holders(S)
  BY <1>1, Zenon DEF Holders
<1> QED BY <1>1, <1>2, <1>3, <1>4, FS_AddElement, FS_RemoveElement, FS_CardinalityType

\* The semaphore is waited for by foreground calls only.
QueueIsForeground == \A d \in Slots!Delegations : call[d] = "queued" => d \in Foreground

\* The count, with the holders named.
Counted ==
    ~upset => /\ permits = MaxConcurrent - Cardinality(Holders(Foreground))
              /\ active = Holders(Background)

\* The steps that leave the history clean: which make or end a holder, and what they
\* do to the slots.
LEMMA SlotStep ==
    ASSUME Slots!SlotAssumption, Slots!TypeOK, NEW d \in Slots!Delegations, Counted,
           \A e \in Slots!Delegations \ {d} : Holds(e)' <=> Holds(e),
           upset => upset',
           ~upset' =>
             \/ (Holds(d)' <=> Holds(d)) /\ permits' = permits /\ active' = active
             \/ /\ ~Holds(d) /\ Holds(d)' /\ d \in Foreground
                /\ permits' = permits - 1 /\ active' = active
             \/ /\ ~Holds(d) /\ Holds(d)' /\ d \in Background
                /\ permits' = permits /\ active' = active \cup {d}
             \/ Holds(d) /\ ~Holds(d)' /\ Slots!Release(d)
    PROVE  Counted'
<1>1. SUFFICES ASSUME ~upset'
               PROVE  /\ permits' = MaxConcurrent - Cardinality(Holders(Foreground)')
                      /\ active' = Holders(Background)'
  BY Zenon DEF Counted, Holders
<1>2. /\ permits = MaxConcurrent - Cardinality(Holders(Foreground))
      /\ active = Holders(Background)
  BY <1>1, Zenon DEF Counted
<1>3. /\ Cardinality(Holders(Foreground)) \in Nat /\ MaxConcurrent \in Int
      /\ d \in Foreground => d \notin Background
      /\ d \in Foreground \/ d \in Background
  BY CountHolders DEF Slots!SlotAssumption, Slots!Delegations
<1>4. CASE (Holds(d)' <=> Holds(d)) /\ permits' = permits /\ active' = active
  <2>1. Holders(Foreground)' = Holders(Foreground) /\ Holders(Background)' = Holders(Background)
    BY <1>4, CountHolders, Zenon
  <2> QED BY <1>2, <1>4, <2>1
<1>5. CASE /\ ~Holds(d) /\ Holds(d)' /\ d \in Foreground
           /\ permits' = permits - 1 /\ active' = active
  <2>1. /\ Cardinality(Holders(Foreground)') = Cardinality(Holders(Foreground)) + 1
        /\ Holders(Background)' = Holders(Background)
    BY <1>5, <1>3, CountHolders, Zenon
  <2> QED BY <1>2, <1>3, <1>5, <2>1
<1>6. CASE /\ ~Holds(d) /\ Holds(d)' /\ d \in Background
           /\ permits' = permits /\ active' = active \cup {d}
  <2>1. /\ Holders(Foreground)' = Holders(Foreground)
        /\ Holders(Background)' = Holders(Background) \cup {d}
    BY <1>6, <1>3, CountHolders, Zenon
  <2> QED BY <1>2, <1>6, <2>1
<1>7. CASE Holds(d) /\ ~Holds(d)' /\ Slots!Release(d)
  <2>1. CASE d \in Foreground
    <3>1. /\ Cardinality(Holders(Foreground)') = Cardinality(Holders(Foreground)) - 1
          /\ Holders(Background)' = Holders(Background)
      BY <1>7, <1>3, <2>1, CountHolders, Zenon
    <3>2. d \notin Holders(Background)
      BY <1>3, <2>1 DEF Holders
    <3> QED BY <1>2, <1>3, <1>7, <2>1, <3>1, <3>2 DEF Slots!Release
  <2>2. CASE d \in Background
    <3>1. /\ Holders(Foreground)' = Holders(Foreground)
          /\ Holders(Background)' = Holders(Background) \ {d}
      BY <1>7, <1>3, <2>2, CountHolders, Zenon
    <3> QED BY <1>2, <1>3, <1>7, <2>2, <3>1 DEF Slots!Release
  <2> QED BY <1>3, <2>1, <2>2
<1> QED BY <1>1, <1>4, <1>5, <1>6, <1>7

\* Each step keeps the count.
LEMMA SlotsKept ==
    ASSUME Slots!SlotAssumption, Slots!TypeOK, QueueIsForeground, Counted, [Slots!Next]_(Slots!vars)
    PROVE  Counted'
<1>1. CASE UNCHANGED Slots!vars
  BY <1>1, Zenon DEF Slots!vars, Counted, Holders, Holds
<1> DEFINE Others(d) == \A e \in Slots!Delegations \ {d} : Holds(e)' <=> Holds(e)
<1>2. ASSUME NEW d \in Slots!Delegations, Slots!ReserveBackground(d) PROVE Counted'
  <2>1. Others(d)
    BY <1>2 DEF Slots!ReserveBackground, Holds, Slots!TypeOK
  <2>2. CASE active' = active
    BY <1>2, <2>1, <2>2, SlotStep DEF Slots!ReserveBackground, Holds, Slots!TypeOK
  <2>3. CASE active' # active
    BY <1>2, <2>1, <2>3, SlotStep DEF Slots!ReserveBackground, Holds, Slots!TypeOK
  <2> QED BY <2>2, <2>3
<1>3. ASSUME NEW d \in Slots!Delegations, Slots!Queue(d) PROVE Counted'
  BY <1>3, SlotStep DEF Slots!Queue, Holds, Slots!TypeOK
<1>4. ASSUME NEW d \in Slots!Delegations, Slots!Acquire(d) PROVE Counted'
  <2>1. Others(d) /\ d \in Foreground /\ ~Holds(d) /\ Holds(d)'
    BY <1>4 DEF Slots!Acquire, Holds, Slots!TypeOK, QueueIsForeground
  <2> QED BY <1>4, <2>1, SlotStep DEF Slots!Acquire
<1>5. ASSUME NEW d \in Slots!Delegations, Slots!Make(d) PROVE Counted'
  BY <1>5, SlotStep DEF Slots!Make, Holds, Slots!TypeOK
<1>6. ASSUME NEW d \in Slots!Delegations, Slots!MakeFails(d) PROVE Counted'
  BY <1>6, SlotStep DEF Slots!MakeFails, Holds, Slots!TypeOK
<1>7. ASSUME NEW d \in Slots!Delegations, Slots!Register(d) PROVE Counted'
  BY <1>7, SlotStep DEF Slots!Register, Holds, Slots!TypeOK
<1>8. ASSUME NEW d \in Slots!Delegations, Slots!RegisterFails(d) PROVE Counted'
  BY <1>8, Zenon DEF Slots!RegisterFails, Counted
<1>9. ASSUME NEW d \in Slots!Delegations, Slots!Begin(d) PROVE Counted'
  BY <1>9, SlotStep DEF Slots!Begin, Holds, Slots!TypeOK
<1>10. ASSUME NEW d \in Slots!Delegations, Slots!End(d) PROVE Counted'
  BY <1>10, SlotStep DEF Slots!End, Holds, Slots!TypeOK
<1>11. ASSUME NEW d \in Slots!Delegations, Slots!Return(d) PROVE Counted'
  BY <1>11, SlotStep DEF Slots!Return, Holds, Slots!TypeOK
<1>12. ASSUME NEW d \in Slots!Delegations, Slots!StopCaller(d) PROVE Counted'
  <2>1. call[d] # "making" /\ sTask[d] # "fresh" => (Holds(d)' <=> Holds(d))
    BY <1>12, CancelledFacts DEF Slots!StopCaller, Holds, Slots!TypeOK
  <2>2. Others(d)
    BY <1>12, CancelledFacts DEF Slots!StopCaller, Holds, Slots!TypeOK
  <2>3. upset' <=> (upset \/ call[d] = "making" \/ sTask[d] = "fresh")
    BY <1>12, Zenon DEF Slots!StopCaller
  <2> QED BY <1>12, <2>1, <2>2, <2>3, SlotStep DEF Slots!StopCaller
<1>13. ASSUME NEW d \in Slots!Delegations, Slots!StopTask(d) PROVE Counted'
  BY <1>13, SlotStep, CancelledFacts DEF Slots!StopTask, Holds, Slots!TypeOK
<1> QED
  BY <1>1, <1>2, <1>3, <1>4, <1>5, <1>6, <1>7, <1>8, <1>9, <1>10, <1>11, <1>12, <1>13 DEF Slots!Next

\* The semaphore and the set of background sub-agents always account for exactly the
\* delegations under way, unless a stop came before a task began or a registration
\* failed: delegate loses no slot and gives none back twice, for any number of
\* delegations, any limits and any order of stops and failures.
THEOREM SlotsAreNotLost == Slots!SlotAssumption /\ Slots!Spec => []SlotsAreHeld
<1> SUFFICES ASSUME Slots!SlotAssumption PROVE Slots!Spec => []SlotsAreHeld
  OBVIOUS
<1>1. Slots!Init => QueueIsForeground /\ Counted
  <2> SUFFICES ASSUME Slots!Init PROVE QueueIsForeground /\ Counted
    OBVIOUS
  <2>1. Holders(Foreground) = {} /\ Holders(Background) = {} /\ QueueIsForeground
    BY DEF Slots!Init, Holders, Holds, Slots!Delegations, QueueIsForeground
  <2>2. Cardinality({}) = 0 /\ MaxConcurrent \in Nat
    BY FS_EmptySet DEF Slots!SlotAssumption
  <2>3. permits = MaxConcurrent /\ active = {}
    BY DEF Slots!Init
  <2>4. permits = MaxConcurrent - Cardinality(Holders(Foreground))
    BY <2>1, <2>2, <2>3
  <2> QED BY <2>1, <2>3, <2>4, Zenon DEF Counted
<1>2. Slots!TypeOK /\ QueueIsForeground /\ Counted /\ [Slots!Next]_(Slots!vars) => Counted'
  BY SlotsKept
<1>4. Slots!TypeOK /\ QueueIsForeground /\ [Slots!Next]_(Slots!vars) => QueueIsForeground'
  BY DEF Slots!TypeOK, QueueIsForeground, Slots!Next, Slots!vars, Slots!ReserveBackground, Slots!Queue, Slots!Acquire, Slots!Make, Slots!MakeFails,
         Slots!Register, Slots!RegisterFails, Slots!Begin, Slots!End, Slots!Return, Slots!StopCaller, Slots!StopTask
<1>3. Counted => SlotsAreHeld
  <2>1. Slots!Cardinality(Holders(Foreground)) = Cardinality(Holders(Foreground))
    BY SlotsCount
  <2> QED BY <2>1, Zenon DEF Counted, SlotsAreHeld, Slots!SlotsAreHeld, Holders, Holds
<1> QED BY <1>1, <1>2, <1>3, <1>4, SlotTypes, PTL DEF Slots!Spec

-----------------------------------------------------------------------------
(* The tree of messages *)

\* Sequences of whatever.
IsSeq(s) == \E S : s \in Seq(S)

\* What upTo is in Tree!Only.
Filters(f, s, S) ==
    f = [n \in 0..Len(s) |-> IF n = 0 THEN <<>>
                             ELSE IF s[n] \in S THEN Append(f[n - 1], s[n]) ELSE f[n - 1]]

\* The first n elements are filtered by f.
FilteredTo(f, s, S, n) ==
    /\ DOMAIN f = 0..n
    /\ f[0] = <<>>
    /\ \A k \in 1..n : f[k] = IF s[k] \in S THEN Append(f[k - 1], s[k]) ELSE f[k - 1]

\* A set of numbers without a least one is empty.
LEMMA NoLeast ==
  ASSUME NEW S \in SUBSET Nat, \A n \in S : \E m \in S : m < n
  PROVE  S = {}
  <1> SUFFICES ASSUME S # {} PROVE FALSE
    OBVIOUS
  <1>1. PICK x \in S : \A y \in S : <<y, x>> \notin OpToRel(<, Nat)
    BY NatLessThanWellFounded, WFMin
  <1>2. \A y \in S : ~ (y < x)
    BY <1>1 DEF OpToRel
  <1> QED
    BY <1>2

\* The recursive definition in Tree!Only has a solution.
LEMMA FilterExists ==
  ASSUME NEW T, NEW s \in Seq(T), NEW S
  PROVE  \E f : Filters(f, s, S)
  <1> DEFINE bad == {n \in 0..Len(s) : ~ \E f : FilteredTo(f, s, S, n)}
  <1>1. Len(s) \in Nat
    OBVIOUS
  <1>2. ASSUME NEW n \in bad PROVE \E m \in bad : m < n
    <2>1. CASE n = 0
      <3> DEFINE f == [k \in 0..0 |-> <<>>]
      <3>1. FilteredTo(f, s, S, 0)
        BY DEF FilteredTo
      <3> QED
        BY <2>1, <3>1
    <2>2. CASE n # 0
      <3>1. n - 1 \in 0..Len(s) /\ n \in 1..Len(s)
        BY <1>1, <2>2
      <3>2. SUFFICES ASSUME NEW f, FilteredTo(f, s, S, n - 1) PROVE \E g : FilteredTo(g, s, S, n)
        BY <3>1
      <3> DEFINE g == [k \in 0..n |-> IF k <= n - 1 THEN f[k]
                                      ELSE IF s[n] \in S THEN Append(f[n - 1], s[n]) ELSE f[n - 1]]
      <3>3. DOMAIN g = 0..n /\ g[0] = <<>>
        BY <3>1, <3>2 DEF FilteredTo
      <3>4. ASSUME NEW k \in 1..n
            PROVE  g[k] = IF s[k] \in S THEN Append(g[k - 1], s[k]) ELSE g[k - 1]
        <4>1. CASE k <= n - 1
          <5>1. k \in 1..(n - 1) /\ k - 1 <= n - 1 /\ k - 1 \in 0..n /\ k \in 0..n
            BY <3>1, <4>1
          <5>2. g[k] = f[k] /\ g[k - 1] = f[k - 1]
            BY <4>1, <5>1
          <5> QED
            BY <3>2, <5>1, <5>2 DEF FilteredTo
        <4>2. CASE k = n
          <5>1. k - 1 <= n - 1 /\ k - 1 \in 0..n /\ k \in 0..n /\ ~(k <= n - 1)
            BY <3>1, <4>2
          <5>2. g[k - 1] = f[n - 1]
            BY <4>2, <5>1
          <5> QED
            BY <4>2, <5>1, <5>2
        <4> QED
          BY <3>1, <4>1, <4>2
      <3> HIDE DEF g
      <3>5. FilteredTo(g, s, S, n)
        BY <3>3, <3>4 DEF FilteredTo
      <3> QED
        BY <3>5
    <2> QED
      BY <2>1, <2>2
  <1>3. bad = {}
    <2>1. bad \in SUBSET Nat
      BY <1>1
    <2> HIDE DEF bad
    <2> QED
      BY <1>2, <2>1, NoLeast
  <1>4. PICK f : FilteredTo(f, s, S, Len(s))
    BY <1>1, <1>3
  <1> DEFINE g == [n \in 0..Len(s) |-> f[n]]
  <1>5. \A n \in 0..Len(s) : g[n] = IF n = 0 THEN <<>>
                             ELSE IF s[n] \in S THEN Append(g[n - 1], s[n]) ELSE g[n - 1]
    <2> SUFFICES ASSUME NEW n \in 0..Len(s)
                 PROVE  g[n] = IF n = 0 THEN <<>>
                             ELSE IF s[n] \in S THEN Append(g[n - 1], s[n]) ELSE g[n - 1]
      BY Zenon
    <2>1. CASE n = 0
      BY <1>1, <1>4, <2>1 DEF FilteredTo
    <2>2. CASE n # 0
      <3>1. n \in 1..Len(s) /\ n - 1 \in 0..Len(s)
        BY <1>1, <2>2
      <3> QED
        BY <1>4, <2>2, <3>1 DEF FilteredTo
    <2> QED
      BY <2>1, <2>2
  <1>6. g = [n \in 0..Len(s) |-> g[n]]
    OBVIOUS
  <1> HIDE DEF g
  <1>7. g = [n \in 0..Len(s) |-> IF n = 0 THEN <<>>
                             ELSE IF s[n] \in S THEN Append(g[n - 1], s[n]) ELSE g[n - 1]]
    BY <1>5, <1>6
  <1> QED
    BY <1>7 DEF Filters

\* What is kept of a sequence is a sequence of the elements that are in the set.
LEMMA OnlyFacts ==
  ASSUME NEW T, NEW s \in Seq(T), NEW S
  PROVE  Tree!Only(s, S) \in Seq(T) /\ Tree!Range(Tree!Only(s, S)) = Tree!Range(s) \cap S
  <1>1. PICK f : Filters(f, s, S) /\ Tree!Only(s, S) = f[Len(s)]
    <2>1. Tree!Only(s, S) = (CHOOSE f : Filters(f, s, S))[Len(s)]
      BY DEF Tree!Only, Filters
    <2>2. \E f : Filters(f, s, S)
      BY FilterExists
    <2> HIDE DEF Filters
    <2> QED
      BY <2>1, <2>2
  <1>2. Len(s) \in Nat /\ \A k \in 1..Len(s) : s[k] \in T
    OBVIOUS
  <1>3. f[0] = <<>> /\ \A n \in 1..Len(s) : f[n] = IF s[n] \in S THEN Append(f[n - 1], s[n]) ELSE f[n - 1]
    <2>1. \A n \in 0..Len(s) : f[n] = IF n = 0 THEN <<>>
                             ELSE IF s[n] \in S THEN Append(f[n - 1], s[n]) ELSE f[n - 1]
      BY <1>1 DEF Filters
    <2>2. 0 \in 0..Len(s) /\ \A n \in 1..Len(s) : n \in 0..Len(s) /\ n # 0
      BY <1>2
    <2> QED
      BY <2>1, <2>2
  <1> DEFINE Elems(q) == {q[k] : k \in 1..Len(q)}
             First(n) == {s[k] : k \in 1..n} \cap S
             bad == {n \in 0..Len(s) : ~(f[n] \in Seq(T) /\ Elems(f[n]) = First(n))}
  <1>4. ASSUME NEW n \in bad PROVE \E m \in bad : m < n
    <2>1. CASE n = 0
      <3>1. f[0] \in Seq(T) /\ Elems(f[0]) = {} /\ First(0) = {}
        BY <1>3
      <3> QED
        BY <2>1, <3>1
    <2>2. CASE n # 0
      <3>1. n - 1 \in 0..Len(s) /\ n \in 1..Len(s) /\ n - 1 < n
        BY <1>2, <2>2
      <3>2. SUFFICES ASSUME f[n - 1] \in Seq(T), Elems(f[n - 1]) = First(n - 1)
                     PROVE  f[n] \in Seq(T) /\ Elems(f[n]) = First(n)
        BY <3>1
      <3>3. {s[k] : k \in 1..n} = {s[k] : k \in 1..(n - 1)} \cup {s[n]}
        BY <3>1
      <3>4. CASE s[n] \in S
        <4>1. f[n] = Append(f[n - 1], s[n])
          BY <1>3, <3>1, <3>4
        <4>2. f[n] \in Seq(T) /\ Len(f[n]) = Len(f[n - 1]) + 1 /\ f[n][Len(f[n - 1]) + 1] = s[n]
              /\ \A k \in 1..Len(f[n - 1]) : f[n][k] = f[n - 1][k]
          BY <1>2, <3>1, <3>2, <4>1
        <4>3. Elems(f[n]) = Elems(f[n - 1]) \cup {s[n]}
          <5>1. Len(f[n - 1]) \in Nat
            BY <3>2
          <5>2. 1..Len(f[n]) = 1..Len(f[n - 1]) \cup {Len(f[n - 1]) + 1}
            BY <4>2, <5>1
          <5> QED
            BY <4>2, <5>1, <5>2
        <4>4. First(n) = First(n - 1) \cup {s[n]}
          BY <3>3, <3>4
        <4> QED
          BY <3>2, <4>2, <4>3, <4>4
      <3>5. CASE s[n] \notin S
        <4>1. f[n] = f[n - 1] /\ First(n) = First(n - 1)
          BY <1>3, <3>1, <3>3, <3>5
        <4> QED
          BY <3>2, <4>1
      <3> QED
        BY <3>4, <3>5
    <2> QED
      BY <2>1, <2>2
  <1>5. bad = {}
    <2>1. bad \in SUBSET Nat
      BY <1>2
    <2> HIDE DEF bad
    <2> QED
      BY <1>4, <2>1, NoLeast
  <1>6. f[Len(s)] \in Seq(T) /\ Elems(f[Len(s)]) = First(Len(s))
    <2>1. Len(s) \in 0..Len(s)
      BY <1>2
    <2>2. Len(s) \notin bad
      BY ONLY <1>5, Zenon
    <2> HIDE DEF Elems, First
    <2> QED
      BY <2>1, <2>2
  <1>7. \A q \in Seq(T) : Tree!Range(q) = Elems(q)
    BY DEF Tree!Range
  <1> QED
    BY <1>1, <1>6, <1>7

\* Appending and concatenating, as far as the elements are concerned.
LEMMA RangeFacts ==
  ASSUME NEW T, NEW s \in Seq(T)
  PROVE  /\ \A e : /\ Append(s, e) \in Seq(T \cup {e})
                  /\ Tree!Range(Append(s, e)) = Tree!Range(s) \cup {e}
         /\ \A t \in Seq(T) : s \o t \in Seq(T) /\ Tree!Range(s \o t) = Tree!Range(s) \cup Tree!Range(t)
  <1>1. \A U : \A q \in Seq(U) : Tree!Range(q) = {q[k] : k \in 1..Len(q)} /\ Len(q) \in Nat
    BY DEF Tree!Range
  <1>2. ASSUME NEW e
        PROVE  Append(s, e) \in Seq(T \cup {e}) /\ Tree!Range(Append(s, e)) = Tree!Range(s) \cup {e}
    <2>1. s \in Seq(T \cup {e})
      <3>1. \A k \in 1..Len(s) : s[k] \in T \cup {e}
        OBVIOUS
      <3> QED
        BY <3>1
    <2>2. /\ Append(s, e) \in Seq(T \cup {e}) /\ Len(Append(s, e)) = Len(s) + 1
          /\ \A k \in 1..Len(s) : Append(s, e)[k] = s[k]
          /\ Append(s, e)[Len(s) + 1] = e
      BY <2>1
    <2>3. 1..(Len(s) + 1) = 1..Len(s) \cup {Len(s) + 1}
      BY <1>1
    <2> DEFINE a == Append(s, e)
    <2> HIDE DEF a
    <2>4. {a[k] : k \in 1..Len(a)} = {s[k] : k \in 1..Len(s)} \cup {e}
      BY <2>2, <2>3 DEF a
    <2> QED
      BY <1>1, <2>2, <2>4 DEF a
  <1>3. ASSUME NEW t \in Seq(T)
        PROVE  s \o t \in Seq(T) /\ Tree!Range(s \o t) = Tree!Range(s) \cup Tree!Range(t)
    <2> DEFINE q == s \o t
    <2>1. /\ q \in Seq(T) /\ Len(q) = Len(s) + Len(t)
          /\ \A k \in 1..(Len(s) + Len(t)) : q[k] = IF k <= Len(s) THEN s[k] ELSE t[k - Len(s)]
      BY ConcatProperties
    <2> HIDE DEF q
    <2>2. \A k \in 1..Len(s) : k \in 1..Len(q) /\ q[k] = s[k]
      BY <1>1, <2>1
    <2>3. \A k \in 1..Len(t) : Len(s) + k \in 1..Len(q) /\ q[Len(s) + k] = t[k]
      <3> SUFFICES ASSUME NEW k \in 1..Len(t) PROVE Len(s) + k \in 1..Len(q) /\ q[Len(s) + k] = t[k]
        OBVIOUS
      <3>1. Len(s) + k \in 1..Len(q) /\ ~(Len(s) + k <= Len(s)) /\ (Len(s) + k) - Len(s) = k
        BY <1>1, <2>1
      <3> QED
        BY <2>1, <3>1
    <2>4. \A k \in 1..Len(q) : q[k] \in {s[j] : j \in 1..Len(s)} \cup {t[j] : j \in 1..Len(t)}
      <3> SUFFICES ASSUME NEW k \in 1..Len(q)
                   PROVE  q[k] \in {s[j] : j \in 1..Len(s)} \cup {t[j] : j \in 1..Len(t)}
        OBVIOUS
      <3>1. CASE k <= Len(s)
        BY <1>1, <2>1, <3>1
      <3>2. CASE ~(k <= Len(s))
        <4>1. k - Len(s) \in 1..Len(t)
          BY <1>1, <2>1, <3>2
        <4> QED
          BY <1>1, <2>1, <3>2, <4>1
      <3> QED
        BY <3>1, <3>2
    <2>5. {q[k] : k \in 1..Len(q)} = {s[k] : k \in 1..Len(s)} \cup {t[k] : k \in 1..Len(t)}
      <3> DEFINE P == {s[k] : k \in 1..Len(s)}
                 Q == {t[k] : k \in 1..Len(t)}
                 R == {q[k] : k \in 1..Len(q)}
      <3>1. R \subseteq P \cup Q
        BY <2>4
      <3>2. P \subseteq R
        BY <2>2
      <3>3. Q \subseteq R
        <4> SUFFICES ASSUME NEW k \in 1..Len(t) PROVE t[k] \in R
          OBVIOUS
        <4>1. Len(s) + k \in 1..Len(q) /\ q[Len(s) + k] = t[k]
          BY <2>3
        <4> QED
          BY <4>1
      <3> QED
        BY <3>1, <3>2, <3>3
    <2> QED
      BY <1>1, <2>1, <2>5 DEF q
  <1> QED
    BY <1>2, <1>3

\* A history: its order is a sequence.
Hist(h) == DOMAIN h = {"order", "parent", "children", "current", "summary", "untimed"} /\ IsSeq(h.order)

\* Two sequences have a common set of elements.
LEMMA CommonSeq ==
  ASSUME NEW s, NEW t, IsSeq(s), IsSeq(t)
  PROVE  \E T : s \in Seq(T) /\ t \in Seq(T)
  <1>1. PICK S : s \in Seq(S)
    BY DEF IsSeq
  <1>2. PICK T : t \in Seq(T)
    BY DEF IsSeq
  <1>3. s \in Seq(S \cup T)
    <2>1. \A k \in 1..Len(s) : s[k] \in S \cup T
      BY <1>1
    <2> QED
      BY <1>1, <2>1
  <1>4. t \in Seq(S \cup T)
    <2>1. \A k \in 1..Len(t) : t[k] \in S \cup T
      BY <1>2
    <2> QED
      BY <1>2, <2>1
  <1> QED
    BY <1>3, <1>4

\* _repair_chat_current_id leaves the messages alone.
LEMMA RepairKeeps ==
  ASSUME NEW h, Hist(h)
  PROVE  LET g == Tree!Repair(h)
         IN Hist(g) /\ Tree!Stored(g) = Tree!Stored(h) /\ g.children = h.children
  <1>1. \E c : Tree!Repair(h) = [h EXCEPT !.current = c]
    BY DEF Tree!Repair
  <1>2. PICK c : Tree!Repair(h) = [h EXCEPT !.current = c]
    BY <1>1
  <1> QED
    BY <1>2 DEF Hist, Tree!Stored

\* upsert_message_to_history adds the message and drops none.
LEMMA UpsertAdds ==
  ASSUME NEW h, Hist(h), NEW i, NEW p, NEW c
  PROVE  LET g == Tree!Upsert(h, i, p, c) IN Hist(g) /\ Tree!Stored(g) = Tree!Stored(h) \cup {i}
  <1> DEFINE g == Tree!Upsert(h, i, p, c)
  <1>1. CASE i \in Tree!Stored(h)
    <2>1. \E a, b : g = [h EXCEPT !.parent = a, !.children = b]
      BY <1>1 DEF Tree!Upsert, Hist
    <2>2. DOMAIN g = DOMAIN h /\ g.order = h.order
      BY <2>1 DEF Hist
    <2> QED
      BY <1>1, <2>2 DEF Hist, Tree!Stored
  <1>2. CASE i \notin Tree!Stored(h)
    <2>1. \E a, b : g = [order |-> Append(h.order, i), parent |-> a, children |-> b, current |-> i,
                        summary |-> h.summary, untimed |-> h.untimed]
      BY <1>2 DEF Tree!Upsert
    <2>2. DOMAIN g = {"order", "parent", "children", "current", "summary", "untimed"} /\ g.order = Append(h.order, i)
      BY <2>1
    <2>3. PICK T : h.order \in Seq(T)
      BY DEF Hist, IsSeq
    <2>4. Append(h.order, i) \in Seq(T \cup {i}) /\ Tree!Range(Append(h.order, i)) = Tree!Range(h.order) \cup {i}
      BY <2>3, RangeFacts
    <2> QED
      BY <2>2, <2>4 DEF Hist, IsSeq, Tree!Stored
  <1> QED
    BY <1>1, <1>2

\* So does an update with a contextSummary.
LEMMA SummariseAdds ==
  ASSUME NEW h, Hist(h), NEW i
  PROVE  LET g == Tree!Summarise(h, i) IN Hist(g) /\ Tree!Stored(g) = Tree!Stored(h) \cup {i}
  <1> DEFINE k == IF i \in Tree!Stored(h) THEN h ELSE Tree!Upsert(h, i, Tree!Unset, <<>>)
  <1>1. Hist(k) /\ Tree!Stored(k) = Tree!Stored(h) \cup {i}
    BY UpsertAdds
  <1>2. Tree!Summarise(h, i) = [k EXCEPT !.summary = @ \cup {i}]
    BY DEF Tree!Summarise
  <1> HIDE DEF k
  <1> QED
    BY <1>1, <1>2 DEF Hist, Tree!Stored

\* merge_history keeps the messages of both.
LEMMA MergeKeeps ==
  ASSUME NEW old, NEW new, Hist(old), Hist(new)
  PROVE  LET g == Tree!Merge(old, new)
         IN Hist(g) /\ Tree!Stored(old) \cup (Tree!Stored(new) \cap Tree!Ids) \subseteq Tree!Stored(g)
  <1> DEFINE g == Tree!Merge(old, new)
             added == Tree!Only(new.order, Tree!Ids \ Tree!Stored(old))
  <1>1. \E a, b, c, d, e : g = [order |-> old.order \o added, parent |-> a, children |-> b, current |-> c,
                              summary |-> d, untimed |-> e]
    BY DEF Tree!Merge
  <1>2. DOMAIN g = {"order", "parent", "children", "current", "summary", "untimed"} /\ g.order = old.order \o added
    <2>1. PICK a, b, c, d, e : g = [order |-> old.order \o added, parent |-> a, children |-> b, current |-> c,
                                  summary |-> d, untimed |-> e]
      BY <1>1
    <2> HIDE DEF g, added
    <2> QED
      BY <2>1
  <1> HIDE DEF g
  <1>3. PICK T : old.order \in Seq(T) /\ new.order \in Seq(T)
    BY CommonSeq DEF Hist
  <1>4. added \in Seq(T) /\ Tree!Range(added) = Tree!Range(new.order) \cap (Tree!Ids \ Tree!Stored(old))
    BY <1>3, OnlyFacts
  <1> HIDE DEF added
  <1>5. old.order \o added \in Seq(T) /\ Tree!Range(old.order \o added) = Tree!Range(old.order) \cup Tree!Range(added)
    BY <1>3, <1>4, RangeFacts
  <1>6. Hist(g)
    BY <1>2, <1>5 DEF Hist, IsSeq
  <1>7. Tree!Stored(old) \cup (Tree!Stored(new) \cap Tree!Ids) \subseteq Tree!Stored(g)
    BY <1>2, <1>4, <1>5 DEF Tree!Stored
  <1> QED
    BY <1>6, <1>7 DEF g

\* delete_message_from_history drops nothing beside the message and its children.
LEMMA DeleteKeeps ==
  ASSUME NEW h, Hist(h), NEW m
  PROVE  LET g == Tree!Delete(h, m)
         IN Hist(g) /\ (Tree!Stored(h) \cap Tree!Ids) \ Tree!Removed(h, m) \subseteq Tree!Stored(g)
  <1> DEFINE g == Tree!Delete(h, m)
             left == Tree!Only(h.order, Tree!Ids \ Tree!Removed(h, m))
  <1>1. CASE Tree!Removed(h, m) = {}
    BY <1>1 DEF Tree!Delete
  <1>2. CASE Tree!Removed(h, m) # {}
    <2>1. \E a, b, c : g = [Tree!Keep([h EXCEPT !.children = a, !.parent = b], Tree!Removed(h, m)) EXCEPT !.current = c]
      BY <1>2 DEF Tree!Delete
    <2>2. PICK a, b, c : g = [Tree!Keep([h EXCEPT !.children = a, !.parent = b], Tree!Removed(h, m)) EXCEPT !.current = c]
      BY <2>1
    <2> DEFINE moved == [h EXCEPT !.children = a, !.parent = b]
               kept == Tree!Keep(moved, Tree!Removed(h, m))
    <2>3. DOMAIN moved = DOMAIN h /\ moved.order = h.order
      BY DEF Hist
    <2> HIDE DEF moved
    <2>4. DOMAIN kept = DOMAIN h /\ kept.order = left
      BY <2>3 DEF Tree!Keep, Hist
    <2>5. g = [kept EXCEPT !.current = c]
      BY <2>2 DEF moved
    <2> HIDE DEF kept, left, g
    <2>6. DOMAIN g = DOMAIN h /\ g.order = left
      BY <2>4, <2>5 DEF Hist
    <2>7. PICK T : h.order \in Seq(T)
      BY DEF Hist, IsSeq
    <2>8. left \in Seq(T) /\ Tree!Range(left) = Tree!Range(h.order) \cap (Tree!Ids \ Tree!Removed(h, m))
      BY <2>7, OnlyFacts DEF left
    <2>9. Hist(g)
      BY <2>6, <2>8 DEF Hist, IsSeq
    <2>10. (Tree!Stored(h) \cap Tree!Ids) \ Tree!Removed(h, m) \subseteq Tree!Stored(g)
      BY <2>6, <2>8 DEF Tree!Stored
    <2> QED
      BY <2>9, <2>10 DEF g
  <1> QED
    BY <1>1, <1>2

-----------------------------------------------------------------------------
\* A request under way: what follows a transaction, and that only the upserts
\* of a send are followed by anything.
InOrder(r) ==
    \/ r = Tree!Idle
    \/ /\ DOMAIN r = {"at", "op", "id", "parent", "children", "then", "user", "seen", "ids", "gone"}
       /\ r.at \in {"begin", "tx", "rows", "rowsOut", "parent", "user", "reply", "repaired"}
       /\ r.op \in {"upsert", "merge", "delete", "summary", "heal", "load"}
       /\ r.then \in {"parent", "user", "reply", "end", "show", "compact"}
       /\ r.op = "load" <=> r.at = "repaired"
       /\ r.op = "upsert" => r.then \notin {"show", "compact"}
       /\ r.op \notin {"upsert", "load"} => r.then = "end"
       /\ r.at \in {"parent", "user", "reply"} => r.op = "upsert" /\ r.then # "end"
       /\ r.at \in {"begin", "tx"} => r.op # "heal"
       /\ r.at = "rowsOut" => r.op = "delete"
       /\ Hist(r.seen)

\* What a request r of a tab with the copy c will still store.
Due(r, c) ==
    {i \in Tree!Ids :
        \/ r.at \in {"begin", "tx"} /\ r.op = "merge" /\ i \in Tree!Stored(c)
        \/ r.at \in {"begin", "tx"} /\ r.op = "upsert" /\ i = r.id
        \/ r.at # "idle" /\ r.op = "upsert" /\ r.then # "end" /\ i = r.user + 1}

\* What NothingDropped rests on: a message is deleted, stored, or to be stored by
\* a request under way; and a transaction works on the history as it is stored,
\* alone.
TreeInv ==
    /\ DOMAIN tReq = Tabs /\ DOMAIN copy = Tabs
    /\ Hist(blob) /\ created \in Nat /\ created <= MaxMessages
    /\ \A t \in Tabs : Hist(copy[t]) /\ InOrder(tReq[t])
    /\ \A t \in Tabs : tReq[t].at = "tx" =>
         tReq[t].seen = blob /\ \A u \in Tabs : tReq[u].at = "tx" => u = t
    /\ \A i \in 1..created : i \in deleted \cup overwritten \cup Tree!Stored(blob) \/ \E t \in Tabs : i \in Due(tReq[t], copy[t])

\* A step of one tab keeps the invariant if what was accounted for stays so,
\* and if only the owner of the row changes the history.
LEMMA OneTab ==
  ASSUME TreeInv, NEW t \in Tabs, NEW r, NEW c, MaxMessages \in Nat,
         DOMAIN tReq' = Tabs, DOMAIN copy' = Tabs,
         tReq'[t] = r, copy'[t] = c,
         \A u \in Tabs \ {t} : tReq'[u] = tReq[u] /\ copy'[u] = copy[u],
         Hist(blob'), Hist(c), InOrder(r),
         created' \in created..MaxMessages,
         blob' = blob \/ \A u \in Tabs \ {t} : tReq[u].at # "tx",
         r.at = "tx" => r.seen = blob' /\ \A u \in Tabs \ {t} : tReq[u].at # "tx",
         deleted \subseteq deleted' /\ overwritten \subseteq overwritten',
         \A i \in 1..created : i \in Tree!Stored(blob) \cup Due(tReq[t], copy[t])
                                 => i \in deleted' \cup overwritten' \cup Tree!Stored(blob') \cup Due(r, c),
         \A i \in (created + 1)..created' : i \in Due(r, c)
  PROVE  TreeInv'
  <1>1. created' \in Nat /\ created' <= MaxMessages
    BY DEF TreeInv
  <1>2. \A u \in Tabs : Hist(copy'[u]) /\ InOrder(tReq'[u])
    BY DEF TreeInv
  <1>3. ASSUME NEW u \in Tabs, tReq'[u].at = "tx"
        PROVE  tReq'[u].seen = blob' /\ \A v \in Tabs : tReq'[v].at = "tx" => v = u
    <2>1. CASE u = t
      BY <1>3, <2>1
    <2>2. CASE u # t
      <3>1. tReq[u].at = "tx" /\ tReq'[u] = tReq[u] /\ u \in Tabs \ {t}
        BY <1>3, <2>2
      <3>2. blob' = blob /\ r.at # "tx"
        BY <3>1
      <3> QED
        BY <3>1, <3>2 DEF TreeInv
    <2> QED
      BY <2>1, <2>2
  <1>4. ASSUME NEW i \in 1..created'
        PROVE  i \in deleted' \cup overwritten' \cup Tree!Stored(blob') \/ \E u \in Tabs : i \in Due(tReq'[u], copy'[u])
    <2>1. CASE i \in 1..created
      <3>1. CASE i \in deleted \cup overwritten
        BY <3>1
      <3>2. CASE i \in Tree!Stored(blob) \cup Due(tReq[t], copy[t])
        BY <2>1, <3>2
      <3>3. CASE \E u \in Tabs \ {t} : i \in Due(tReq[u], copy[u])
        BY <3>3
      <3> QED
        BY <2>1, <3>1, <3>2, <3>3 DEF TreeInv
    <2>2. CASE i \notin 1..created
      <3>1. i \in (created + 1)..created'
        BY <1>1, <2>2 DEF TreeInv
      <3> QED
        BY <3>1
    <2> QED
      BY <2>1, <2>2
  <1>5. DOMAIN tReq' = Tabs /\ DOMAIN copy' = Tabs /\ Hist(blob')
    OBVIOUS
  <1> QED
    BY <1>1, <1>2, <1>3, <1>4, <1>5 DEF TreeInv, Due, Tree!Ids

\* The first pair of messages is a history with both of them.
LEMMA FirstPairFacts ==
  /\ Hist(Tree!FirstPair)
  /\ \A h \in Tree!Starts : Hist(h) /\ Tree!Stored(h) = {1, 2}
  <1> DEFINE o == <<1, 2>>
             fields == {"order", "parent", "children", "current", "summary", "untimed"}
  <1>1. DOMAIN Tree!FirstPair = fields /\ Tree!FirstPair.order = o
    BY DEF Tree!FirstPair
  <1>4. \A h \in Tree!Starts : DOMAIN h = fields /\ h.order = o
    <2> HIDE DEF o
    <2>1. Tree!FirstPair \in [fields -> {Tree!FirstPair[x] : x \in fields}]
      BY <1>1 DEF Tree!FirstPair
    <2>2. DOMAIN Tree!Stray = fields /\ Tree!Stray.order = o
      BY <1>1 DEF Tree!Stray
    <2> QED
      BY <1>1, <2>2 DEF Tree!Starts
  <1>2. o \in Seq(Nat) /\ Len(o) = 2 /\ o[1] = 1 /\ o[2] = 2
    OBVIOUS
  <1> HIDE DEF o
  <1>3. Tree!Range(o) = {1, 2}
    <2>1. DOMAIN o = 1..2
      BY <1>2
    <2>2. 1..2 = {1, 2}
      OBVIOUS
    <2> QED
      BY <1>2, <2>1, <2>2 DEF Tree!Range
  <1> QED
    BY <1>1, <1>2, <1>3, <1>4 DEF Hist, IsSeq, Tree!Stored

\* The chat begins with a stored pair.
LEMMA TreeStart == Tree!TreeAssumption /\ Tree!Init => TreeInv
  <1> SUFFICES ASSUME Tree!TreeAssumption, Tree!Init PROVE TreeInv
    OBVIOUS
  <1>1. /\ DOMAIN tReq = Tabs /\ DOMAIN copy = Tabs /\ blob \in Tree!Starts /\ created = 2
        /\ \A t \in Tabs : tReq[t] = Tree!Idle /\ copy[t] = blob
    BY DEF Tree!Init
  <1>2. created \in Nat /\ created <= MaxMessages /\ 1..created = {1, 2}
    BY <1>1 DEF Tree!TreeAssumption
  <1>3. Tree!Idle.at # "tx"
    BY DEF Tree!Idle
  <1> QED
    BY <1>1, <1>2, <1>3, FirstPairFacts DEF TreeInv, InOrder

\* A transaction that begins is in order.
LEMMA TxInOrder ==
  ASSUME NEW op \in {"upsert", "merge", "delete", "summary"}, NEW i, NEW p, NEW ch,
         NEW then \in {"parent", "user", "reply", "end"}, NEW u, op # "upsert" => then = "end"
  PROVE  LET r == Tree!Tx(op, i, p, ch, then, u)
         IN /\ InOrder(r) /\ r.at = "begin" /\ r.op = op /\ r.id = i /\ r.then = then /\ r.user = u
  BY FirstPairFacts DEF Tree!Tx, InOrder

\* A pair added to a copy is in it.
LEMMA WithPairAdds ==
  ASSUME NEW h, Hist(h), NEW u \in Nat
  PROVE  LET g == Tree!WithPair(h, u) IN Hist(g) /\ {u, u + 1} \subseteq Tree!Stored(g)
  <1> DEFINE g == Tree!WithPair(h, u)
             q == <<u, u + 1>>
  <1>1. \E a, b, c, d, e : g = [order |-> h.order \o q, parent |-> a, children |-> b, current |-> c,
                              summary |-> d, untimed |-> e]
    BY DEF Tree!WithPair
  <1>2. DOMAIN g = {"order", "parent", "children", "current", "summary", "untimed"} /\ g.order = h.order \o q
    <2>1. PICK a, b, c, d, e : g = [order |-> h.order \o q, parent |-> a, children |-> b, current |-> c,
                                  summary |-> d, untimed |-> e]
      BY <1>1
    <2> HIDE DEF g, q
    <2> QED
      BY <2>1
  <1>3. q \in Seq(Nat) /\ Len(q) = 2 /\ q[1] = u /\ q[2] = u + 1
    OBVIOUS
  <1> HIDE DEF g, q
  <1>4. PICK T : h.order \in Seq(T) /\ q \in Seq(T)
    BY <1>3, CommonSeq DEF Hist, IsSeq
  <1>5. h.order \o q \in Seq(T) /\ Tree!Range(h.order \o q) = Tree!Range(h.order) \cup Tree!Range(q)
    BY <1>4, RangeFacts
  <1>6. {u, u + 1} \subseteq Tree!Range(q)
    <2>1. 1 \in DOMAIN q /\ 2 \in DOMAIN q
      BY <1>3
    <2> QED
      BY <1>3, <2>1 DEF Tree!Range
  <1> QED
    BY <1>2, <1>5, <1>6 DEF Hist, IsSeq, Tree!Stored, g

\* A step that only moves a request on, and forgets nothing it is to store.
LEMMA RequestMoves ==
  ASSUME TreeInv, MaxMessages \in Nat, NEW t \in Tabs, NEW r, InOrder(r),
         tReq' = [tReq EXCEPT ![t] = r], UNCHANGED <<blob, copy, created, deleted, overwritten>>,
         Due(tReq[t], copy[t]) \subseteq Due(r, copy[t]),
         r.at = "tx" => r.seen = blob /\ \A u \in Tabs \ {t} : tReq[u].at # "tx"
  PROVE  TreeInv'
  <1>1. created \in Nat /\ Hist(copy[t]) /\ Hist(blob) /\ DOMAIN tReq = Tabs /\ DOMAIN copy = Tabs
    BY DEF TreeInv
  <1>2. created' \in created..MaxMessages
    BY <1>1 DEF TreeInv
  <1>3. \A i \in (created + 1)..created' : i \in Due(r, copy[t])
    BY <1>1
  <1>4. /\ DOMAIN tReq' = Tabs /\ DOMAIN copy' = Tabs /\ tReq'[t] = r /\ copy'[t] = copy[t]
        /\ \A u \in Tabs \ {t} : tReq'[u] = tReq[u] /\ copy'[u] = copy[u]
    BY <1>1
  <1>5. \A i \in 1..created : i \in Tree!Stored(blob) \cup Due(tReq[t], copy[t])
                               => i \in deleted' \cup overwritten' \cup Tree!Stored(blob') \cup Due(r, copy[t])
    OBVIOUS
  <1> QED
    BY <1>1, <1>2, <1>3, <1>4, <1>5, OneTab

\* What a tab without a request under way starts.
LEMMA StartKeeps ==
  ASSUME TreeInv, MaxMessages \in Nat, NEW t \in Tabs,
         Tree!Send(t) \/ Tree!AddPair(t) \/ Tree!Save(t) \/ \E m \in Tree!Ids : Tree!DeleteMessage(t, m)
  PROVE  TreeInv'
  <1>1. tReq[t] = Tree!Idle
    BY DEF Tree!Send, Tree!AddPair, Tree!Save, Tree!DeleteMessage, Tree!Ready
  <1>2. Due(tReq[t], copy[t]) = {}
    BY <1>1 DEF Due, Tree!Idle
  <1>3. created \in Nat /\ Hist(copy[t]) /\ Hist(blob) /\ DOMAIN tReq = Tabs /\ DOMAIN copy = Tabs
    BY DEF TreeInv
  <1>4. CASE Tree!Send(t)
    <2> DEFINE r == Tree!Tx("upsert", created + 1, copy[t].current, <<>>, "parent", created + 1)
               c == Tree!WithPair(copy[t], created + 1)
    <2>1. /\ tReq' = [tReq EXCEPT ![t] = r] /\ copy' = [copy EXCEPT ![t] = c]
          /\ created' = created + 2 /\ created + 2 <= MaxMessages /\ UNCHANGED <<blob, deleted, overwritten>>
      BY <1>4 DEF Tree!Send
    <2>2. InOrder(r) /\ r.at = "begin" /\ r.op = "upsert" /\ r.id = created + 1 /\ r.then = "parent" /\ r.user = created + 1
      BY TxInOrder
    <2>3. Hist(c)
      BY <1>3, WithPairAdds
    <2> HIDE DEF r, c
    <2>4. created' \in created..MaxMessages
      BY <1>3, <2>1
    <2>5. \A i \in (created + 1)..created' : i \in Due(r, c)
      BY <1>3, <2>1, <2>2 DEF Due, Tree!Ids
    <2>6. /\ DOMAIN tReq' = Tabs /\ DOMAIN copy' = Tabs /\ tReq'[t] = r /\ copy'[t] = c
          /\ \A u \in Tabs \ {t} : tReq'[u] = tReq[u] /\ copy'[u] = copy[u]
      BY <1>3, <2>1
    <2>7. \A i \in 1..created : i \in Tree!Stored(blob) \cup Due(tReq[t], copy[t])
                                 => i \in deleted' \cup overwritten' \cup Tree!Stored(blob') \cup Due(r, c)
      BY <1>2, <2>1
    <2> QED
      BY <1>3, <2>1, <2>2, <2>3, <2>4, <2>5, <2>6, <2>7, OneTab
  <1>5. CASE Tree!AddPair(t)
    <2> DEFINE r == Tree!Tx("merge", Tree!None, Tree!None, <<>>, "end", Tree!None)
               c == Tree!WithPair(copy[t], created + 1)
    <2>1. /\ tReq' = [tReq EXCEPT ![t] = r] /\ copy' = [copy EXCEPT ![t] = c]
          /\ created' = created + 2 /\ created + 2 <= MaxMessages /\ UNCHANGED <<blob, deleted, overwritten>>
      BY <1>5 DEF Tree!AddPair
    <2>2. InOrder(r) /\ r.at = "begin" /\ r.op = "merge"
      BY TxInOrder
    <2>3. Hist(c) /\ {created + 1, (created + 1) + 1} \subseteq Tree!Stored(c)
      BY <1>3, WithPairAdds
    <2> HIDE DEF r, c
    <2>4. created' \in created..MaxMessages
      BY <1>3, <2>1
    <2>5. \A i \in (created + 1)..created' : i \in Due(r, c)
      <3>1. \A i \in (created + 1)..created' : i \in Tree!Ids /\ i \in {created + 1, (created + 1) + 1}
        BY <1>3, <2>1 DEF Tree!Ids
      <3> QED
        BY <2>2, <2>3, <3>1 DEF Due
    <2>6. /\ DOMAIN tReq' = Tabs /\ DOMAIN copy' = Tabs /\ tReq'[t] = r /\ copy'[t] = c
          /\ \A u \in Tabs \ {t} : tReq'[u] = tReq[u] /\ copy'[u] = copy[u]
      BY <1>3, <2>1
    <2>7. \A i \in 1..created : i \in Tree!Stored(blob) \cup Due(tReq[t], copy[t])
                                 => i \in deleted' \cup overwritten' \cup Tree!Stored(blob') \cup Due(r, c)
      BY <1>2, <2>1
    <2> QED
      BY <1>3, <2>1, <2>2, <2>3, <2>4, <2>5, <2>6, <2>7, OneTab
  <1>6. CASE Tree!Save(t)
    <2> DEFINE r == Tree!Tx("merge", Tree!None, Tree!None, <<>>, "end", Tree!None)
    <2>1. tReq' = [tReq EXCEPT ![t] = r] /\ UNCHANGED <<blob, copy, created, deleted, overwritten>>
      BY <1>6 DEF Tree!Save
    <2>2. InOrder(r) /\ r.at = "begin"
      BY TxInOrder
    <2> HIDE DEF r
    <2> QED
      BY <1>2, <2>1, <2>2, RequestMoves
  <1>7. ASSUME NEW m \in Tree!Ids, Tree!DeleteMessage(t, m) PROVE TreeInv'
    <2> DEFINE r == Tree!Tx("delete", m, Tree!None, <<>>, "end", Tree!None)
    <2>1. tReq' = [tReq EXCEPT ![t] = r] /\ UNCHANGED <<blob, copy, created, deleted, overwritten>>
      BY <1>7 DEF Tree!DeleteMessage
    <2>2. InOrder(r) /\ r.at = "begin"
      BY TxInOrder
    <2> HIDE DEF r
    <2> QED
      BY <1>2, <2>1, <2>2, RequestMoves
  <1> QED
    BY <1>4, <1>5, <1>6, <1>7

\* The row is read, and nobody else has it.
LEMMA BeginKeeps ==
  ASSUME TreeInv, MaxMessages \in Nat, Locked = TRUE, NEW t \in Tabs, Tree!Begin(t)
  PROVE  TreeInv'
  <1> DEFINE r == [tReq[t] EXCEPT !.at = "tx", !.seen = blob]
  <1>1. tReq' = [tReq EXCEPT ![t] = r] /\ UNCHANGED <<blob, copy, created, deleted, overwritten>>
    BY DEF Tree!Begin, TreeInv
  <1>2. tReq[t].at = "begin" /\ \A u \in Tabs : tReq[u].at # "tx"
    BY DEF Tree!Begin
  <1>3. InOrder(tReq[t]) /\ tReq[t] # Tree!Idle /\ Hist(blob)
    BY <1>2 DEF TreeInv, Tree!Idle
  <1>4. InOrder(r) /\ r.at = "tx" /\ r.seen = blob /\ r.op = tReq[t].op /\ r.id = tReq[t].id
        /\ r.then = tReq[t].then /\ r.user = tReq[t].user
    BY <1>2, <1>3 DEF InOrder
  <1> HIDE DEF r
  <1>5. Due(tReq[t], copy[t]) \subseteq Due(r, copy[t])
    BY <1>2, <1>4 DEF Due
  <1> QED
    BY <1>1, <1>2, <1>4, <1>5, RequestMoves

\* The rows are written or not; a request that was to store more goes on.
LEMMA RowsKeep ==
  ASSUME TreeInv, MaxMessages \in Nat, NEW t \in Tabs, Tree!WriteRows(t) \/ Tree!RowsFail(t)
  PROVE  TreeInv'
  <1> DEFINE r == Tree!After(tReq[t], IF tReq[t].op = "delete" THEN "rowsOut" ELSE tReq[t].then)
  <1>1. tReq' = [tReq EXCEPT ![t] = r] /\ UNCHANGED <<blob, copy, created, deleted, overwritten>>
    BY DEF Tree!WriteRows, Tree!RowsFail
  <1>2. tReq[t].at = "rows"
    BY DEF Tree!WriteRows, Tree!RowsFail
  <1>3. InOrder(tReq[t]) /\ tReq[t] # Tree!Idle
    BY <1>2 DEF TreeInv, Tree!Idle
  <1>4. InOrder(r) /\ r.at # "tx" /\ Due(tReq[t], copy[t]) \subseteq Due(r, copy[t])
    <2>1. CASE tReq[t].op = "delete"
      <3>1. r = [tReq[t] EXCEPT !.at = "rowsOut"]
        BY <2>1 DEF Tree!After
      <3>2. InOrder(r) /\ r.at = "rowsOut"
        BY <1>3, <2>1, <3>1 DEF InOrder
      <3>3. Due(tReq[t], copy[t]) = {}
        BY <1>2, <2>1 DEF Due
      <3> QED
        BY <3>2, <3>3
    <2>2. CASE tReq[t].op # "delete" /\ tReq[t].then = "end"
      <3>1. r = Tree!Idle /\ r.at = "idle"
        BY <2>2 DEF Tree!After, Tree!Idle
      <3>2. Due(tReq[t], copy[t]) = {}
        BY <1>2, <2>2 DEF Due
      <3> QED
        BY <3>1, <3>2 DEF InOrder
    <2>3. CASE tReq[t].op # "delete" /\ tReq[t].then # "end"
      <3>1. r = [tReq[t] EXCEPT !.at = tReq[t].then]
        BY <2>3 DEF Tree!After
      <3>2. InOrder(r) /\ r.at \in {"parent", "user", "reply"}
        BY <1>2, <1>3, <2>3, <3>1 DEF InOrder
      <3>3. r.op = tReq[t].op /\ r.then = tReq[t].then /\ r.user = tReq[t].user
        BY <1>3, <3>1 DEF InOrder
      <3> QED
        BY <1>2, <3>2, <3>3 DEF Due
    <2> QED
      BY <2>1, <2>2, <2>3
  <1> HIDE DEF r
  <1> QED
    BY <1>1, <1>4, RequestMoves

\* The steps of a send between its transactions.
LEMMA LinksKeep ==
  ASSUME TreeInv, MaxMessages \in Nat, NEW t \in Tabs,
         Tree!LinkParent(t) \/ Tree!LinkReply(t) \/ Tree!StoreReply(t)
  PROVE  TreeInv'
  <1>1. tReq[t].at \in {"parent", "user", "reply"} /\ UNCHANGED <<blob, copy, created, deleted, overwritten>>
    BY DEF Tree!LinkParent, Tree!LinkReply, Tree!StoreReply
  <1>2. InOrder(tReq[t]) /\ tReq[t] # Tree!Idle
    BY <1>1 DEF TreeInv, Tree!Idle
  <1>3. tReq[t].op = "upsert" /\ tReq[t].then # "end"
    BY <1>1, <1>2 DEF InOrder
  <1>4. Due(tReq[t], copy[t]) \subseteq {tReq[t].user + 1} \cap Tree!Ids
    BY <1>1 DEF Due
  <1>5. ASSUME NEW step \in {"user", "reply"}, tReq' = [tReq EXCEPT ![t] = [tReq[t] EXCEPT !.at = step]]
        PROVE  TreeInv'
    <2> DEFINE r == [tReq[t] EXCEPT !.at = step]
    <2>1. InOrder(r) /\ r.at = step /\ r.op = "upsert" /\ r.then # "end" /\ r.user = tReq[t].user
      BY <1>2, <1>3 DEF InOrder
    <2>2. tReq' = [tReq EXCEPT ![t] = r]
      BY <1>5
    <2> HIDE DEF r
    <2>3. Due(tReq[t], copy[t]) \subseteq Due(r, copy[t])
      BY <1>4, <2>1 DEF Due
    <2> QED
      BY <1>1, <2>1, <2>2, <2>3, RequestMoves
  <1>6. ASSUME NEW i, NEW p, NEW ch, NEW then \in {"user", "reply", "end"},
               then = "end" => i = tReq[t].user + 1,
               tReq' = [tReq EXCEPT ![t] = Tree!Tx("upsert", i, p, ch, then, tReq[t].user)]
        PROVE  TreeInv'
    <2> DEFINE r == Tree!Tx("upsert", i, p, ch, then, tReq[t].user)
    <2>1. InOrder(r) /\ r.at = "begin" /\ r.op = "upsert" /\ r.id = i /\ r.then = then /\ r.user = tReq[t].user
      BY TxInOrder
    <2>2. tReq' = [tReq EXCEPT ![t] = r]
      BY <1>6
    <2> HIDE DEF r
    <2>3. Due(tReq[t], copy[t]) \subseteq Due(r, copy[t])
      BY <1>4, <1>6, <2>1 DEF Due
    <2> QED
      BY <1>1, <2>1, <2>2, <2>3, RequestMoves
  <1>7. CASE Tree!LinkParent(t)
    <2>1. CASE tReq' = [tReq EXCEPT ![t] = [tReq[t] EXCEPT !.at = "user"]]
      BY <1>5, <2>1
    <2>2. CASE \E i, ch : tReq' = [tReq EXCEPT ![t] = Tree!Tx("upsert", i, Tree!Unset, ch, "user", tReq[t].user)]
      BY <1>6, <2>2
    <2> QED
      BY <1>7, <2>1, <2>2 DEF Tree!LinkParent
  <1>8. CASE Tree!LinkReply(t)
    <2>1. CASE tReq' = [tReq EXCEPT ![t] = [tReq[t] EXCEPT !.at = "reply"]]
      BY <1>5, <2>1
    <2>2. CASE \E i, ch : tReq' = [tReq EXCEPT ![t] = Tree!Tx("upsert", i, Tree!Unset, ch, "reply", tReq[t].user)]
      BY <1>6, <2>2
    <2> QED
      BY <1>8, <2>1, <2>2 DEF Tree!LinkReply
  <1>9. CASE Tree!StoreReply(t)
    <2>1. tReq' = [tReq EXCEPT ![t] = Tree!Tx("upsert", tReq[t].user + 1, tReq[t].user, <<>>, "end", tReq[t].user)]
      BY <1>9 DEF Tree!StoreReply
    <2> QED
      BY <1>6, <2>1
  <1> QED
    BY <1>7, <1>8, <1>9

\* The history a transaction writes has what the one it read had, less what it
\* deleted, and what the request was to store.
LEMMA ResultKeeps ==
  ASSUME TreeInv, NEW t \in Tabs, tReq[t].at = "tx"
  PROVE  LET r == tReq[t]
             gone == IF r.op = "delete" THEN Tree!Removed(r.seen, r.id) ELSE {}
             g == Tree!Result(t)
         IN /\ Hist(g)
            /\ (Tree!Stored(r.seen) \cap Tree!Ids) \ gone \subseteq Tree!Stored(g)
            /\ r.op = "upsert" => r.id \in Tree!Stored(g)
            /\ r.op = "merge" => Tree!Stored(copy[t]) \cap Tree!Ids \subseteq Tree!Stored(g)
  <1> DEFINE r == tReq[t]
             g == Tree!Result(t)
  <1>1. InOrder(r) /\ r # Tree!Idle /\ Hist(copy[t])
    BY DEF TreeInv, Tree!Idle
  <1>2. Hist(r.seen) /\ r.op \in {"upsert", "merge", "delete", "summary"}
    BY <1>1 DEF InOrder
  <1>3. /\ Hist(Tree!Repair(r.seen)) /\ Tree!Stored(Tree!Repair(r.seen)) = Tree!Stored(r.seen)
        /\ Tree!Repair(r.seen).children = r.seen.children
    BY <1>2, RepairKeeps
  <1>4. CASE r.op = "upsert"
    <2>1. g = Tree!Upsert(Tree!Repair(r.seen), r.id, r.parent, r.children)
      BY <1>4 DEF Tree!Result
    <2>2. Hist(g) /\ Tree!Stored(g) = Tree!Stored(Tree!Repair(r.seen)) \cup {r.id}
      BY <1>3, <2>1, UpsertAdds
    <2> QED
      BY <1>3, <1>4, <2>2
  <1>7. CASE r.op = "summary"
    <2>1. g = Tree!Summarise(Tree!Repair(r.seen), r.id)
      BY <1>7 DEF Tree!Result
    <2>2. Hist(g) /\ Tree!Stored(g) = Tree!Stored(Tree!Repair(r.seen)) \cup {r.id}
      BY <1>3, <2>1, SummariseAdds
    <2> QED
      BY <1>3, <1>7, <2>2
  <1>5. CASE r.op = "merge"
    <2>1. g = Tree!Merge(r.seen, copy[t])
      BY <1>5 DEF Tree!Result
    <2>2. Hist(g) /\ Tree!Stored(r.seen) \cup (Tree!Stored(copy[t]) \cap Tree!Ids) \subseteq Tree!Stored(g)
      BY <1>1, <1>2, <2>1, MergeKeeps
    <2> QED
      BY <1>5, <2>2
  <1>6. CASE r.op = "delete"
    <2>1. g = Tree!Delete(Tree!Repair(r.seen), r.id)
      BY <1>6 DEF Tree!Result
    <2>2. Hist(g) /\ (Tree!Stored(Tree!Repair(r.seen)) \cap Tree!Ids) \ Tree!Removed(Tree!Repair(r.seen), r.id) \subseteq Tree!Stored(g)
      BY <1>3, <2>1, DeleteKeeps
    <2>3. Tree!Removed(Tree!Repair(r.seen), r.id) = Tree!Removed(r.seen, r.id)
      BY <1>3 DEF Tree!Removed
    <2> QED
      BY <1>3, <1>6, <2>2, <2>3
  <1> QED
    BY <1>2, <1>4, <1>5, <1>6, <1>7

\* A transaction commits: the history it read is still the stored one.
LEMMA CommitKeeps ==
  ASSUME TreeInv, MaxMessages \in Nat, NEW t \in Tabs, Tree!Commit(t)
  PROVE  TreeInv'
  <1> DEFINE q == tReq[t]
             g == Tree!Result(t)
             gone == IF q.op = "delete" THEN Tree!Removed(q.seen, q.id) ELSE {}
             r == tReq'[t]
             c == copy'[t]
  <1>1. q.at = "tx" /\ blob' = g /\ deleted' = deleted \cup gone /\ UNCHANGED <<created, overwritten>>
    BY DEF Tree!Commit
  <1>2. DOMAIN tReq = Tabs /\ DOMAIN copy = Tabs /\ InOrder(q) /\ Hist(copy[t]) /\ created \in Nat /\ created <= MaxMessages
    BY DEF TreeInv
  <1>3. q.seen = blob /\ \A u \in Tabs \ {t} : tReq[u].at # "tx"
    BY <1>1 DEF TreeInv
  <1>4. /\ Hist(g) /\ (Tree!Stored(blob) \cap Tree!Ids) \ gone \subseteq Tree!Stored(g)
        /\ q.op = "upsert" => q.id \in Tree!Stored(g)
        /\ q.op = "merge" => Tree!Stored(copy[t]) \cap Tree!Ids \subseteq Tree!Stored(g)
    BY <1>1, <1>3, ResultKeeps
  <1>5. \/ /\ q.op = "delete" /\ tReq' = [tReq EXCEPT ![t] = Tree!Idle] /\ copy' = [copy EXCEPT ![t] = g]
        \/ /\ \E ids : tReq' = [tReq EXCEPT ![t] =
                    [q EXCEPT !.at = "rows", !.seen = g, !.gone = gone, !.ids = ids]]
           /\ copy' = copy
    BY DEF Tree!Commit
  <1> HIDE DEF gone, g
  <1>6. /\ DOMAIN tReq' = Tabs /\ DOMAIN copy' = Tabs
        /\ \A u \in Tabs \ {t} : tReq'[u] = tReq[u] /\ copy'[u] = copy[u]
    BY <1>2, <1>5
  <1>7. /\ InOrder(r) /\ Hist(c) /\ r.at # "tx"
        /\ q.op = "upsert" /\ q.then # "end" => r.at = "rows" /\ r.op = "upsert" /\ r.then # "end" /\ r.user = q.user
    <2>1. CASE q.op = "delete" /\ tReq' = [tReq EXCEPT ![t] = Tree!Idle] /\ copy' = [copy EXCEPT ![t] = g]
      <3>1. r = Tree!Idle /\ c = g
        BY <1>2, <2>1
      <3> QED
        BY <1>4, <2>1, <3>1 DEF InOrder, Tree!Idle
    <2>2. ASSUME NEW ids, copy' = copy,
                 tReq' = [tReq EXCEPT ![t] = [q EXCEPT !.at = "rows", !.seen = g, !.gone = gone, !.ids = ids]]
          PROVE  /\ InOrder(r) /\ Hist(c) /\ r.at # "tx"
                 /\ q.op = "upsert" /\ q.then # "end" => r.at = "rows" /\ r.op = "upsert" /\ r.then # "end" /\ r.user = q.user
      <3>1. r = [q EXCEPT !.at = "rows", !.seen = g, !.gone = gone, !.ids = ids] /\ c = copy[t]
        BY <1>2, <2>2
      <3>2. q # Tree!Idle
        BY <1>1 DEF Tree!Idle
      <3> HIDE DEF r, c, q
      <3>3. DOMAIN r = DOMAIN q /\ r.at = "rows" /\ r.seen = g /\ r.op = q.op /\ r.then = q.then /\ r.user = q.user
        BY <1>2, <3>1, <3>2 DEF InOrder
      <3>4. InOrder(r)
        BY <1>1, <1>2, <1>4, <3>2, <3>3 DEF InOrder
      <3> QED
        BY <1>2, <3>1, <3>3, <3>4
    <2> QED
      BY <1>5, <2>1, <2>2
  <1>8. \A i \in 1..created : i \in Tree!Stored(blob) \cup Due(q, copy[t])
                               => i \in deleted' \cup overwritten' \cup Tree!Stored(blob') \cup Due(r, c)
    <2> SUFFICES ASSUME NEW i \in 1..created, i \in Tree!Stored(blob) \cup Due(q, copy[t])
                 PROVE  i \in deleted' \cup overwritten' \cup Tree!Stored(blob') \cup Due(r, c)
      OBVIOUS
    <2>1. i \in Tree!Ids
      BY <1>2 DEF Tree!Ids
    <2>2. CASE i \in Tree!Stored(blob)
      BY <1>1, <1>4, <2>1, <2>2
    <2>3. CASE i \in Due(q, copy[t])
      <3>1. CASE q.op = "merge" /\ i \in Tree!Stored(copy[t])
        BY <1>1, <1>4, <2>1, <3>1
      <3>2. CASE q.op = "upsert" /\ i = q.id
        BY <1>1, <1>4, <3>2
      <3>3. CASE q.op = "upsert" /\ q.then # "end" /\ i = q.user + 1
        BY <1>7, <2>1, <3>3 DEF Due
      <3> QED
        BY <2>3, <3>1, <3>2, <3>3 DEF Due
    <2> QED
      BY <2>2, <2>3
  <1>9. created' \in created..MaxMessages /\ \A i \in (created + 1)..created' : i \in Due(r, c)
    BY <1>1, <1>2
  <1> HIDE DEF r, c, q
  <1>10. tReq'[t] = r /\ copy'[t] = c /\ q = tReq[t] /\ Hist(blob') /\ deleted \subseteq deleted' /\ overwritten \subseteq overwritten'
    BY <1>1, <1>4 DEF r, c, q
  <1> QED
    BY <1>3, <1>6, <1>7, <1>8, <1>9, <1>10, OneTab

\* Steps of a tab that change its copy or heal the rows.
LEMMA OthersKeep ==
  ASSUME TreeInv, MaxMessages \in Nat, Locked = TRUE, NEW t \in Tabs,
         Tree!RemoveRows(t) \/ Tree!Walk(t)
  PROVE  TreeInv'
  <1>1. DOMAIN tReq = Tabs /\ DOMAIN copy = Tabs /\ InOrder(tReq[t]) /\ Hist(copy[t]) /\ Hist(blob)
        /\ created \in Nat /\ created <= MaxMessages
    BY DEF TreeInv
  <1>2. UNCHANGED <<created, deleted, overwritten>>
    BY DEF Tree!RemoveRows, Tree!Walk
  <1>3. created' \in created..MaxMessages /\ (created + 1)..created' = {}
    BY <1>1, <1>2
  <1>5. CASE Tree!RemoveRows(t)
    <2>1. /\ tReq[t].at = "rowsOut" /\ UNCHANGED blob
          /\ copy' = [copy EXCEPT ![t] = tReq[t].seen] /\ tReq' = [tReq EXCEPT ![t] = Tree!Idle]
      BY <1>5 DEF Tree!RemoveRows
    <2>2. tReq[t] # Tree!Idle
      BY <2>1 DEF Tree!Idle
    <2>3. Hist(tReq[t].seen) /\ tReq[t].op = "delete"
      BY <1>1, <2>1, <2>2 DEF InOrder
    <2>4. /\ DOMAIN tReq' = Tabs /\ DOMAIN copy' = Tabs /\ tReq'[t] = Tree!Idle /\ copy'[t] = tReq[t].seen
          /\ \A u \in Tabs \ {t} : tReq'[u] = tReq[u] /\ copy'[u] = copy[u]
      BY <1>1, <2>1
    <2>5. Due(tReq[t], copy[t]) = {}
      BY <2>1, <2>3 DEF Due
    <2>6. \A i \in 1..created : i \in Tree!Stored(blob) \cup Due(tReq[t], copy[t])
                                 => i \in deleted' \cup overwritten' \cup Tree!Stored(blob') \cup Due(Tree!Idle, tReq[t].seen)
      BY <1>2, <2>1, <2>5
    <2>7. InOrder(Tree!Idle) /\ Tree!Idle.at # "tx"
      BY DEF InOrder, Tree!Idle
    <2> QED
      BY <1>1, <1>2, <1>3, <2>1, <2>3, <2>4, <2>6, <2>7, OneTab
  <1>6. CASE Tree!Walk(t)
    <2> DEFINE r == [Tree!Tx("heal", Tree!None, Tree!None, <<>>, "end", Tree!None)
                       EXCEPT !.at = "rows", !.seen = blob, !.ids = Tree!Missing]
    <2>1. tReq[t] = Tree!Idle /\ tReq' = [tReq EXCEPT ![t] = r] /\ UNCHANGED <<blob, copy, created, deleted, overwritten>>
      BY <1>6 DEF Tree!Walk
    <2>2. InOrder(r) /\ r.at = "rows"
      BY <1>1 DEF InOrder, Tree!Tx
    <2> HIDE DEF r
    <2>3. Due(tReq[t], copy[t]) = {}
      BY <2>1 DEF Due, Tree!Idle
    <2> QED
      BY <2>1, <2>2, <2>3, RequestMoves
  <1> QED
    BY <1>5, <1>6

\* What a load leaves behind: the copy it shows, and no request or a compaction.
LEMMA LoadedFacts ==
  ASSUME NEW t \in Tabs, NEW h, NEW then, Hist(h), Hist(copy[t]), DOMAIN tReq = Tabs, DOMAIN copy = Tabs,
         Tree!Loaded(t, h, then)
  PROVE  /\ DOMAIN tReq' = Tabs /\ DOMAIN copy' = Tabs
         /\ \A u \in Tabs \ {t} : tReq'[u] = tReq[u] /\ copy'[u] = copy[u]
         /\ Hist(copy'[t]) /\ InOrder(tReq'[t]) /\ tReq'[t].at # "tx"
  <1> DEFINE r == Tree!Tx("summary", h.current, Tree!None, <<>>, "end", Tree!None)
  <1>1. InOrder(r) /\ r.at = "begin"
    BY TxInOrder
  <1>2. InOrder(Tree!Idle) /\ Tree!Idle.at # "tx"
    BY DEF InOrder, Tree!Idle
  <1>3. tReq' = [tReq EXCEPT ![t] = r] \/ tReq' = [tReq EXCEPT ![t] = Tree!Idle]
    BY DEF Tree!Loaded
  <1>4. copy' = [copy EXCEPT ![t] = h] \/ copy' = [copy EXCEPT ![t] = copy[t]]
    BY DEF Tree!Loaded
  <1> HIDE DEF r
  <1> QED
    BY <1>1, <1>2, <1>3, <1>4

\* A load reads the chat, and writes it if it repaired it: what it overwrites is
\* recorded.
LEMMA LoadKeeps ==
  ASSUME TreeInv, MaxMessages \in Nat, Locked = TRUE, NEW t \in Tabs,
         Tree!LoadWrite(t) \/ \E then \in {"show", "compact"} : Tree!Load(t, then)
  PROVE  TreeInv'
  <1>1. DOMAIN tReq = Tabs /\ DOMAIN copy = Tabs /\ InOrder(tReq[t]) /\ Hist(copy[t]) /\ Hist(blob)
        /\ created \in Nat /\ created <= MaxMessages
    BY DEF TreeInv
  <1>2. UNCHANGED <<created, deleted>>
    BY DEF Tree!LoadWrite, Tree!Load
  <1>3. created' \in created..MaxMessages /\ (created + 1)..created' = {}
    BY <1>1, <1>2
  <1>4. Due(tReq[t], copy[t]) = {}
    <2>1. CASE tReq[t] = Tree!Idle
      BY <2>1 DEF Due, Tree!Idle
    <2>2. CASE tReq[t].at = "repaired"
      <3>1. tReq[t] # Tree!Idle
        BY <2>2 DEF Tree!Idle
      <3>2. tReq[t].op = "load"
        BY <1>1, <2>2, <3>1 DEF InOrder
      <3> QED
        BY <2>2, <3>2 DEF Due
    <2> QED
      BY <2>1, <2>2 DEF Tree!Load, Tree!LoadWrite, Tree!Ready
  <1>5. CASE Tree!LoadWrite(t)
    <2> DEFINE r == tReq[t]
    <2>1. /\ r.at = "repaired" /\ \A u \in Tabs : tReq[u].at # "tx"
          /\ blob' = r.seen /\ Tree!Loaded(t, r.seen, r.then)
          /\ overwritten' = overwritten \cup (Tree!Stored(blob) \ Tree!Stored(r.seen))
      BY <1>5 DEF Tree!LoadWrite
    <2>2. Hist(r.seen)
      <3>1. r # Tree!Idle
        BY <2>1 DEF Tree!Idle
      <3> QED
        BY <1>1, <3>1 DEF InOrder
    <2>3. /\ DOMAIN tReq' = Tabs /\ DOMAIN copy' = Tabs
          /\ \A u \in Tabs \ {t} : tReq'[u] = tReq[u] /\ copy'[u] = copy[u]
          /\ Hist(copy'[t]) /\ InOrder(tReq'[t]) /\ tReq'[t].at # "tx"
      BY <1>1, <2>1, <2>2, LoadedFacts
    <2>4. \A i \in 1..created : i \in Tree!Stored(blob) \cup Due(tReq[t], copy[t])
                                 => i \in deleted' \cup overwritten' \cup Tree!Stored(blob') \cup Due(tReq'[t], copy'[t])
      BY <1>4, <2>1
    <2> QED
      BY <1>1, <1>2, <1>3, <2>1, <2>2, <2>3, <2>4, OneTab
  <1>6. ASSUME NEW then \in {"show", "compact"}, Tree!Load(t, then) PROVE TreeInv'
    <2>1. UNCHANGED <<blob, overwritten>>
      BY <1>6 DEF Tree!Load
    <2>2. CASE Tree!Loaded(t, blob, then)
      <3>1. /\ DOMAIN tReq' = Tabs /\ DOMAIN copy' = Tabs
            /\ \A u \in Tabs \ {t} : tReq'[u] = tReq[u] /\ copy'[u] = copy[u]
            /\ Hist(copy'[t]) /\ InOrder(tReq'[t]) /\ tReq'[t].at # "tx"
        BY <1>1, <2>2, LoadedFacts
      <3>2. \A i \in 1..created : i \in Tree!Stored(blob) \cup Due(tReq[t], copy[t])
                                   => i \in deleted' \cup overwritten' \cup Tree!Stored(blob') \cup Due(tReq'[t], copy'[t])
        BY <1>4, <2>1
      <3> QED
        BY <1>1, <1>2, <1>3, <2>1, <3>1, <3>2, OneTab
    <2>3. CASE ~(Tree!Repair(blob) = blob)
      <3> DEFINE r == [Tree!Tx("load", Tree!None, Tree!None, <<>>, then, Tree!None)
                         EXCEPT !.at = "repaired", !.seen = Tree!Repair(blob)]
      <3>1. tReq' = [tReq EXCEPT ![t] = r] /\ copy' = copy
        BY <1>6, <2>3 DEF Tree!Load
      <3>2. Hist(Tree!Repair(blob))
        BY <1>1, RepairKeeps
      <3>3. InOrder(r) /\ r.at = "repaired"
        BY <3>2 DEF InOrder, Tree!Tx
      <3> HIDE DEF r
      <3> QED
        BY <1>2, <1>4, <2>1, <3>1, <3>3, RequestMoves
    <2> QED
      BY <1>6, <2>2, <2>3 DEF Tree!Load
  <1> QED
    BY <1>5, <1>6

\* The invariant of the tree is inductive where a transaction locks the row.
LEMMA TreeStep ==
  ASSUME TreeInv, MaxMessages \in Nat, Locked = TRUE, [Tree!Next]_(Tree!vars)
  PROVE  TreeInv'
  <1>1. CASE UNCHANGED Tree!vars
    BY <1>1 DEF Tree!vars, TreeInv, Due, InOrder, Hist, IsSeq, Tree!Stored, Tree!Range, Tree!Idle, Tree!Ids
  <1>2. ASSUME NEW t \in Tabs,
               \/ \E then \in {"show", "compact"} : Tree!Load(t, then)
               \/ Tree!Send(t) \/ Tree!AddPair(t) \/ Tree!Save(t) \/ Tree!RowsFail(t) \/ Tree!Walk(t)
               \/ Tree!Step(t) \/ \E m \in Tree!Ids : Tree!DeleteMessage(t, m)
        PROVE  TreeInv'
    <2>1. CASE Tree!RemoveRows(t) \/ Tree!Walk(t)
      BY <2>1, OthersKeep
    <2>7. CASE Tree!LoadWrite(t) \/ \E then \in {"show", "compact"} : Tree!Load(t, then)
      BY <2>7, LoadKeeps
    <2>2. CASE Tree!Send(t) \/ Tree!AddPair(t) \/ Tree!Save(t) \/ \E m \in Tree!Ids : Tree!DeleteMessage(t, m)
      BY <2>2, StartKeeps
    <2>3. CASE Tree!RowsFail(t) \/ Tree!WriteRows(t)
      BY <2>3, RowsKeep
    <2>4. CASE Tree!Begin(t)
      BY <2>4, BeginKeeps
    <2>5. CASE Tree!Commit(t)
      BY <2>5, CommitKeeps
    <2>6. CASE Tree!LinkParent(t) \/ Tree!LinkReply(t) \/ Tree!StoreReply(t)
      BY <2>6, LinksKeep
    <2> QED
      BY <1>2, <2>1, <2>2, <2>3, <2>4, <2>5, <2>6, <2>7 DEF Tree!Step
  <1> QED
    BY <1>1, <1>2 DEF Tree!Next

\* Where a transaction locks the chat row, no message is lost: for any number of
\* tabs, messages, requests and failed row writes, one that was made and that no
\* request deleted and no load overwrote with the history it had repaired is in
\* the stored history whenever no request is under way.
THEOREM MessagesAreKept == Tree!TreeAssumption /\ Locked = TRUE /\ Tree!Spec => []NothingDropped
  <1>1. TreeInv => NothingDropped
    <2> SUFFICES ASSUME TreeInv, Tree!Quiet, NEW i \in (1..created) \ (deleted \cup overwritten) PROVE i \in Tree!Stored(blob)
      BY DEF NothingDropped, Tree!NothingDropped
    <2>1. \A t \in Tabs : Due(tReq[t], copy[t]) = {}
      BY DEF Tree!Quiet, Due, Tree!Idle
    <2> QED
      BY <2>1 DEF TreeInv
  <1> SUFFICES ASSUME Tree!TreeAssumption, Locked = TRUE PROVE Tree!Spec => []NothingDropped
    OBVIOUS
  <1>2. MaxMessages \in Nat
    BY DEF Tree!TreeAssumption
  <1>3. Tree!Init => TreeInv
    BY TreeStart
  <1>4. TreeInv /\ [Tree!Next]_(Tree!vars) => TreeInv'
    BY <1>2, TreeStep
  <1> QED
    BY <1>1, <1>3, <1>4, PTL DEF Tree!Spec

-----------------------------------------------------------------------------
(* The results of background sub-agents *)

\* Steps of a sub-agent that has not put its result into the chat.
Early == {"working", "deliverRow", "store"}

\* The sub-agents whose results wait in the chat.
Awaiting == {r.agent : r \in Tree!Range(waiting)}

\* a is about to start the turn that answers d.
Hands(a, d) == pc[a] = "call" /\ d \in batch[a]

\* A result is given to one turn at most; and unless a completion has failed to start,
\* one that was put into the chat waits there, is about to be given to a turn or
\* has been.
ResultsAreKept ==
    \A d \in Agents :
        /\ answers[d] <= 1
        /\ rFaults = 0 => \/ pc[d] \in Early \/ d \in Awaiting \/ answers[d] = 1
                          \/ \E a \in Results!Actors : Hands(a, d)

ResultTypes ==
    /\ pc \in [Results!Actors -> Results!Steps]
    /\ waiting \in Seq([agent : Agents, parent : Nat]) /\ finished \in Nat
    /\ batch \in [Results!Actors -> SUBSET Agents]
    /\ answers \in [Agents -> Nat] /\ rFaults \in Nat
    /\ \A t \in running : t \in Results!Turns /\ pc[t] = "running"

\* On PostgreSQL, whoever is between reading the chat and the commit has its row,
\* so what one is about to take still waits.
RowIsHeld ==
    /\ \A a \in Results!Actors : pc[a] \in {"store", "commit"} <=> row = a
    /\ \A a \in Results!Actors : pc[a] = "commit" => batch[a] \subseteq Awaiting

\* A result is in one place only.
OnePlace ==
    \A d \in Agents :
        /\ d \in Awaiting => pc[d] \notin Early
        /\ answers[d] # 0 => pc[d] \notin Early /\ d \notin Awaiting
        /\ \A a \in Results!Actors : Hands(a, d) =>
             /\ pc[d] \notin Early /\ d \notin Awaiting /\ answers[d] = 0
             /\ \A b \in Results!Actors : Hands(b, d) => b = a

ResultInv == ResultTypes /\ RowIsHeld /\ OnePlace /\ ResultsAreKept

\* Sub-agents and turns are different actors, and nobody is neither.
LEMMA ActorFacts ==
  ASSUME Results!ResultAssumption
  PROVE  /\ Agents \subseteq Results!Actors /\ Results!Turns \subseteq Results!Actors
         /\ Results!Nobody \notin Results!Actors
         /\ \A d \in Agents : d \notin Results!Turns
  BY DEF Results!ResultAssumption, Results!Actors, Results!Turns, Results!Nobody

\* A result more in a sequence of them.
LEMMA OneMore ==
  ASSUME NEW T, NEW s \in Seq(T), NEW e
  PROVE  Tree!Range(Append(s, e)) = Tree!Range(s) \cup {e}
  <1>1. Append(s, e) \in Seq(T \cup {e}) /\ Tree!Range(Append(s, e)) = Tree!Range(s) \cup {e}
    BY RangeFacts, Zenon
  <1> QED
    BY <1>1

\* The steps of a waiting sequence: a result more, a batch less, the first batch.
LEMMA WaitingMoves ==
  ASSUME ResultTypes
  PROVE  /\ \A d \in Agents, k \in Nat :
              /\ Append(waiting, [agent |-> d, parent |-> k]) \in Seq([agent : Agents, parent : Nat])
              /\ {r.agent : r \in Tree!Range(Append(waiting, [agent |-> d, parent |-> k]))} = Awaiting \cup {d}
         /\ \A B \in SUBSET Agents :
              /\ Results!Only(waiting, [agent : Agents \ B, parent : Nat]) \in Seq([agent : Agents, parent : Nat])
              /\ {r.agent : r \in Tree!Range(Results!Only(waiting, [agent : Agents \ B, parent : Nat]))} = Awaiting \ B
         /\ Results!FirstBatch \subseteq Awaiting /\ Awaiting \subseteq Agents
  <1> DEFINE R == [agent : Agents, parent : Nat]
  <1>1. waiting \in Seq(R)
    BY DEF ResultTypes
  <1>2. ASSUME NEW d \in Agents, NEW k \in Nat
        PROVE  /\ Append(waiting, [agent |-> d, parent |-> k]) \in Seq(R)
               /\ {r.agent : r \in Tree!Range(Append(waiting, [agent |-> d, parent |-> k]))} = Awaiting \cup {d}
    <2> DEFINE e == [agent |-> d, parent |-> k]
    <2>1. e \in R /\ e.agent = d
      OBVIOUS
    <2> HIDE DEF e, R
    <2>2. Append(waiting, e) \in Seq(R)
      BY <1>1, <2>1
    <2>3. Tree!Range(Append(waiting, e)) = Tree!Range(waiting) \cup {e}
      BY <1>1, OneMore
    <2>4. {r.agent : r \in Tree!Range(Append(waiting, e))} = Awaiting \cup {d}
      BY <2>1, <2>3 DEF Awaiting
    <2> QED
      BY <2>2, <2>4 DEF e
  <1>3. \A r \in Tree!Range(waiting) : r \in R
    <2> HIDE DEF R
    <2>1. \A k \in DOMAIN waiting : waiting[k] \in R
      BY <1>1
    <2> QED
      BY <2>1, Zenon DEF Tree!Range
  <1>4. ASSUME NEW B \in SUBSET Agents
        PROVE  /\ Results!Only(waiting, [agent : Agents \ B, parent : Nat]) \in Seq(R)
               /\ {r.agent : r \in Tree!Range(Results!Only(waiting, [agent : Agents \ B, parent : Nat]))} = Awaiting \ B
    <2> DEFINE S == [agent : Agents \ B, parent : Nat]
    <2>1. Results!Only(waiting, S) = Tree!Only(waiting, S)
      BY DEF Results!Only, Tree!Only
    <2>2. \A r \in R : r \in S <=> r.agent \notin B
      OBVIOUS
    <2> HIDE DEF S, R
    <2>3. Tree!Only(waiting, S) \in Seq(R) /\ Tree!Range(Tree!Only(waiting, S)) = Tree!Range(waiting) \cap S
      BY <1>1, OnlyFacts
    <2>4. {r.agent : r \in Tree!Range(waiting) \cap S} = Awaiting \ B
      BY <1>3, <2>2 DEF Awaiting
    <2> QED
      BY <2>1, <2>3, <2>4 DEF S
  <1>5. Results!FirstBatch \subseteq Awaiting
    BY DEF Results!FirstBatch, Awaiting, Tree!Range
  <1>6. Awaiting \subseteq Agents
    BY <1>3 DEF Awaiting
  <1> QED
    BY <1>2, <1>4, <1>5, <1>6

\* A step that puts no result elsewhere.
LEMMA ResultsStay ==
  ASSUME ResultInv, UNCHANGED <<waiting, answers, rFaults>>,
         \A a \in Results!Actors : /\ pc'[a] = "call" <=> pc[a] = "call"
                                   /\ pc[a] = "call" => batch'[a] = batch[a],
         \A d \in Agents : pc'[d] \in Early <=> pc[d] \in Early
  PROVE  OnePlace' /\ ResultsAreKept' /\ Awaiting' = Awaiting
  <1>1. Awaiting' = Awaiting
    BY DEF Awaiting, Tree!Range
  <1>2. \A a \in Results!Actors, d \in Agents : Hands(a, d)' <=> Hands(a, d)
    BY DEF Hands
  <1>3. OnePlace'
    BY <1>1, <1>2 DEF ResultInv, OnePlace
  <1>4. ResultsAreKept'
    BY <1>1, <1>2 DEF ResultInv, ResultsAreKept
  <1> QED
    BY <1>1, <1>3, <1>4

\* Steps that leave all results where they are.
LEMMA QuietSteps ==
  ASSUME Results!ResultAssumption, Postgres = TRUE, ResultInv, NEW a \in Results!Actors,
         \/ \E t \in Results!Turns : Results!EndTurn(t) \/ \E w \in Workers : Results!Prompt(t, w)
         \/ a \in Agents /\ (Results!Deliver(a) \/ Results!ReadParent(a))
         \/ Results!Check(a) \/ Results!AwaitIdle(a) \/ Results!TakeLock(a)
         \/ Results!LookAgain(a) \/ Results!ReadResults(a)
  PROVE  ResultInv'
  <1>1. ResultTypes /\ RowIsHeld
    BY DEF ResultInv
  <1>2. UNCHANGED <<waiting, answers, rFaults>>
    BY DEF Results!Prompt, Results!EndTurn, Results!Deliver, Results!ReadParent, Results!Check,
           Results!AwaitIdle, Results!TakeLock, Results!LookAgain, Results!ReadResults
  <1>3. PICK x \in Results!Actors, s \in Results!Steps :
          /\ pc' = [pc EXCEPT ![x] = s] /\ pc[x] # "call" /\ s # "call"
          /\ x \in Agents => (pc[x] \in Early <=> s \in Early)
          /\ \/ row' = row /\ batch' = batch /\ pc[x] \notin {"store", "commit"} /\ s \notin {"store", "commit"}
             \/ row = Results!Nobody /\ row' = x /\ batch' = batch /\ s = "store"
             \/ row = Results!Nobody /\ row' = x /\ batch' = [batch EXCEPT ![x] = Results!FirstBatch] /\ s = "commit"
          /\ finished' \in Nat
          /\ \A u \in running' : u \in Results!Turns /\ ((u \in running /\ u # x) \/ (u = x /\ s = "running"))
    <2> USE DEF Results!Goto, Results!Steps, Early
    <2>0. /\ \A t \in Results!Turns : t \in Results!Actors /\ t \notin Agents
          /\ finished \in Nat /\ \A u \in running : u \in Results!Turns /\ pc[u] = "running"
      BY <1>1, ActorFacts DEF ResultTypes
    <2>1. ASSUME NEW t \in Results!Turns, NEW w \in Workers, Results!Prompt(t, w)
          PROVE  /\ pc' = [pc EXCEPT ![t] = "running"] /\ pc[t] = "new" /\ row' = row /\ batch' = batch
                 /\ finished' = finished /\ running' = running \cup {t}
      BY <2>1 DEF Results!Prompt, Results!StartTurn
    <2>2. ASSUME NEW t \in Results!Turns, Results!EndTurn(t)
          PROVE  /\ pc' = [pc EXCEPT ![t] = "check"] /\ pc[t] = "running" /\ row' = row /\ batch' = batch
                 /\ finished' = finished + 1 /\ running' = running \ {t}
      BY <2>0, <2>2 DEF Results!EndTurn
    <2>3. CASE \E t \in Results!Turns, w \in Workers : Results!Prompt(t, w)
      BY <2>0, <2>1, <2>3
    <2>4. CASE \E t \in Results!Turns : Results!EndTurn(t)
      BY <2>0, <2>2, <2>4
    <2>5. CASE a \in Agents /\ (Results!Deliver(a) \/ Results!ReadParent(a))
      BY <2>0, <2>5 DEF Results!Deliver, Results!ReadParent, Results!LockRow
    <2>6. CASE Results!Check(a) \/ Results!AwaitIdle(a) \/ Results!TakeLock(a) \/ Results!LookAgain(a)
      BY <2>0, <2>6 DEF Results!Check, Results!AwaitIdle, Results!TakeLock, Results!LookAgain
    <2>7. CASE Results!ReadResults(a)
      BY <2>0, <2>7 DEF Results!ReadResults, Results!LockRow
    <2> QED
      BY <2>3, <2>4, <2>5, <2>6, <2>7
  <1>4. pc \in [Results!Actors -> Results!Steps] /\ batch \in [Results!Actors -> SUBSET Agents]
    BY <1>1 DEF ResultTypes
  <1>5. pc'[x] = s /\ \A y \in Results!Actors : y # x => pc'[y] = pc[y] /\ batch'[y] = batch[y]
    BY <1>3, <1>4
  <1>6. Results!FirstBatch \subseteq Awaiting /\ Awaiting \subseteq Agents
    BY <1>1, WaitingMoves
  <1>7. OnePlace' /\ ResultsAreKept' /\ Awaiting' = Awaiting
    <2>1. \A y \in Results!Actors : /\ pc'[y] = "call" <=> pc[y] = "call"
                                    /\ pc[y] = "call" => batch'[y] = batch[y]
      BY <1>3, <1>5
    <2>2. \A d \in Agents : pc'[d] \in Early <=> pc[d] \in Early
      BY <1>3, <1>5, ActorFacts
    <2> QED
      BY <1>2, <2>1, <2>2, ResultsStay
  <1>8. ResultTypes'
    <2>1. pc' \in [Results!Actors -> Results!Steps] /\ batch' \in [Results!Actors -> SUBSET Agents]
      BY <1>3, <1>4, <1>6
    <2>2. \A u \in running' : u \in Results!Turns /\ pc'[u] = "running"
      BY <1>1, <1>3, <1>5, ActorFacts DEF ResultTypes
    <2> QED
      BY <1>1, <1>2, <1>3, <2>1, <2>2 DEF ResultTypes
  <1>9. RowIsHeld'
    <2>1. \A y \in Results!Actors : pc'[y] \in {"store", "commit"} <=> row' = y
      BY <1>1, <1>3, <1>5, ActorFacts DEF RowIsHeld
    <2>2. \A y \in Results!Actors : pc'[y] = "commit" => batch'[y] \subseteq Awaiting
      BY <1>1, <1>3, <1>4, <1>5, <1>6 DEF RowIsHeld
    <2> QED
      BY <1>7, <2>1, <2>2 DEF RowIsHeld
  <1> QED
    BY <1>7, <1>8, <1>9 DEF ResultInv

\* A result is put into the chat.
LEMMA StoreKeeps ==
  ASSUME Results!ResultAssumption, ResultInv, NEW d \in Agents, Results!Store(d)
  PROVE  ResultInv'
  <1>1. ResultTypes /\ RowIsHeld /\ OnePlace /\ ResultsAreKept
    BY DEF ResultInv
  <1>2. /\ pc[d] = "store" /\ waiting' = Append(waiting, [agent |-> d, parent |-> finished])
        /\ row' = Results!Nobody /\ pc' = [pc EXCEPT ![d] = "check"]
        /\ UNCHANGED <<running, finished, batch, answers, rFaults>>
    BY DEF Results!Store, Results!Goto
  <1>3. /\ d \in Results!Actors /\ pc \in [Results!Actors -> Results!Steps] /\ finished \in Nat
        /\ Results!Nobody \notin Results!Actors /\ Agents \subseteq Results!Actors
    BY <1>1, ActorFacts DEF ResultTypes
  <1>4. pc'[d] = "check" /\ \A y \in Results!Actors : y # d => pc'[y] = pc[y]
    BY <1>2, <1>3
  <1>5. waiting' \in Seq([agent : Agents, parent : Nat]) /\ Awaiting' = Awaiting \cup {d}
    <2>1. /\ Append(waiting, [agent |-> d, parent |-> finished]) \in Seq([agent : Agents, parent : Nat])
          /\ {r.agent : r \in Tree!Range(Append(waiting, [agent |-> d, parent |-> finished]))} = Awaiting \cup {d}
      BY <1>1, <1>3, WaitingMoves
    <2> QED
      BY <1>2, <2>1, Zenon DEF Awaiting
  <1>6. ResultTypes'
    <2>1. pc' \in [Results!Actors -> Results!Steps]
      BY <1>2, <1>3 DEF Results!Steps
    <2>2. \A u \in running : pc'[u] = "running" /\ u \in Results!Turns
      BY <1>1, <1>2, <1>4, ActorFacts DEF ResultTypes
    <2> QED
      BY <1>1, <1>2, <1>5, <2>1, <2>2 DEF ResultTypes
  <1>7. RowIsHeld'
    BY <1>1, <1>2, <1>3, <1>4, <1>5 DEF RowIsHeld
  <1>8. \A y \in Results!Actors, e \in Agents : Hands(y, e)' <=> Hands(y, e)
    BY <1>2, <1>4 DEF Hands
  <1>9. \A e \in Agents : pc'[e] \in Early <=> pc[e] \in Early /\ e # d
    BY <1>2, <1>3, <1>4 DEF Early
  <1>10. pc[d] \in Early
    BY <1>2 DEF Early
  <1>11. OnePlace'
    BY <1>1, <1>2, <1>5, <1>8, <1>9, <1>10 DEF OnePlace
  <1>12. ResultsAreKept'
    BY <1>1, <1>2, <1>5, <1>8, <1>9 DEF ResultsAreKept
  <1> QED
    BY <1>6, <1>7, <1>11, <1>12 DEF ResultInv

\* A batch is taken out of the chat.
LEMMA TakeIsSafe ==
  ASSUME Results!ResultAssumption, ResultInv, NEW a \in Results!Actors, Results!Take(a)
  PROVE  ResultInv'
  <1>1. ResultTypes /\ RowIsHeld /\ OnePlace /\ ResultsAreKept
    BY DEF ResultInv
  <1>2. /\ pc[a] = "commit" /\ waiting' = Results!Only(waiting, [agent : Agents \ batch[a], parent : Nat])
        /\ row' = Results!Nobody /\ pc' = [pc EXCEPT ![a] = "call"]
        /\ UNCHANGED <<running, finished, batch, answers, rFaults>>
    BY DEF Results!Take, Results!Goto
  <1>3. /\ pc \in [Results!Actors -> Results!Steps] /\ batch[a] \in SUBSET Agents
        /\ Results!Nobody \notin Results!Actors /\ Agents \subseteq Results!Actors
    BY <1>1, ActorFacts DEF ResultTypes
  <1>4. pc'[a] = "call" /\ \A y \in Results!Actors : y # a => pc'[y] = pc[y]
    BY <1>2, <1>3
  <1>5. waiting' \in Seq([agent : Agents, parent : Nat]) /\ Awaiting' = Awaiting \ batch[a]
    <2>1. /\ Results!Only(waiting, [agent : Agents \ batch[a], parent : Nat]) \in Seq([agent : Agents, parent : Nat])
          /\ {r.agent : r \in Tree!Range(Results!Only(waiting, [agent : Agents \ batch[a], parent : Nat]))}
               = Awaiting \ batch[a]
      BY <1>1, <1>3, WaitingMoves
    <2> QED
      BY <1>2, <2>1, Zenon DEF Awaiting
  <1>6. batch[a] \subseteq Awaiting
    BY <1>1, <1>2 DEF RowIsHeld
  <1>7. ResultTypes'
    <2>1. pc' \in [Results!Actors -> Results!Steps]
      BY <1>2, <1>3 DEF Results!Steps
    <2>2. \A u \in running : pc'[u] = "running" /\ u \in Results!Turns
      BY <1>1, <1>2, <1>4, ActorFacts DEF ResultTypes
    <2> QED
      BY <1>1, <1>2, <1>5, <2>1, <2>2 DEF ResultTypes
  <1>8. RowIsHeld'
    BY <1>1, <1>2, <1>3, <1>4 DEF RowIsHeld
  <1>9. \A y \in Results!Actors, e \in Agents : Hands(y, e)' <=> Hands(y, e) \/ (y = a /\ e \in batch[a])
    BY <1>2, <1>4 DEF Hands
  <1>10. \A e \in Agents : pc'[e] \in Early <=> pc[e] \in Early
    BY <1>2, <1>3, <1>4 DEF Early
  <1>11. OnePlace'
    BY <1>1, <1>2, <1>5, <1>6, <1>9, <1>10 DEF OnePlace
  <1>12. ResultsAreKept'
    BY <1>1, <1>2, <1>5, <1>9, <1>10 DEF ResultsAreKept
  <1> QED
    BY <1>7, <1>8, <1>11, <1>12 DEF ResultInv

\* A batch is given to the turn that answers it, or lost.
LEMMA CallIsSafe ==
  ASSUME Results!ResultAssumption, ResultInv, NEW a \in Results!Actors,
         Results!CallFails(a) \/ \E t \in Results!Turns : Results!Call(a, t)
  PROVE  ResultInv'
  <1>1. ResultTypes /\ RowIsHeld /\ OnePlace /\ ResultsAreKept
    BY DEF ResultInv
  <1>2. PICK t \in Results!Actors :
          /\ pc[a] = "call" /\ batch' = [batch EXCEPT ![a] = {}] /\ UNCHANGED <<waiting, finished, row>>
          /\ \/ /\ t \in Results!Turns /\ pc[t] = "new" /\ pc' = [pc EXCEPT ![a] = "ended", ![t] = "running"]
                /\ running' = running \cup {t} /\ rFaults' = rFaults
                /\ answers' = [d \in Agents |-> IF d \in batch[a] THEN answers[d] + 1 ELSE answers[d]]
             \/ /\ pc' = [pc EXCEPT ![a] = "ended"] /\ running' = running
                /\ rFaults' = rFaults + 1 /\ answers' = answers
    <2>1. CASE Results!CallFails(a)
      BY <2>1 DEF Results!CallFails, Results!Goto
    <2>2. CASE \E t \in Results!Turns : Results!Call(a, t)
      <3>1. PICK t \in Results!Turns : Results!Call(a, t)
        BY <2>2
      <3>2. t \in Results!Actors
        BY ActorFacts
      <3> QED
        BY <3>1, <3>2 DEF Results!Call, Results!StartTurn
    <2> QED
      BY <2>1, <2>2
  <1>3. /\ pc \in [Results!Actors -> Results!Steps] /\ batch \in [Results!Actors -> SUBSET Agents]
        /\ Agents \subseteq Results!Actors
        /\ answers \in [Agents -> Nat] /\ rFaults \in Nat
    BY <1>1, ActorFacts DEF ResultTypes
  <1>4. /\ pc'[a] = "ended" /\ batch'[a] = {}
        /\ \A y \in Results!Actors : y # a => batch'[y] = batch[y] /\ (pc'[y] = pc[y] \/ (y = t /\ pc[y] = "new" /\ pc'[y] = "running"))
    BY <1>2, <1>3
  <1>5. Awaiting' = Awaiting
    BY <1>2 DEF Awaiting, Tree!Range
  <1>6. ResultTypes'
    <2>1. pc' \in [Results!Actors -> Results!Steps] /\ batch' \in [Results!Actors -> SUBSET Agents]
      BY <1>2, <1>3 DEF Results!Steps
    <2>2. answers' \in [Agents -> Nat] /\ rFaults' \in Nat
      BY <1>2, <1>3
    <2>3. \A u \in running' : pc'[u] = "running" /\ u \in Results!Turns
      <3>1. \A u \in running : pc[u] = "running" /\ u \in Results!Turns /\ u \in Results!Actors
        BY <1>1, ActorFacts DEF ResultTypes
      <3>2. \A u \in running : u # a /\ pc'[u] = "running"
        BY <1>2, <1>4, <3>1
      <3>3. pc[t] = "new" /\ pc' = [pc EXCEPT ![a] = "ended", ![t] = "running"] => pc'[t] = "running"
        BY <1>3
      <3> QED
        BY <1>2, <3>1, <3>2, <3>3
    <2> QED
      BY <1>1, <1>2, <2>1, <2>2, <2>3 DEF ResultTypes
  <1>7. RowIsHeld'
    <2>1. \A y \in Results!Actors : pc'[y] \in {"store", "commit"} <=> pc[y] \in {"store", "commit"}
      BY <1>2, <1>4
    <2>2. \A y \in Results!Actors : pc'[y] = "commit" => pc[y] = "commit" /\ batch'[y] = batch[y]
      BY <1>4
    <2> QED
      BY <1>1, <1>2, <1>5, <2>1, <2>2 DEF RowIsHeld
  <1>8. \A y \in Results!Actors, e \in Agents : Hands(y, e)' <=> Hands(y, e) /\ y # a
    BY <1>2, <1>4 DEF Hands
  <1>9. \A e \in Agents : pc'[e] \in Early <=> pc[e] \in Early
    BY <1>2, <1>3, <1>4 DEF Early
  <1>10. \A e \in Agents : Hands(a, e) <=> e \in batch[a]
    BY <1>2 DEF Hands
  <1>11. CASE rFaults' = rFaults
    <2>1. \A e \in Agents : answers'[e] = IF e \in batch[a] THEN answers[e] + 1 ELSE answers[e]
      BY <1>2, <1>3, <1>11
    <2>2. \A e \in batch[a] : e \in Agents /\ answers[e] = 0 /\ answers'[e] = 1
      BY <1>1, <1>3, <1>10, <2>1 DEF OnePlace
    <2>3. \A e \in Agents : e \notin batch[a] => answers'[e] = answers[e]
      BY <2>1
    <2>4. OnePlace'
      BY <1>1, <1>5, <1>8, <1>9, <1>10, <2>2, <2>3 DEF OnePlace
    <2>5. ResultsAreKept'
      <3> SUFFICES ASSUME NEW d \in Agents
                   PROVE  /\ answers'[d] <= 1
                          /\ rFaults = 0 => \/ pc'[d] \in Early \/ d \in Awaiting \/ answers'[d] = 1
                                            \/ \E y \in Results!Actors : Hands(y, d)'
        BY <1>5, <1>11 DEF ResultsAreKept
      <3>1. CASE d \in batch[a]
        BY <2>2, <3>1
      <3>2. CASE d \notin batch[a]
        <4>1. \A y \in Results!Actors : Hands(y, d) => Hands(y, d)'
          BY <1>8, <1>10, <3>2
        <4> QED
          BY <1>1, <1>9, <2>3, <3>2, <4>1 DEF ResultsAreKept
      <3> QED
        BY <3>1, <3>2
    <2> QED
      BY <1>6, <1>7, <2>4, <2>5 DEF ResultInv
  <1>12. CASE rFaults' = rFaults + 1 /\ answers' = answers
    <2>1. OnePlace'
      BY <1>1, <1>5, <1>8, <1>9, <1>12 DEF OnePlace
    <2>2. rFaults' # 0
      BY <1>3, <1>12
    <2>3. ResultsAreKept'
      BY <1>1, <1>12, <2>2 DEF ResultsAreKept
    <2> QED
      BY <1>6, <1>7, <2>1, <2>3 DEF ResultInv
  <1> QED
    BY <1>2, <1>11, <1>12

\* On PostgreSQL, with any number of sub-agents and server processes: no result is
\* answered twice, and none that reached the chat is lost, unless a completion fails
\* to start.
THEOREM ResultsAreGivenOnce == Results!ResultAssumption /\ Postgres = TRUE /\ Results!Spec => []ResultsAreKept
  <1> SUFFICES ASSUME Results!ResultAssumption, Postgres = TRUE PROVE Results!Spec => []ResultsAreKept
    OBVIOUS
  <1>1. Results!Init => ResultInv
    <2> SUFFICES ASSUME Results!Init PROVE ResultInv
      OBVIOUS
    <2>1. /\ pc = [a \in Results!Actors |-> IF a \in Agents THEN "working" ELSE "new"]
          /\ running = {} /\ waiting = <<>> /\ finished = 0 /\ row = Results!Nobody
          /\ batch = [a \in Results!Actors |-> {}] /\ answers = [d \in Agents |-> 0] /\ rFaults = 0
      BY DEF Results!Init
    <2>2. Awaiting = {} /\ waiting \in Seq([agent : Agents, parent : Nat])
      BY <2>1 DEF Awaiting, Tree!Range
    <2>3. ResultTypes
      BY <2>1, <2>2 DEF ResultTypes, Results!Steps
    <2>4. \A a \in Results!Actors : pc[a] \in {"working", "new"} /\ a # Results!Nobody
      BY <2>1, ActorFacts
    <2>5. RowIsHeld
      BY <2>1, <2>4 DEF RowIsHeld
    <2>6. \A d \in Agents : /\ answers[d] = 0 /\ pc[d] \in Early
                            /\ \A a \in Results!Actors : ~Hands(a, d)
      BY <2>1, <2>4, ActorFacts DEF Early, Hands
    <2> QED
      BY <2>2, <2>3, <2>5, <2>6 DEF ResultInv, OnePlace, ResultsAreKept
  <1>2. ResultInv /\ [Results!Next]_(Results!vars) => ResultInv'
    <2> SUFFICES ASSUME ResultInv, [Results!Next]_(Results!vars) PROVE ResultInv'
      OBVIOUS
    <2>1. CASE UNCHANGED Results!vars
      BY <2>1 DEF Results!vars, ResultInv, ResultTypes, RowIsHeld, OnePlace, ResultsAreKept, Awaiting, Hands, Tree!Range
    <2>2. ASSUME NEW t \in Results!Turns, Results!EndTurn(t) \/ \E w \in Workers : Results!Prompt(t, w)
          PROVE  ResultInv'
      <3>1. t \in Results!Actors
        BY ActorFacts
      <3> QED
        BY <2>2, <3>1, QuietSteps
    <2>3. ASSUME NEW d \in Agents, Results!Store(d) PROVE ResultInv'
      BY <2>3, StoreKeeps
    <2>4. ASSUME NEW a \in Results!Actors, Results!Take(a) PROVE ResultInv'
      BY <2>4, TakeIsSafe
    <2>5. ASSUME NEW a \in Results!Actors, Results!CallFails(a) \/ \E t \in Results!Turns : Results!Call(a, t)
          PROVE  ResultInv'
      BY <2>5, CallIsSafe
    <2>6. ASSUME NEW d \in Agents, Results!Deliver(d) \/ Results!ReadParent(d) PROVE ResultInv'
      <3>1. d \in Results!Actors
        BY ActorFacts
      <3> QED
        BY <2>6, <3>1, QuietSteps
    <2>7. ASSUME NEW a \in Results!Actors, \/ Results!Check(a) \/ Results!AwaitIdle(a) \/ Results!TakeLock(a)
                                           \/ Results!LookAgain(a) \/ Results!ReadResults(a)
          PROVE  ResultInv'
      BY <2>7, QuietSteps
    <2> QED
      BY <2>1, <2>2, <2>3, <2>4, <2>5, <2>6, <2>7 DEF Results!Next, Results!Process
  <1>3. ResultInv => ResultsAreKept
    BY DEF ResultInv
  <1> QED
    BY <1>1, <1>2, <1>3, PTL DEF Results!Spec
=============================================================================
