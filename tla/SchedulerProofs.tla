--------------------------- MODULE SchedulerProofs ---------------------------
(***************************************************************************)
(* What the three jobs of scheduler_worker_loop promise, for any number of *)
(* instances, claims, occurrences, edits and crashes.                      *)
(***************************************************************************)
EXTENDS SchedulerLoop, Integers, WellFoundedInduction, TLAPS

-----------------------------------------------------------------------------
(* Calendar alerts *)

AlertTypes ==
    /\ clock \in Nat /\ edits \in Nat /\ alerts \in Nat /\ faults \in 0..MaxFaults /\ kept \in BOOLEAN
    /\ event \in [start : Starts, alerted : BOOLEAN, on : BOOLEAN]
    /\ wake \in [Servers -> Nat] /\ poll \in [Servers -> Nat]
    /\ check \in [Servers -> [pc : {"idle", "fetched", "sent"}, alerted : BOOLEAN]]

\* How long after the window's end the crashes still to come can put a poll off.
Reserve == (MaxFaults - faults) * TimerPoll

\* The end of the grace window.
GraceEnd == event.start + PollInterval + Slack

\* Where loop i can be while the event is left alone and no alert was sent: it has
\* read and written no mark, it has found the event or will poll in time for it,
\* and its next wake leaves room in the window for the crashes to come.
InTime(i) ==
    /\ check[i].pc # "sent" /\ ~check[i].alerted
    /\ check[i].pc = "fetched" => wake[i] = clock
    /\ check[i].pc = "idle" => poll[i] + TimerPoll + MaxFaults * TimerPoll <= GraceEnd + 1
    /\ clock <= wake[i] /\ wake[i] + Reserve <= GraceEnd

Unalerted == ~event.alerted /\ event.on /\ event.start > Lookahead /\ \A i \in Servers : InTime(i)

AlertInv ==
    /\ Alert!AlertAssumption /\ Alert!SlackAssumption /\ AlertTypes
    /\ kept /\ edits = 0 /\ alerts = 0 => Unalerted

\* How products with a natural distribute and grow.
LEMMA Product ==
  ASSUME NEW a \in Nat, NEW b \in Nat, NEW c \in Nat
  PROVE  /\ a * b \in Nat /\ (a - c) * b = a * b - c * b /\ (a - (c + 1)) * b = (a - c) * b - b
         /\ c <= a => c * b <= a * b
  OBVIOUS

\* The reserve is spent by one sleep with every crash.
LEMMA ReserveFacts ==
  ASSUME AlertInv
  PROVE  /\ Reserve \in Nat /\ MaxFaults * TimerPoll \in Nat /\ Reserve <= MaxFaults * TimerPoll
         /\ PollInterval \in Nat /\ TimerPoll \in Nat \ {0} /\ Lookahead \in Nat /\ Slack \in Nat
         /\ GraceEnd \in Nat /\ event.start \in Nat
         /\ faults < MaxFaults /\ faults' = faults + 1 => Reserve' = Reserve - TimerPoll
  <1> USE DEF AlertInv, AlertTypes, Alert!AlertAssumption
  <1>1. /\ PollInterval \in Nat /\ TimerPoll \in Nat \ {0} /\ Lookahead \in Nat /\ Slack \in Nat
        /\ MaxFaults \in Nat /\ faults \in Nat /\ faults <= MaxFaults /\ event.start \in Nat
    <2>1. {PollInterval, TimerPoll, Lookahead, Slack, MaxFaults} \subseteq Nat /\ TimerPoll > 0
      OBVIOUS
    <2>2. event.start \in Nat
      OBVIOUS
    <2> QED
      BY <2>1, <2>2
  <1>2. /\ MaxFaults * TimerPoll \in Nat /\ faults * TimerPoll \in Nat
        /\ faults * TimerPoll <= MaxFaults * TimerPoll
        /\ Reserve = MaxFaults * TimerPoll - faults * TimerPoll
    BY <1>1, Product DEF Reserve
  <1>3. ASSUME faults < MaxFaults, faults' = faults + 1 PROVE Reserve' = Reserve - TimerPoll
    BY <1>1, <1>3, Product DEF Reserve
  <1> QED
    BY <1>1, <1>2, <1>3 DEF GraceEnd

\* For every jitter the slack covers what a poll can be late.
LEMMA SlackFacts ==
  ASSUME AlertInv
  PROVE  /\ \A j \in Jitter : j \in Nat /\ j + TimerPoll + MaxFaults * TimerPoll <= Lookahead + Slack + 1
         /\ TimerPoll + MaxFaults * TimerPoll <= Lookahead + Slack + 1
  <1>1. \A j \in Jitter : j \in Nat /\ j + TimerPoll + MaxFaults * TimerPoll <= Lookahead + Slack + 1
    BY DEF AlertInv, Alert!AlertAssumption, Alert!SlackAssumption
  <1>2. PICK j \in Jitter : TRUE
    BY DEF AlertInv, Alert!SlackAssumption
  <1> QED
    BY <1>1, <1>2, ReserveFacts

\* At the start every loop will poll in time.
LEMMA AlertInit == Alert!AlertAssumption /\ Alert!SlackAssumption /\ Alert!Init => AlertInv
  <1> SUFFICES ASSUME Alert!AlertAssumption, Alert!SlackAssumption, Alert!Init PROVE AlertInv
    OBVIOUS
  <1>1. AlertTypes
    <2>1. TimerPoll \in Nat /\ MaxFaults \in Nat
      BY DEF Alert!AlertAssumption
    <2>2. 0..TimerPoll \subseteq Nat /\ 0 \in 0..MaxFaults
      BY <2>1
    <2> QED
      <3>1. event \in [start : Starts, alerted : BOOLEAN, on : BOOLEAN]
        BY DEF Alert!Init
      <3>2. /\ wake \in [Servers -> Nat] /\ poll \in [Servers -> Nat]
            /\ check \in [Servers -> [pc : {"idle", "fetched", "sent"}, alerted : BOOLEAN]]
        BY <2>2 DEF Alert!Init, Alert!IdleCheck
      <3>3. clock \in Nat /\ edits \in Nat /\ alerts \in Nat /\ faults \in 0..MaxFaults /\ kept \in BOOLEAN
        BY <2>2 DEF Alert!Init
      <3> QED
        BY <3>1, <3>2, <3>3 DEF AlertTypes
  <1>2. ASSUME kept PROVE Unalerted
    <2>1. event.start > Lookahead /\ ~event.alerted /\ event.on
      BY <1>2 DEF Alert!Init
    <2>2. /\ PollInterval \in Nat /\ TimerPoll \in Nat /\ Lookahead \in Nat /\ Slack \in Nat
          /\ MaxFaults \in Nat /\ MaxFaults * TimerPoll \in Nat /\ event.start \in Nat
      BY <1>1, Product DEF AlertTypes, Alert!AlertAssumption
    <2>3. TimerPoll + MaxFaults * TimerPoll <= Lookahead + Slack + 1
      <3>1. PICK j \in Jitter : j \in Nat /\ j + TimerPoll + MaxFaults * TimerPoll <= Lookahead + Slack + 1
        BY DEF Alert!SlackAssumption, Alert!AlertAssumption
      <3> QED
        BY <2>2, <3>1
    <2>4. Reserve = MaxFaults * TimerPoll
      BY <2>2 DEF Alert!Init, Reserve
    <2>5. ASSUME NEW i \in Servers PROVE InTime(i)
      <3>1. /\ check[i] = Alert!IdleCheck /\ poll[i] = 0 /\ clock = 0
            /\ wake[i] \in Nat /\ wake[i] <= TimerPoll
        BY <2>2 DEF Alert!Init
      <3> QED
        BY <2>1, <2>2, <2>3, <2>4, <3>1 DEF InTime, GraceEnd, Alert!IdleCheck
    <2> QED
      BY <2>1, <2>5 DEF Unalerted
  <1> QED
    BY <1>1, <1>2 DEF AlertInv

\* Every step keeps the types.
LEMMA AlertTypesStep == AlertInv /\ [Alert!Next]_(Alert!vars) => AlertTypes'
  <1> SUFFICES ASSUME AlertInv, [Alert!Next]_(Alert!vars) PROVE AlertTypes'
    OBVIOUS
  <1>0. AlertTypes /\ PollInterval \in Nat /\ TimerPoll \in Nat /\ MaxFaults \in Nat
    BY DEF AlertInv, Alert!AlertAssumption
  <1> DEFINE Places == [pc : {"idle", "fetched", "sent"}, alerted : BOOLEAN]
             Rows == [start : Starts, alerted : BOOLEAN, on : BOOLEAN]
  <1>1. Alert!IdleCheck \in Places /\ \A c \in Places : [c EXCEPT !.pc = "sent"] \in Places
    BY DEF Alert!IdleCheck
  <1>2. event \in Rows /\ check \in [Servers -> Places]
    BY <1>0 DEF AlertTypes
  <1>3. ASSUME NEW i \in Servers, Alert!Sleep(i) PROVE wake' \in [Servers -> Nat]
    BY <1>0, <1>3 DEF Alert!Sleep, AlertTypes
  <1> HIDE DEF Places, Rows
  <1>4. ASSUME event' \in Rows, check' \in [Servers -> Places],
               wake' \in [Servers -> Nat], poll' \in [Servers -> Nat],
               clock' \in Nat, edits' \in Nat, alerts' \in Nat, faults' \in 0..MaxFaults, kept' \in BOOLEAN
        PROVE  AlertTypes'
    BY <1>4 DEF AlertTypes, Places, Rows
  <1> USE DEF AlertTypes
  <1>5. ASSUME NEW i \in Servers, Alert!LoopTimersOnly(i) PROVE AlertTypes'
    BY <1>0, <1>2, <1>3, <1>4, <1>5 DEF Alert!LoopTimersOnly
  <1>6. ASSUME NEW i \in Servers, Alert!LoopPolls(i) PROVE AlertTypes'
    <2>1. PICK j \in Jitter : poll' = [poll EXCEPT ![i] = clock + PollInterval + j]
      BY <1>6 DEF Alert!LoopPolls
    <2>2. j \in Nat
      BY SlackFacts
    <2>3. poll' \in [Servers -> Nat]
      BY <1>0, <2>1, <2>2
    <2>4. [pc |-> "fetched", alerted |-> event.alerted] \in Places
      BY <1>2 DEF Rows, Places
    <2> QED
      BY <1>0, <1>2, <1>3, <1>4, <1>6, <2>3, <2>4 DEF Alert!LoopPolls
  <1>7. ASSUME NEW i \in Servers, Alert!Send(i) PROVE AlertTypes'
    <2>1. [check[i] EXCEPT !.pc = "sent"] \in Places
      BY <1>1, <1>2
    <2> QED
      BY <1>0, <1>1, <1>2, <1>3, <1>4, <1>7, <2>1 DEF Alert!Send
  <1>8. ASSUME NEW i \in Servers, Alert!Mark(i) PROVE AlertTypes'
    <2>1. [event EXCEPT !.alerted = TRUE] \in Rows
      BY <1>2 DEF Rows
    <2> QED
      BY <1>0, <1>1, <1>2, <1>3, <1>4, <1>8, <2>1 DEF Alert!Mark
  <1>9. ASSUME NEW i \in Servers, Alert!MarkFails(i) \/ Alert!Crash(i) PROVE AlertTypes'
    BY <1>0, <1>1, <1>2, <1>3, <1>4, <1>9 DEF Alert!MarkFails, Alert!Crash
  <1>10. CASE Alert!Reschedule \/ Alert!Cancel
    <2>1. event' \in Rows /\ kept' \in BOOLEAN
      BY <1>2, <1>10 DEF Alert!Reschedule, Alert!Cancel, Rows
    <2> QED
      <3>1. /\ UNCHANGED <<clock, wake, poll, check, faults>> /\ edits' = edits + 1
            /\ alerts' = 0 \/ alerts' = alerts
        BY <1>10 DEF Alert!Reschedule, Alert!Cancel
      <3>2. edits' \in Nat /\ alerts' \in Nat /\ clock' \in Nat /\ faults' \in 0..MaxFaults
        BY <1>0, <3>1
      <3>3. check' \in [Servers -> Places] /\ wake' \in [Servers -> Nat] /\ poll' \in [Servers -> Nat]
        BY <1>0, <1>2, <3>1
      <3> QED
        BY <1>4, <2>1, <3>2, <3>3
  <1>11. CASE Alert!Tick
    BY <1>0, <1>2, <1>4, <1>11 DEF Alert!Tick
  <1>12. CASE UNCHANGED Alert!vars
    BY <1>0, <1>12 DEF Alert!vars
  <1> QED
    BY <1>5, <1>6, <1>7, <1>8, <1>9, <1>10, <1>11, <1>12 DEF Alert!Next

\* A step of loop i alone: the other loops stay in time, as no step takes more
\* from the reserve than a crash.
LEMMA OtherLoops ==
  ASSUME AlertInv, Unalerted, NEW i \in Servers, UNCHANGED <<clock, event>>,
         AlertTypes', faults' = faults \/ faults' = faults + 1,
         \A k \in Servers \ {i} :
            check'[k] = check[k] /\ poll'[k] = poll[k] /\ wake'[k] = wake[k],
         InTime(i)'
  PROVE  Unalerted'
  <1>1. Reserve' \in Int /\ Reserve' <= Reserve /\ GraceEnd' = GraceEnd
    <2>1. CASE faults' = faults
      BY <2>1, ReserveFacts DEF Reserve, GraceEnd
    <2>2. CASE faults' = faults + 1
      <3>1. faults < MaxFaults
        BY <2>2 DEF AlertTypes, AlertInv, Alert!AlertAssumption
      <3> QED
        BY <2>2, <3>1, ReserveFacts DEF GraceEnd
    <2> QED
      BY <2>1, <2>2
  <1>2. ASSUME NEW k \in Servers \ {i} PROVE InTime(k)'
    <2>1. InTime(k) /\ wake[k] \in Nat
      BY DEF Unalerted, AlertInv, AlertTypes
    <2> QED
      BY <1>1, <2>1, ReserveFacts DEF InTime
  <1> QED
    BY <1>2 DEF Unalerted

\* The invariant of AlertsAreSent is inductive.
LEMMA AlertStep == AlertInv /\ [Alert!Next]_(Alert!vars) => AlertInv'
  <1> SUFFICES ASSUME AlertInv, [Alert!Next]_(Alert!vars) PROVE AlertInv'
    OBVIOUS
  <1>1. (Alert!AlertAssumption /\ Alert!SlackAssumption)' /\ AlertTypes'
    BY AlertTypesStep DEF AlertInv, Alert!AlertAssumption, Alert!SlackAssumption
  <1> SUFFICES ASSUME kept', edits' = 0, alerts' = 0 PROVE Unalerted'
    BY <1>1 DEF AlertInv
  <1>2. AlertTypes /\ (kept /\ edits = 0 /\ alerts = 0 => Unalerted)
    BY DEF AlertInv
  <1> USE DEF Alert!Sleep, Alert!Awake
  <1>3. ASSUME NEW i \in Servers, Alert!LoopTimersOnly(i) PROVE Unalerted'
    <2>1. Unalerted /\ InTime(i) /\ wake[i] \in Nat /\ poll[i] \in Nat /\ clock \in Nat
      BY <1>2, <1>3 DEF Alert!LoopTimersOnly, Unalerted, AlertTypes
    <2>2. InTime(i)'
      BY <1>2, <1>3, <2>1, ReserveFacts DEF Alert!LoopTimersOnly, InTime, AlertTypes, GraceEnd, Reserve
    <2> QED
      BY <1>1, <1>2, <1>3, <2>1, <2>2, OtherLoops DEF Alert!LoopTimersOnly, AlertTypes
  <1>4. ASSUME NEW i \in Servers, Alert!LoopPolls(i) PROVE Unalerted'
    <2>1. Unalerted /\ InTime(i) /\ wake[i] \in Nat /\ poll[i] \in Nat /\ clock \in Nat
      BY <1>2, <1>4 DEF Alert!LoopPolls, Unalerted, AlertTypes
    <2>2. PICK j \in Jitter : poll' = [poll EXCEPT ![i] = clock + PollInterval + j]
      BY <1>4 DEF Alert!LoopPolls
    <2>3. InTime(i)'
      <3>1. CASE Alert!IsUpcoming
        BY <1>2, <1>4, <2>1, <3>1 DEF Alert!LoopPolls, InTime, AlertTypes, GraceEnd, Reserve, Unalerted
      <3>2. CASE ~Alert!IsUpcoming
        <4>1. clock + Lookahead < event.start
          BY <1>4, <2>1, <3>2, ReserveFacts
          DEF Alert!LoopPolls, Alert!IsUpcoming, Alert!Grace, InTime, Unalerted, GraceEnd
        <4>2. /\ poll'[i] = clock + PollInterval + j /\ wake'[i] = clock + TimerPoll
              /\ check'[i] = check[i] /\ UNCHANGED <<clock, event, faults>>
          <5>1. wake' = [wake EXCEPT ![i] = clock + TimerPoll] /\ UNCHANGED <<check, clock, event, faults>>
            BY <1>4, <3>2 DEF Alert!LoopPolls
          <5> QED
            BY <1>2, <2>2, <5>1 DEF AlertTypes
        <4>3. Reserve' = Reserve /\ GraceEnd' = GraceEnd
          BY <4>2 DEF Reserve, GraceEnd
        <4>4. /\ j \in Nat /\ j + TimerPoll + MaxFaults * TimerPoll <= Lookahead + Slack + 1
              /\ TimerPoll + MaxFaults * TimerPoll <= Lookahead + Slack + 1
          BY SlackFacts
        <4>5. poll'[i] + TimerPoll + MaxFaults * TimerPoll <= GraceEnd + 1
          BY <2>1, <4>1, <4>2, <4>4, ReserveFacts DEF GraceEnd
        <4>6. clock <= wake'[i] /\ wake'[i] + Reserve <= GraceEnd
          BY <2>1, <4>1, <4>2, <4>4, ReserveFacts DEF GraceEnd
        <4> QED
          BY <1>4, <2>1, <4>2, <4>3, <4>5, <4>6 DEF InTime, Alert!LoopPolls
      <3> QED
        BY <3>1, <3>2
    <2> QED
      BY <1>1, <1>2, <1>4, <2>1, <2>2, <2>3, OtherLoops DEF Alert!LoopPolls, AlertTypes
  <1>5. ASSUME NEW i \in Servers, Alert!Send(i) PROVE Unalerted'
    <2>1. CASE check[i].alerted
      BY <1>2, <1>5, <2>1 DEF Alert!Send, Unalerted, InTime
    <2>2. CASE ~check[i].alerted
      BY <1>2, <1>5, <2>2 DEF Alert!Send, AlertTypes
    <2> QED
      BY <2>1, <2>2
  <1>6. ASSUME NEW i \in Servers, Alert!Mark(i) \/ Alert!MarkFails(i) PROVE Unalerted'
    BY <1>2, <1>6 DEF Alert!Mark, Alert!MarkFails, Unalerted, InTime
  <1>7. ASSUME NEW i \in Servers, Alert!Crash(i) PROVE Unalerted'
    <2>1. Unalerted /\ InTime(i) /\ wake[i] \in Nat /\ poll[i] \in Nat /\ clock \in Nat
      BY <1>2, <1>7 DEF Alert!Crash, Unalerted, AlertTypes
    <2>2. /\ poll'[i] = 0 /\ wake'[i] = clock + TimerPoll /\ check'[i] = Alert!IdleCheck
          /\ UNCHANGED <<clock, event>> /\ Reserve' = Reserve - TimerPoll
      BY <1>2, <1>7, ReserveFacts DEF Alert!Crash, AlertTypes
    <2>3. InTime(i)'
      BY <2>1, <2>2, ReserveFacts, SlackFacts DEF InTime, GraceEnd, Alert!IdleCheck, Unalerted
    <2> QED
      BY <1>1, <1>2, <1>7, <2>1, <2>3, OtherLoops DEF Alert!Crash, AlertTypes
  <1>8. CASE Alert!Reschedule \/ Alert!Cancel
    BY <1>2, <1>8 DEF Alert!Reschedule, Alert!Cancel, AlertTypes
  <1>9. CASE Alert!Tick
    BY <1>2, <1>9 DEF Alert!Tick, AlertTypes, Unalerted, InTime, GraceEnd, Reserve
  <1>10. CASE UNCHANGED Alert!vars
    BY <1>2, <1>10 DEF Alert!vars, Unalerted, InTime, GraceEnd, Reserve
  <1> QED
    BY <1>3, <1>4, <1>5, <1>6, <1>7, <1>8, <1>9, <1>10 DEF Alert!Next

\* No poll steps over the window of an event: with any interval, sleep and jitter,
\* any number of instances and MaxFaults crashes, an event that its owner leaves
\* alone has been alerted when its grace window ends, as long as the slack covers
\* the jitter and the sleeps.
THEOREM AlertsAreSent ==
  Alert!AlertAssumption /\ Alert!SlackAssumption /\ Alert!Spec => []AlertNotMissed
  <1>1. AlertInv => AlertNotMissed
    <2> SUFFICES ASSUME AlertInv, kept, edits = 0, alerts = 0, clock > event.start + Alert!Grace
                 PROVE  FALSE
      BY DEF AlertNotMissed, Alert!AlertNotMissed, AlertInv, AlertTypes
    <2>1. PICK i \in Servers : TRUE
      BY DEF AlertInv, Alert!SlackAssumption
    <2>2. InTime(i) /\ wake[i] \in Nat /\ clock \in Nat
      BY DEF AlertInv, AlertTypes, Unalerted
    <2> QED
      BY <2>2, ReserveFacts DEF InTime, GraceEnd, Alert!Grace
  <1> QED
    BY <1>1, AlertInit, AlertStep, PTL DEF Alert!Spec
-----------------------------------------------------------------------------
(* Chat timers *)

TimerStatus == {"pending", "running", "completed", "cancelled", "error"}
TimerRows == [status : TimerStatus, armed : BOOLEAN, claim : Claims \cup {Nobody}]
ExecSteps == {"none", "waiting", "checked", "clear", "calling", "failing", "done"}
Execs == [pc : ExecSteps, on : Instances \cup {Nobody}]
Cancelled == [status |-> "cancelled", armed |-> FALSE, claim |-> Nobody]

TimerTypes ==
    /\ Nobody \notin Claims \cup Instances
    /\ row \in TimerRows /\ lock \in Instances \cup {Nobody} /\ fired \in Nat
    /\ loop \in [Instances -> {"idle", "selected"}] /\ exec \in [Claims -> Execs]
    /\ cancel \in [pc : {"idle", "selected", "skipped"}, event : Events]

\* An executor between its check of the claim and the commit that fires.
InFlight(c) == exec[c].pc \in {"checked", "clear"}

\* A claim transaction holds the row's lock, and nobody wrote the row since.
SelectedHolds == \A i \in Instances : loop[i] = "selected" => lock = i /\ Pending

\* One executor at most is in flight; nothing was sent yet, and the row is still
\* its own unless a cancellation overtook it, which the executor does not notice.
OneInFlight ==
    \A c \in Claims : InFlight(c) =>
        /\ fired = 0
        /\ (row.status = "running" /\ row.claim = c) \/ row.status = "cancelled"
        /\ \A d \in Claims : InFlight(d) => d = c

\* After the prompt was sent nothing makes the row claimable again.
SentIsSettled == fired = 0 \/ (fired = 1 /\ Settled)

\* A handler is called, or has failed, only after its prompt was sent.
CallingHasFired == \A c \in Claims : exec[c].pc \in {"calling", "failing"} => fired = 1

CancelledRow == row.status = "cancelled" => row = Cancelled

TimerInv ==
    /\ Postgres /\ TimerTypes
    /\ SelectedHolds /\ OneInFlight /\ SentIsSettled /\ CallingHasFired /\ CancelledRow

\* Nothing is claimed at the start.
LEMMA TimerInit == Postgres /\ Init => TimerInv
  <1> SUFFICES ASSUME Postgres, Init PROVE TimerInv
    OBVIOUS
  <1>1. TimerTypes
    BY TimerAssumption DEF Init, TimerTypes, TimerRows, TimerStatus, Execs, ExecSteps, NoExec, NoCancel, Events
  <1> QED
    BY <1>1 DEF Init, TimerInv, SelectedHolds, OneInFlight, InFlight, SentIsSettled, CallingHasFired,
                CancelledRow, NoExec

\* What an executor's move to another step leaves of the executors.
LEMMA GoFacts ==
  ASSUME TimerTypes, NEW c \in Claims, NEW pc \in ExecSteps, Go(c, pc)
  PROVE  /\ exec' \in [Claims -> Execs] /\ exec'[c].pc = pc
         /\ \A d \in Claims : d # c => exec'[d] = exec[d]
  BY DEF TimerTypes, Go, Execs

\* The rows that steps write are rows.
LEMMA RowFacts ==
  ASSUME TimerTypes
  PROVE  /\ \A c \in Claims : [status |-> "running", armed |-> FALSE, claim |-> c] \in TimerRows
         /\ [status |-> "pending", armed |-> TRUE, claim |-> Nobody] \in TimerRows
         /\ Cancelled \in TimerRows
         /\ \A s \in TimerStatus : [row EXCEPT !.status = s] \in TimerRows
  BY DEF TimerTypes, TimerRows, TimerStatus, Cancelled

\* Every step keeps the types.
LEMMA TimerTypesStep ==
  ASSUME TimerInv, [Next]_vars
  PROVE  TimerTypes'
  <1> USE DEF TimerInv, TimerTypes
  <1>1. ASSUME NEW i \in Instances, ClaimSelect(i) \/ ClaimCommit(i) PROVE TimerTypes'
    <2>1. exec' \in [Claims -> Execs]
      BY <1>1 DEF ClaimSelect, ClaimCommit, Execs, ExecSteps
    <2>2. row' \in TimerRows
      BY <1>1, RowFacts DEF ClaimSelect, ClaimCommit
    <2> QED
      BY <1>1, <2>1, <2>2 DEF ClaimSelect, ClaimCommit
  <1>2. ASSUME NEW i \in Instances, Crash(i) PROVE TimerTypes'
    BY <1>2 DEF Crash, Execs, ExecSteps
  <1>3. ASSUME NEW c \in Claims, ExecStep(c) PROVE TimerTypes'
    <2>1. PICK pc \in ExecSteps : Go(c, pc)
      BY <1>3 DEF ExecStep, ExecCheck, ExecMissing, ExecDefer, ExecClear, ExecFire, ExecAnswer,
                  ExecFail, ExecSteps
    <2>2. exec' \in [Claims -> Execs]
      BY <2>1, GoFacts
    <2>3. row' \in TimerRows
      BY <1>3, RowFacts DEF TimerStatus, ExecStep, ExecCheck, ExecMissing, ExecDefer, ExecClear, ExecFire, ExecAnswer, ExecFail
    <2> QED
      BY <1>3, <2>2, <2>3 DEF ExecStep, ExecCheck, ExecMissing, ExecDefer, ExecClear, ExecFire, ExecAnswer, ExecFail
  <1>4. ASSUME NEW e \in Events, CancelSelect(e) PROVE TimerTypes'
    BY <1>4 DEF CancelSelect
  <1>5. CASE CancelCommit
    BY <1>5, RowFacts DEF CancelCommit, NoCancel, Events, Cancelled
  <1>6. CASE TaskEnds \/ DeleteParent \/ ComesDue
    BY <1>6 DEF TaskEnds, DeleteParent, ComesDue
  <1>7. CASE UNCHANGED vars
    BY <1>7 DEF vars
  <1> QED
    BY <1>1, <1>2, <1>3, <1>4, <1>5, <1>6, <1>7 DEF Next

\* An executor's step, on PostgreSQL: one that is in flight writes the row only
\* when no claim transaction is open.
LEMMA ExecStepKeeps ==
  ASSUME TimerInv, TimerTypes', NEW c \in Claims, ExecStep(c)
  PROVE  TimerInv'
  <1> USE DEF TimerInv, TimerTypes
  <1>1. UNCHANGED <<lock, loop>>
    BY DEF ExecStep, ExecCheck, ExecMissing, ExecDefer, ExecClear, ExecFire, ExecAnswer, ExecFail
  <1>2. row' = row \/ Unlocked
    BY DEF ExecStep, ExecCheck, ExecMissing, ExecDefer, ExecClear, ExecFire, ExecAnswer, ExecFail
  <1>3. SelectedHolds'
    BY <1>1, <1>2 DEF SelectedHolds, Unlocked, Pending
  <1>4. CASE ExecCheck(c)
    <2>1. Go(c, IF IsMine(c) THEN "checked" ELSE "done") /\ UNCHANGED <<row, fired>>
      BY <1>4 DEF ExecCheck
    <2>2. CASE IsMine(c)
      <3>1. exec'[c].pc = "checked" /\ \A d \in Claims : d # c => exec'[d] = exec[d]
        BY <2>1, <2>2, GoFacts DEF ExecSteps
      <3>2. fired = 0 /\ \A d \in Claims : InFlight(d) => d = c
        BY <2>2 DEF IsMine, OneInFlight, SentIsSettled, Settled
      <3> QED
        BY <1>3, <2>1, <2>2, <3>1, <3>2
        DEF OneInFlight, InFlight, SentIsSettled, CallingHasFired, CancelledRow, IsMine, Settled
    <2>3. CASE ~IsMine(c)
      <3>1. exec'[c].pc = "done" /\ \A d \in Claims : d # c => exec'[d] = exec[d]
        BY <2>1, <2>3, GoFacts DEF ExecSteps
      <3> QED
        BY <1>3, <2>1, <3>1
        DEF OneInFlight, InFlight, SentIsSettled, CallingHasFired, CancelledRow, Settled
    <2> QED
      BY <2>2, <2>3
  <1>5. CASE ExecMissing(c) \/ ExecDefer(c)
    <2>1. InFlight(c) /\ Go(c, "done") /\ fired' = fired /\ row'.status \in {"error", "pending"}
      BY <1>5 DEF ExecMissing, ExecDefer, InFlight, TimerRows
    <2>2. exec'[c].pc = "done" /\ \A d \in Claims : d # c => exec'[d] = exec[d]
      BY <2>1, GoFacts DEF ExecSteps
    <2> QED
      BY <1>3, <2>1, <2>2
      DEF OneInFlight, InFlight, SentIsSettled, CallingHasFired, CancelledRow, Settled
  <1>6. CASE ExecClear(c)
    <2>1. InFlight(c) /\ Go(c, "clear") /\ UNCHANGED <<row, fired>>
      BY <1>6 DEF ExecClear, InFlight
    <2>2. exec'[c].pc = "clear" /\ \A d \in Claims : d # c => exec'[d] = exec[d]
      BY <2>1, GoFacts DEF ExecSteps
    <2> QED
      BY <1>3, <2>1, <2>2
      DEF OneInFlight, InFlight, SentIsSettled, CallingHasFired, CancelledRow, Settled
  <1>7. CASE ExecFire(c)
    <2>1. InFlight(c) /\ Go(c, "calling") /\ fired' = fired + 1 /\ row'.status = "completed"
      BY <1>7 DEF ExecFire, InFlight, TimerRows
    <2>2. exec'[c].pc = "calling" /\ \A d \in Claims : d # c => exec'[d] = exec[d]
      BY <2>1, GoFacts DEF ExecSteps
    <2>3. fired = 0 /\ \A d \in Claims : InFlight(d) => d = c
      BY <2>1 DEF OneInFlight
    <2> QED
      BY <1>3, <2>1, <2>2, <2>3
      DEF OneInFlight, InFlight, SentIsSettled, CallingHasFired, CancelledRow, Settled
  <1>8. CASE ExecAnswer(c)
    <2>1. PICK pc \in {"done", "failing"} : Go(c, pc)
      BY <1>8 DEF ExecAnswer
    <2>2. UNCHANGED <<row, fired>> /\ exec[c].pc = "calling"
      BY <1>8 DEF ExecAnswer
    <2>3. exec'[c].pc = pc /\ \A d \in Claims : d # c => exec'[d] = exec[d]
      BY <2>1, GoFacts DEF ExecSteps
    <2> QED
      BY <1>3, <2>2, <2>3
      DEF OneInFlight, InFlight, SentIsSettled, CallingHasFired, CancelledRow, Settled
  <1>9. CASE ExecFail(c)
    <2>1. exec[c].pc = "failing" /\ Go(c, "done") /\ fired' = fired /\ row'.status = "error"
      BY <1>9 DEF ExecFail, TimerRows
    <2>2. exec'[c].pc = "done" /\ \A d \in Claims : d # c => exec'[d] = exec[d]
      BY <2>1, GoFacts DEF ExecSteps
    <2> QED
      BY <1>3, <2>1, <2>2
      DEF OneInFlight, InFlight, SentIsSettled, CallingHasFired, CancelledRow, Settled
  <1> QED
    BY <1>4, <1>5, <1>6, <1>7, <1>8, <1>9 DEF ExecStep

\* The invariant of the timers is inductive.
LEMMA TimerStep == TimerInv /\ [Next]_vars => TimerInv'
  <1> SUFFICES ASSUME TimerInv, [Next]_vars PROVE TimerInv'
    OBVIOUS
  <1>1. TimerTypes'
    BY TimerTypesStep
  <1> USE DEF TimerInv, TimerTypes
  <1>2. ASSUME NEW i \in Instances, ClaimSelect(i) PROVE TimerInv'
    BY <1>1, <1>2
    DEF ClaimSelect, SelectedHolds, OneInFlight, InFlight, SentIsSettled, CallingHasFired, CancelledRow,
        Unlocked, Pending, Settled
  <1>3. ASSUME NEW i \in Instances, ClaimCommit(i) PROVE TimerInv'
    <2>1. PICK c \in Claims :
            /\ row' = [status |-> "running", armed |-> FALSE, claim |-> c]
            /\ exec' = [exec EXCEPT ![c] = [pc |-> "waiting", on |-> i]]
      BY <1>3 DEF ClaimCommit
    <2>2. Pending /\ lock = i /\ fired' = fired
      BY <1>3 DEF ClaimCommit, SelectedHolds
    <2>3. SelectedHolds'
      BY <1>3, <2>2 DEF ClaimCommit, SelectedHolds
    <2>4. fired = 0 /\ \A d \in Claims : exec'[d].pc \in {exec[d].pc, "waiting"} /\ ~InFlight(d)
      BY <2>1, <2>2 DEF OneInFlight, SentIsSettled, Settled, Pending
    <2> QED
      BY <1>1, <2>1, <2>2, <2>3, <2>4
      DEF OneInFlight, InFlight, SentIsSettled, CallingHasFired, CancelledRow, Settled
  <1>4. ASSUME NEW i \in Instances, Crash(i) PROVE TimerInv'
    <2>1. \A c \in Claims : exec'[c].pc \in {exec[c].pc, "done"}
      BY <1>4 DEF Crash, Execs
    <2>2. SelectedHolds' /\ UNCHANGED <<row, fired>>
      BY <1>4 DEF Crash, SelectedHolds, Pending
    <2> QED
      BY <1>1, <2>1, <2>2 DEF OneInFlight, InFlight, SentIsSettled, CallingHasFired, CancelledRow, Settled
  <1>5. ASSUME NEW c \in Claims, ExecStep(c) PROVE TimerInv'
    BY <1>1, <1>5, ExecStepKeeps
  <1>6. CASE CancelCommit
    <2>1. UNCHANGED <<lock, loop, exec, fired>> /\ (row' = row \/ (row' = Cancelled /\ Unlocked))
      BY <1>6 DEF CancelCommit, Cancelled
    <2>2. CASE row' = Cancelled /\ Unlocked
      BY <1>1, <2>1, <2>2
      DEF SelectedHolds, OneInFlight, InFlight, SentIsSettled, CallingHasFired, CancelledRow, Cancelled,
          Unlocked, Settled
    <2>3. CASE row' = row
      BY <1>1, <2>1, <2>3
      DEF SelectedHolds, OneInFlight, InFlight, SentIsSettled, CallingHasFired, CancelledRow, Pending, Settled
    <2> QED
      BY <2>1, <2>2, <2>3
  <1>7. ASSUME UNCHANGED <<row, lock, loop, exec, fired>> PROVE TimerInv'
    BY <1>1, <1>7
    DEF SelectedHolds, OneInFlight, InFlight, SentIsSettled, CallingHasFired, CancelledRow, Pending, Settled
  <1>8. CASE (\E e \in Events : CancelSelect(e)) \/ TaskEnds \/ DeleteParent \/ ComesDue \/ UNCHANGED vars
    BY <1>7, <1>8 DEF CancelSelect, TaskEnds, DeleteParent, ComesDue, vars
  <1> QED
    BY <1>2, <1>3, <1>4, <1>5, <1>6, <1>8 DEF Next

\* On PostgreSQL a timer's prompt is sent once at most, whatever is put back,
\* cancelled, crashes or raises, for any number of instances and claims.
THEOREM TimerFiresOnce == Postgres /\ Spec => []FiredOnce
  <1>1. TimerInv => FiredOnce
    BY DEF TimerInv, TimerTypes, SentIsSettled, FiredOnce
  <1> QED
    BY <1>1, TimerInit, TimerStep, PTL DEF Spec

\* On PostgreSQL a timer cancelled before an executor looked at it stays cancelled.
THEOREM TimerStaysCancelled == Postgres /\ Spec => CancelledStays
  <1>1. ASSUME TimerInv, [Next]_vars, row.status = "cancelled",
               \A c \in Claims : exec[c].pc \in {"none", "waiting", "done"}
        PROVE  row' = row /\ fired' = fired
    <2>1. ASSUME NEW i \in Instances, ClaimSelect(i) \/ ClaimCommit(i) \/ Crash(i)
          PROVE  row' = row /\ fired' = fired
      BY <1>1, <2>1 DEF ClaimSelect, ClaimCommit, Crash, TimerInv, SelectedHolds, Pending
    <2>2. ASSUME NEW c \in Claims, ExecStep(c) PROVE row' = row /\ fired' = fired
      BY <1>1, <2>2 DEF ExecStep, ExecCheck, ExecMissing, ExecDefer, ExecClear, ExecFire, ExecAnswer, ExecFail
    <2>3. CASE CancelCommit
      BY <1>1, <2>3 DEF CancelCommit, TimerInv, CancelledRow, Cancelled
    <2>4. CASE (\E e \in Events : CancelSelect(e)) \/ TaskEnds \/ DeleteParent \/ ComesDue \/ UNCHANGED vars
      BY <2>4 DEF CancelSelect, TaskEnds, DeleteParent, ComesDue, vars
    <2> QED
      BY <1>1, <2>1, <2>2, <2>3, <2>4 DEF Next
  <1>2. TimerInv /\ [Next]_vars =>
          [row.status = "cancelled" /\ (\A c \in Claims : exec[c].pc \in {"none", "waiting", "done"})
             => row' = row /\ fired' = fired]_vars
    BY <1>1
  <1> QED
    BY <1>2, TimerInit, TimerStep, PTL DEF Spec, CancelledStays
-----------------------------------------------------------------------------
(* Automations *)

NextRuns == Occurrences \cup {NoTime}
AutomationRows == [live : BOOLEAN, active : BOOLEAN, next : NextRuns, last : Nat \cup {NoTime}]
AutomationLoops == [pc : {"idle", "selected"}, saw : NextRuns, now : Nat]
Forms == [pc : {"idle", "computed"}, active : BOOLEAN, next : NextRuns]

AutomationTypes ==
    /\ aClock \in Nat /\ aEdits \in Nat
    /\ aRow \in AutomationRows /\ aLock \in Instances \cup {Nobody}
    /\ aLoop \in [Instances -> AutomationLoops] /\ form \in Forms
    /\ claimed \in [Occurrences -> Nat] /\ restored \in [Occurrences -> Nat]

\* The next run n will claim occurrence o.
Owes(n, o) == IF n = o THEN 1 ELSE 0

\* An open claim has the lock, and what it read is what the row holds.
ClaimSeesRow ==
    \A i \in Instances : aLoop[i].pc = "selected" =>
        /\ aLock = i /\ aRow.live /\ aLoop[i].saw = aRow.next
        /\ aRow.next \in Occurrences /\ aRow.next <= aClock

\* An occurrence to come has not been claimed, and the claims made and still to
\* be made of any are one and those an outdated edit has added.
Accounted(o) ==
    /\ claimed[o] > 0 => o <= aClock
    /\ claimed[o] + Owes(aRow.next, o) <= 1 + restored[o]

AutomationInv ==
    /\ Automation!AutomationAssumption /\ Postgres /\ AutomationTypes
    /\ ClaimSeesRow
    /\ \A o \in Occurrences : Accounted(o)

\* A set of numbers that is not empty has a least one.
LEMMA LeastIn ==
  ASSUME NEW S \in SUBSET Nat, S # {}
  PROVE  Automation!Min(S) \in S
  <1>1. PICK x \in S : \A y \in S : <<y, x>> \notin OpToRel(<, Nat)
    BY NatLessThanWellFounded, WFMin
  <1>2. \A y \in S : ~ (y < x)
    BY <1>1 DEF OpToRel
  <1>3. \A y \in S : x <= y
    BY <1>2
  <1> QED
    BY <1>3 DEF Automation!Min

\* next_run_ns never returns a time that has passed.
LEMMA NextRunIsLater ==
  ASSUME Automation!AutomationAssumption, NEW t \in Nat
  PROVE  /\ Automation!next_run(t) \in NextRuns
         /\ Automation!next_run(t) # NoTime => Automation!next_run(t) \in Nat /\ Automation!next_run(t) > t
  <1> DEFINE later == {o \in Occurrences : o > t}
  <1>1. later \in SUBSET Nat
    BY DEF Automation!AutomationAssumption
  <1>2. later # {} => Automation!Min(later) \in later
    BY <1>1, LeastIn
  <1> QED
    BY <1>1, <1>2 DEF Automation!next_run, NextRuns

\* Nothing is claimed at the start.
LEMMA AutomationInit == Automation!AutomationAssumption /\ Postgres /\ Automation!Init => AutomationInv
  <1> SUFFICES ASSUME Automation!AutomationAssumption, Postgres, Automation!Init PROVE AutomationInv
    OBVIOUS
  <1>1. aRow \in AutomationRows
    BY NextRunIsLater DEF Automation!Init, AutomationRows
  <1>2. AutomationTypes
    BY <1>1 DEF Automation!Init, AutomationTypes, AutomationLoops, Forms, NextRuns, Automation!IdleLoop,
                Automation!IdleForm
  <1>3. ClaimSeesRow
    BY DEF Automation!Init, ClaimSeesRow, Automation!IdleLoop
  <1>4. \A o \in Occurrences : Accounted(o)
    BY DEF Automation!Init, Accounted, Owes
  <1> QED
    BY <1>2, <1>3, <1>4 DEF AutomationInv

\* The invariant of OccurrencesAreClaimedOnce is inductive.
LEMMA AutomationStep == AutomationInv /\ [Automation!Next]_(Automation!vars) => AutomationInv'
  <1> SUFFICES ASSUME AutomationInv, [Automation!Next]_(Automation!vars) PROVE AutomationInv'
    OBVIOUS
  <1>1. /\ Automation!AutomationAssumption /\ Postgres /\ AutomationTypes /\ ClaimSeesRow
        /\ \A o \in Occurrences : Accounted(o)
        /\ Occurrences \subseteq Nat /\ NoTime \notin Nat /\ Nobody \notin Instances
    BY DEF AutomationInv, Automation!AutomationAssumption
  <1>2. /\ Automation!next_run(aClock) \in NextRuns
        /\ \A o \in Occurrences : o <= aClock => Owes(Automation!next_run(aClock), o) = 0
    BY <1>1, NextRunIsLater DEF AutomationTypes, Owes
  <1>3. \A o \in Occurrences : /\ claimed[o] \in Nat /\ restored[o] \in Nat /\ Owes(aRow.next, o) \in {0, 1}
                                /\ aClock \in Nat /\ o \in Nat
    BY <1>1 DEF AutomationTypes, Owes
  <1>4. ASSUME NEW i \in Instances, Automation!ClaimSelect(i) PROVE AutomationInv'
    <2>1. UNCHANGED <<aClock, aRow, form, claimed, restored, aEdits>> /\ aLock' = i /\ aLock = Nobody
      BY <1>1, <1>4 DEF Automation!ClaimSelect
    <2>2. aRow.live /\ aRow.next \in Occurrences /\ aRow.next <= aClock
      BY <1>1, <1>4 DEF Automation!ClaimSelect, Automation!IsDue, AutomationTypes, AutomationRows, NextRuns
    <2>3. aLoop' = [aLoop EXCEPT ![i] = [pc |-> "selected", saw |-> aRow.next, now |-> aClock]]
      BY <1>4 DEF Automation!ClaimSelect
    <2>4. AutomationTypes'
      BY <1>1, <2>1, <2>2, <2>3 DEF AutomationTypes, AutomationLoops, NextRuns
    <2>5. ClaimSeesRow'
      BY <1>1, <2>1, <2>2, <2>3 DEF ClaimSeesRow, AutomationTypes
    <2> QED
      BY <1>1, <2>1, <2>4, <2>5 DEF AutomationInv, Accounted
  <1>5. ASSUME NEW i \in Instances, Automation!ClaimCommit(i) PROVE AutomationInv'
    <2>1. /\ aLock = i /\ aRow.live /\ aLoop[i].saw = aRow.next
          /\ aRow.next \in Occurrences /\ aRow.next <= aClock
      BY <1>1, <1>5 DEF Automation!ClaimCommit, ClaimSeesRow
    <2>2. /\ aRow' = [aRow EXCEPT !.last = aLoop[i].now, !.next = Automation!next_run(aClock)]
          /\ claimed' = [claimed EXCEPT ![aRow.next] = claimed[aRow.next] + 1]
          /\ aLoop' = [aLoop EXCEPT ![i] = Automation!IdleLoop]
          /\ aLock' = Nobody /\ UNCHANGED <<aClock, form, restored, aEdits>>
      BY <1>5, <2>1 DEF Automation!ClaimCommit
    <2>3. aRow' \in AutomationRows /\ aRow'.next = Automation!next_run(aClock)
      BY <1>1, <1>2, <2>2 DEF AutomationTypes, AutomationRows, AutomationLoops
    <2>4. aLoop' \in [Instances -> AutomationLoops] /\ claimed' \in [Occurrences -> Nat]
      BY <1>1, <2>1, <2>2 DEF AutomationTypes, AutomationLoops, Automation!IdleLoop, NextRuns
    <2>5. AutomationTypes'
      BY <1>1, <2>2, <2>3, <2>4 DEF AutomationTypes
    <2>6. ClaimSeesRow'
      BY <1>1, <2>1, <2>2 DEF ClaimSeesRow, AutomationTypes, Automation!IdleLoop
    <2>7. ASSUME NEW o \in Occurrences PROVE Accounted(o)'
      <3>1. aClock' = aClock /\ restored' = restored /\ Accounted(o)
        BY <1>1, <2>2
      <3>2. CASE o = aRow.next
        <4>1. claimed'[o] = claimed[o] + 1 /\ Owes(aRow.next, o) = 1 /\ Owes(aRow'.next, o) = 0
          BY <1>1, <1>2, <2>1, <2>2, <2>3, <3>2 DEF AutomationTypes, Owes
        <4> QED
          BY <1>3, <2>1, <3>1, <3>2, <4>1 DEF Accounted
      <3>3. CASE o # aRow.next /\ o <= aClock
        <4>1. claimed'[o] = claimed[o] /\ Owes(aRow'.next, o) = 0
          BY <1>1, <1>2, <2>1, <2>2, <2>3, <3>3 DEF AutomationTypes
        <4> QED
          BY <1>3, <3>1, <3>3, <4>1 DEF Accounted
      <3>4. CASE o # aRow.next /\ ~(o <= aClock)
        <4>1. claimed'[o] = 0 /\ Owes(aRow'.next, o) \in {0, 1}
          BY <1>1, <1>3, <2>2, <3>1, <3>4 DEF AutomationTypes, Accounted, Owes
        <4> QED
          BY <1>3, <3>1, <4>1 DEF Accounted
      <3> QED
        BY <3>2, <3>3, <3>4
    <2> QED
      BY <1>1, <2>5, <2>6, <2>7 DEF AutomationInv
  <1>6. ASSUME NEW i \in Instances, Automation!Crash(i) PROVE AutomationInv'
    <2>1. /\ aLoop' = [aLoop EXCEPT ![i] = Automation!IdleLoop] /\ aLock' = IF aLock = i THEN Nobody ELSE aLock
          /\ UNCHANGED <<aClock, aRow, form, claimed, restored, aEdits>>
      BY <1>6 DEF Automation!Crash
    <2>2. AutomationTypes'
      BY <1>1, <2>1 DEF AutomationTypes, AutomationLoops, Automation!IdleLoop, NextRuns
    <2>3. ClaimSeesRow'
      BY <1>1, <2>1 DEF ClaimSeesRow, AutomationTypes, Automation!IdleLoop
    <2> QED
      BY <1>1, <2>1, <2>2, <2>3 DEF AutomationInv, Accounted
  <1>7. ASSUME NEW i \in Instances, Automation!RunNow(i) PROVE AutomationInv'
    <2>1. UNCHANGED <<aClock, aRow, aLock, aLoop, form, claimed, restored>> /\ aEdits' = aEdits + 1
      BY <1>7 DEF Automation!RunNow
    <2>2. AutomationTypes' /\ ClaimSeesRow'
      BY <1>1, <2>1 DEF AutomationTypes, ClaimSeesRow
    <2> QED
      BY <1>1, <2>1, <2>2 DEF AutomationInv, Accounted
  <1>8. CASE Automation!EditCompute
    <2>1. /\ UNCHANGED <<aClock, aRow, aLock, aLoop, claimed, restored>> /\ aEdits' = aEdits + 1
          /\ form' \in Forms
      BY <1>2, <1>8 DEF Automation!EditCompute, Forms, NextRuns
    <2>2. AutomationTypes' /\ ClaimSeesRow'
      BY <1>1, <2>1 DEF AutomationTypes, ClaimSeesRow
    <2> QED
      BY <1>1, <2>1, <2>2 DEF AutomationInv, Accounted
  <1>9. CASE Automation!EditCommit
    <2>1. /\ UNCHANGED <<aClock, aLock, aLoop, claimed, aEdits>> /\ form' = Automation!IdleForm
          /\ form.pc = "computed" /\ aLock = Nobody
          /\ aRow' = IF aRow.live THEN [aRow EXCEPT !.active = form.active, !.next = form.next] ELSE aRow
          /\ restored' = [o \in Occurrences |-> restored[o] + (IF Automation!Outdated(o) THEN 1 ELSE 0)]
      BY <1>9 DEF Automation!EditCommit
    <2>2. aRow' \in AutomationRows /\ aRow'.next = IF aRow.live THEN form.next ELSE aRow.next
      BY <1>1, <2>1 DEF AutomationTypes, AutomationRows, Forms
    <2>3. form' \in Forms /\ form'.pc = "idle"
      BY <2>1 DEF Forms, Automation!IdleForm, NextRuns
    <2>4. restored' \in [Occurrences -> Nat]
      BY <1>3, <2>1
    <2>5. AutomationTypes' /\ ClaimSeesRow'
      BY <1>1, <2>1, <2>2, <2>3, <2>4 DEF AutomationTypes, ClaimSeesRow
    <2>6. ASSUME NEW o \in Occurrences PROVE Accounted(o)'
      <3>1. aClock' = aClock /\ claimed' = claimed /\ Accounted(o)
        BY <1>1, <2>1
      <3>2. CASE Automation!Outdated(o)
        <4>1. restored'[o] = restored[o] + 1 /\ Owes(aRow'.next, o) = 1 /\ Owes(aRow.next, o) = 0
          BY <2>1, <2>2, <3>2 DEF Automation!Outdated, Owes
        <4> QED
          BY <1>3, <3>1, <4>1 DEF Accounted
      <3>3. CASE ~Automation!Outdated(o)
        <4>1. restored'[o] = restored[o]
          BY <1>3, <2>1, <3>3
        <4>2. claimed[o] = 0 \/ Owes(aRow'.next, o) \in {0, Owes(aRow.next, o)}
          BY <1>3, <2>2, <3>3 DEF Automation!Outdated, Owes
        <4>3. Owes(aRow'.next, o) \in {0, 1}
          BY DEF Owes
        <4> QED
          BY <1>3, <3>1, <4>1, <4>2, <4>3 DEF Accounted
      <3> QED
        BY <3>2, <3>3
    <2> QED
      BY <1>1, <2>5, <2>6 DEF AutomationInv
  <1>10. CASE Automation!DeleteAutomation
    <2>1. /\ UNCHANGED <<aClock, aLock, aLoop, form, claimed, restored>> /\ aEdits' = aEdits + 1 /\ aLock = Nobody
          /\ aRow' = [aRow EXCEPT !.live = FALSE]
      BY <1>10 DEF Automation!DeleteAutomation
    <2>2. aRow' \in AutomationRows /\ aRow'.next = aRow.next
      BY <1>1, <2>1 DEF AutomationTypes, AutomationRows
    <2>3. AutomationTypes' /\ ClaimSeesRow'
      BY <1>1, <2>1, <2>2 DEF AutomationTypes, ClaimSeesRow
    <2> QED
      BY <1>1, <2>1, <2>2, <2>3 DEF AutomationInv, Accounted
  <1>11. CASE Automation!Tick
    <2>1. UNCHANGED <<aRow, aLock, aLoop, form, claimed, restored, aEdits>> /\ aClock' = aClock + 1
      BY <1>11 DEF Automation!Tick
    <2>2. AutomationTypes' /\ aClock \in Nat
      BY <1>1, <2>1 DEF AutomationTypes
    <2>3. \A n \in Occurrences : n <= aClock => n <= aClock'
      BY <1>1, <2>1, <2>2
    <2>4. ClaimSeesRow'
      BY <1>1, <2>1, <2>3 DEF ClaimSeesRow
    <2>5. \A o \in Occurrences : Accounted(o)'
      BY <1>1, <2>1, <2>3 DEF Accounted
    <2> QED
      BY <1>1, <2>2, <2>4, <2>5 DEF AutomationInv
  <1>12. ASSUME UNCHANGED <<aClock, aRow, aLock, aLoop, form, claimed, restored, aEdits>> PROVE AutomationInv'
    BY <1>1, <1>12 DEF AutomationInv, AutomationTypes, ClaimSeesRow, Accounted
  <1>13. CASE (\E i \in Instances : Automation!Execute(i)) \/ UNCHANGED Automation!vars
    BY <1>12, <1>13 DEF Automation!Execute, Automation!vars
  <1> QED
    BY <1>4, <1>5, <1>6, <1>7, <1>8, <1>9, <1>10, <1>11, <1>13 DEF Automation!Next

\* On PostgreSQL an occurrence is claimed once, and again only for an edit that had
\* computed it as the next run before it was claimed and is committed after: for any
\* recurrence rule and any number of instances, edits and crashes.
THEOREM OccurrencesAreClaimedOnce ==
  Automation!AutomationAssumption /\ Postgres /\ Automation!Spec => []ClaimedOnce
  <1>1. AutomationInv => ClaimedOnce
    BY DEF AutomationInv, AutomationTypes, ClaimedOnce, Automation!ClaimedOnce, Accounted, Owes
  <1> QED
    BY <1>1, AutomationInit, AutomationStep, PTL DEF Automation!Spec
=============================================================================
