---------------------------- MODULE CalendarAlerts ----------------------------
(***************************************************************************)
(* The alerts of one calendar event: the scheduler loop of every instance  *)
(* polls with its interval and jitter, reads the events near their start,  *)
(* sends the alert and then marks the event as alerted.  Real time is in   *)
(* ticks of a second: time does not pass while a loop is due to wake.      *)
(***************************************************************************)
EXTENDS Integers, FiniteSets

CONSTANTS
    Instances,
    PollInterval,   \* SCHEDULER_POLL_INTERVAL
    TimerPoll,      \* max(1, TIMER_POLL_INTERVAL), the sleep of the loop
    Jitter,         \* the whole ticks random.uniform(0, 2) can add
    Lookahead,      \* how long before the start the alert is wanted
    Slack,          \* the ticks the grace window adds to the poll interval
    Starts,         \* start times the owner chooses from
    MaxTime,        \* bound: the clock stops here
    MaxEdits,       \* bound: edits by the owner
    MaxFaults       \* bound: crashes and failed marks

AlertAssumption ==
    /\ {PollInterval, TimerPoll, Lookahead, Slack, MaxTime, MaxEdits, MaxFaults} \subseteq Nat
    /\ TimerPoll > 0 /\ Jitter \subseteq Nat
    /\ Starts \subseteq Nat /\ IsFiniteSet(Instances)

\* The slack covers the jitter, the loop's own sleep and a sleep more after every
\* crash.
SlackAssumption ==
    /\ Instances # {} /\ Jitter # {}
    /\ \A j \in Jitter : j + TimerPoll + MaxFaults * TimerPoll <= Lookahead + Slack + 1

VARIABLES
    clock,
    event,      \* the row: [start, alerted, on] (on: neither cancelled nor deleted)
    wake,       \* when each loop wakes
    poll,       \* next_scheduler_poll of each loop
    check,      \* _check_calendar_alerts of each loop: [pc, start, alerted]
    alerts,     \* history: alerts sent for the current start
    kept,       \* history: the event was on, with this start, since before its window
    edits, faults

vars == <<clock, event, wake, poll, check, alerts, kept, edits, faults>>

IdleCheck == [pc |-> "idle", alerted |-> FALSE]

\* Types; a loop is woken in time, and sleeps only when its check is over.
TypeOK ==
    /\ clock \in 0..MaxTime
    /\ event \in [start : Starts, alerted : BOOLEAN, on : BOOLEAN]
    /\ wake \in [Instances -> 0..(MaxTime + TimerPoll)]
    /\ poll \in [Instances -> Nat]
    /\ check \in [Instances -> [pc : {"idle", "fetched", "sent"}, alerted : BOOLEAN]]
    /\ alerts \in Nat /\ kept \in BOOLEAN
    /\ edits \in 0..MaxEdits /\ faults \in 0..MaxFaults
    /\ \A i \in Instances : wake[i] >= clock /\ (check[i].pc # "idle" => wake[i] = clock)

Init ==
    /\ clock = 0
    /\ event \in [start : Starts, alerted : {FALSE}, on : {TRUE}]
    /\ wake \in [Instances -> 0..TimerPoll]
    /\ poll = [i \in Instances |-> 0]
    /\ check = [i \in Instances |-> IdleCheck]
    /\ alerts = 0 /\ edits = 0 /\ faults = 0
    /\ kept = (event.start > Lookahead)

-----------------------------------------------------------------------------
GraceNone == 0

\* grace_ns: how late a poll may be and still see the event.
Grace == PollInterval + Slack

\* get_upcoming_events
IsUpcoming == event.on /\ event.start >= clock - Grace /\ event.start <= clock + Lookahead

Awake(i) == wake[i] = clock /\ check[i].pc = "idle"
Sleep(i) == wake' = [wake EXCEPT ![i] = clock + TimerPoll]

\* scheduler_worker_loop wakes before its next poll.
LoopTimersOnly(i) ==
    /\ Awake(i) /\ clock < poll[i]
    /\ Sleep(i)
    /\ UNCHANGED <<clock, event, poll, check, alerts, kept, edits, faults>>

\* It polls: the next poll is set, the events are read.
LoopPolls(i) ==
    /\ Awake(i) /\ clock >= poll[i]
    /\ \E j \in Jitter : poll' = [poll EXCEPT ![i] = clock + PollInterval + j]
    /\ IF IsUpcoming
         THEN check' = [check EXCEPT ![i] = [pc |-> "fetched", alerted |-> event.alerted]]
              /\ UNCHANGED wake
         ELSE Sleep(i) /\ UNCHANGED check
    /\ UNCHANGED <<clock, event, alerts, kept, edits, faults>>

\* _check_calendar_alerts: an event not read as alerted is sent,
Send(i) ==
    /\ check[i].pc = "fetched"
    /\ IF check[i].alerted
         THEN /\ check' = [check EXCEPT ![i] = IdleCheck]
              /\ Sleep(i)
              /\ UNCHANGED alerts
         ELSE /\ alerts' = alerts + 1
              /\ check' = [check EXCEPT ![i].pc = "sent"]
              /\ UNCHANGED wake
    /\ UNCHANGED <<clock, event, poll, kept, edits, faults>>

\* and then marked.
Mark(i) ==
    /\ check[i].pc = "sent"
    /\ event' = [event EXCEPT !.alerted = TRUE]
    /\ check' = [check EXCEPT ![i] = IdleCheck]
    /\ Sleep(i)
    /\ UNCHANGED <<clock, poll, alerts, kept, edits, faults>>

\* or the update fails, which is logged.
MarkFails(i) ==
    /\ check[i].pc = "sent" /\ faults < MaxFaults
    /\ faults' = faults + 1
    /\ check' = [check EXCEPT ![i] = IdleCheck]
    /\ Sleep(i)
    /\ UNCHANGED <<clock, event, poll, alerts, kept, edits>>

\* The instance ends and starts again, its loop with nothing polled yet.
Crash(i) ==
    /\ faults < MaxFaults /\ faults' = faults + 1
    /\ check' = [check EXCEPT ![i] = IdleCheck]
    /\ poll' = [poll EXCEPT ![i] = 0]
    /\ Sleep(i)
    /\ UNCHANGED <<clock, event, alerts, kept, edits>>

-----------------------------------------------------------------------------
\* The owner moves the event; update_event_by_id merges meta and keeps the mark.
Reschedule ==
    /\ edits < MaxEdits /\ edits' = edits + 1
    /\ \E s \in Starts \ {event.start} : event' = [event EXCEPT !.start = s]
    /\ alerts' = 0
    /\ kept' = (event.on /\ event'.start > clock + Lookahead)
    /\ UNCHANGED <<clock, wake, poll, check, faults>>

\* The owner cancels or deletes the event.
Cancel ==
    /\ event.on /\ edits < MaxEdits /\ edits' = edits + 1
    /\ event' = [event EXCEPT !.on = FALSE]
    /\ kept' = FALSE
    /\ UNCHANGED <<clock, wake, poll, check, alerts, faults>>

Tick ==
    /\ clock < MaxTime /\ \A i \in Instances : wake[i] > clock
    /\ clock' = clock + 1
    /\ UNCHANGED <<event, wake, poll, check, alerts, kept, edits, faults>>

Next ==
    \/ \E i \in Instances : LoopTimersOnly(i) \/ LoopPolls(i) \/ Send(i) \/ Mark(i)
                         \/ MarkFails(i) \/ Crash(i)
    \/ Reschedule \/ Cancel \/ Tick

Spec == Init /\ [][Next]_vars

-----------------------------------------------------------------------------
\* An event left alone from before its window to the end of the grace time has
\* been alerted: polls, jitter and sleeps never step over the window.
AlertNotMissed == kept /\ edits = 0 /\ clock > event.start + Grace => alerts > 0

=============================================================================
