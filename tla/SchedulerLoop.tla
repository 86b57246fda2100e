---------------------------- MODULE SchedulerLoop ----------------------------
(***************************************************************************)
(* The three jobs of scheduler_worker_loop side by side: chat timers,      *)
(* automations and calendar alerts.  They share the loop but no state.     *)
(***************************************************************************)
EXTENDS ChatTimers

CONSTANTS
    NoTime,             \* null
    Occurrences, Horizon, MaxChanges,
    Servers,            \* the instances that look for alerts
    PollInterval, TimerPoll, Jitter, Lookahead, Slack, Starts, MaxTime, MaxEdits, MaxFaults

VARIABLES
    aClock, aRow, aLock, aLoop, form, started, recorded, claimed, restored, aEdits, aCrashes,
    clock, event, wake, poll, check, alerts, kept, edits, faults

Automation == INSTANCE Automations WITH
    MaxTime <- Horizon, MaxEdits <- MaxChanges,
    clock <- aClock, row <- aRow, lock <- aLock, loop <- aLoop, edits <- aEdits,
    crashes <- aCrashes

Alert == INSTANCE CalendarAlerts WITH Instances <- Servers

\* claim_due: an occurrence is claimed once, and again only for an edit whose
\* next run was computed before the claim; see Automations.
ClaimedOnce == Automation!ClaimedOnce

\* No poll steps over the alert of an event left alone; see CalendarAlerts.
AlertNotMissed == Alert!AlertNotMissed
=============================================================================
