----------------------------- MODULE MCScheduler -----------------------------
(***************************************************************************)
(* Small instances of the three jobs of scheduler_worker_loop: chat timers, *)
(* automations and calendar alerts.  They share no state, so a behaviour    *)
(* takes the steps of one job only and the others stay as they are: what    *)
(* holds of each part holds of them together.                               *)
(***************************************************************************)
EXTENDS SchedulerLoop

VARIABLE job    \* the job this behaviour is about

automationVars ==
    <<aClock, aRow, aLock, aLoop, form, started, recorded, claimed, restored, aEdits, aCrashes>>
alertVars == <<clock, event, wake, poll, check, alerts, kept, edits, faults>>

ASSUME Automation!AutomationAssumption /\ Alert!AlertAssumption /\ Alert!SlackAssumption

MCInit ==
    /\ job \in {"timer", "automation", "alert"}
    /\ Init /\ Automation!Init /\ Alert!Init
    /\ job # "alert" => event.start = 3 /\ wake = [i \in Servers |-> 0]

MCNext ==
    \/ job = "timer" /\ Next /\ UNCHANGED <<job, automationVars, alertVars>>
    \/ job = "automation" /\ Automation!Next /\ UNCHANGED <<job, vars, alertVars>>
    \/ job = "alert" /\ Alert!Next /\ UNCHANGED <<job, vars, automationVars>>

MCSpec ==
    /\ MCInit /\ [][MCNext]_<<job, vars, automationVars, alertVars>>
    /\ (job = "timer" => Fairness)

\* A due timer is settled; see ChatTimers.
TimerFires == job = "timer" => DueFires
=============================================================================
