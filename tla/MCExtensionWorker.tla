-------------------------- MODULE MCExtensionWorker --------------------------
(***************************************************************************)
(* Small instances of three parts of the extension's service worker and    *)
(* the server behind them: the schedules, the controlled tab and the       *)
(* device's credentials.  They share no state that the models keep, so a   *)
(* behaviour takes the steps of one part and the others stay as they are.  *)
(***************************************************************************)
EXTENDS ExtensionWorker

VARIABLE part   \* the part this behaviour is about

tabParts ==
    <<tabState, session, opened, work, connected, wire, remote, facade, attached, raced>>
planVars ==
    <<clock, plan, alarm, paired, maps, current, handled, sync, run, posts, edits, kills, boot, missed>>

ASSUME TokenAssumption /\ Tab!TabAssumption /\ Plan!BoundsAssumption

MCInit ==
    /\ part \in {"schedule", "tab", "token"}
    /\ Init /\ Tab!Init /\ Plan!Init
    /\ part # "tab" => tabState = [t \in Tabs |-> "live"]
    /\ current = CHOOSE s \in Slots : TRUE

MCNext ==
    \/ part = "token" /\ Next /\ UNCHANGED <<part, tabParts, planVars>>
    \/ part = "tab" /\ Tab!Next /\ UNCHANGED <<part, vars, planVars>>
    \/ part = "schedule" /\ Plan!Next /\ UNCHANGED <<part, vars, tabParts>>

MCSpec ==
    /\ MCInit /\ [][MCNext]_<<part, vars, tabParts, planVars>>
    /\ (part = "schedule" => Plan!Fairness)

\* A due schedule is run or recorded as run unless the worker missed it;
\* see Schedules.
DueScheduleIsRun == part = "schedule" => Plan!DueIsRun
=============================================================================
