--------------------------- MODULE ExtensionWorker ---------------------------
(***************************************************************************)
(* Three parts of the extension's service worker side by side, with the    *)
(* server behind them: the device's credentials, the controlled tab and    *)
(* the schedules.  They share no state that the models keep.               *)
(***************************************************************************)
EXTENDS DeviceTokens

CONSTANTS
    Tabs, Sessions, Handlers,
    Interval, Horizon, Slots, NoSlot, NoTime, MaxEdits, MaxKills

VARIABLES
    tabState, session, opened, work, connected, wire, remote, facade, attached, raced,
    clock, plan, alarm, paired, maps, current, handled, sync, run, posts, edits, kills, boot, missed

Tab == INSTANCE ControlledTab

Plan == INSTANCE Schedules WITH row <- plan, MaxTime <- Horizon

\* Only an overwritten session makes the server disagree; see ControlledTab.
ServerHoldsOurs == Tab!ServerHoldsOurs

\* The debugger the facade believes in is attached; see ControlledTab.
FacadeIsAttached == Tab!FacadeIsAttached

\* A coming run has its alarm; see Schedules.
FutureHasAlarm == Plan!FutureHasAlarm
=============================================================================
