------------------------------ MODULE ChatParts ------------------------------
(***************************************************************************)
(* Parts of a chat side by side: the approval of tool calls, the tree of   *)
(* messages, the slots of sub-agents and the delivery of their results.    *)
(***************************************************************************)
EXTENDS ToolApproval

CONSTANTS
    Foreground, Background, MaxConcurrent, MaxAsync,
    MaxMessages, Locked, MaxRequests, MaxTreeFaults,
    Agents, Workers, Home, MaxTurns, MaxPrompts, Postgres, MaxCallFaults

VARIABLES
    call, sTask, permits, active, upset,
    blob, rows, copy, tReq, created, deleted, overwritten, requests, tFaults,
    pc, at, running, waiting, finished, lock, row, batch, answers, prompts, rFaults

Tree == INSTANCE ChatTree WITH MaxFaults <- MaxTreeFaults, req <- tReq, faults <- tFaults

Slots == INSTANCE SubagentSlots WITH task <- sTask

Results == INSTANCE SubagentResults WITH MaxFaults <- MaxCallFaults, faults <- rFaults

\* No message is lost; see ChatTree.
NothingDropped == Tree!NothingDropped

\* No slot is lost or given back twice; see SubagentSlots.
SlotsAreHeld == Slots!SlotsAreHeld
=============================================================================
