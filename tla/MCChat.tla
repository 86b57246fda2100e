-------------------------------- MODULE MCChat --------------------------------
(***************************************************************************)
(* Small instances of what a chat is made of: the approval of tool calls,  *)
(* the tree of messages, the slots of sub-agents and the delivery of their *)
(* results.  They share no state, so a behaviour takes the steps of one of *)
(* them and leaves the others alone.                                       *)
(***************************************************************************)
EXTENDS ChatParts, TLC

CONSTANTS w1, w2, a1, a2

VARIABLE part   \* the part this behaviour is about

treeVars == <<blob, rows, copy, tReq, created, deleted, overwritten, requests, tFaults>>
slotVars == <<call, sTask, permits, active, upset>>
resultVars == <<pc, at, running, waiting, finished, lock, row, batch, answers, prompts, rFaults>>

\* Two sub-agents in two processes.
TwoHomes == (a1 :> w1) @@ (a2 :> w2)

ASSUME Tree!TreeAssumption /\ Slots!SlotAssumption /\ Results!ResultAssumption

MCInit ==
    /\ part \in {"approval", "tree", "slots", "results"}
    /\ Init /\ Tree!Init /\ Slots!Init /\ Results!Init
    /\ part # "approval" => mode = "ask"
    /\ part # "tree" => blob = Tree!FirstPair

MCNext ==
    \/ part = "approval" /\ Next /\ UNCHANGED <<part, treeVars, slotVars, resultVars>>
    \/ part = "tree" /\ Tree!Next /\ UNCHANGED <<part, vars, slotVars, resultVars>>
    \/ part = "slots" /\ Slots!Next /\ UNCHANGED <<part, vars, treeVars, resultVars>>
    \/ part = "results" /\ Results!Next /\ UNCHANGED <<part, vars, treeVars, slotVars>>

MCSpec ==
    /\ MCInit /\ [][MCNext]_<<part, vars, treeVars, slotVars, resultVars>>
    /\ (part = "results" => Results!Fairness)

\* Every result is given to one turn; see SubagentResults.
AnsweredExactlyOnce == part = "results" => Results!AnsweredExactlyOnce
=============================================================================
