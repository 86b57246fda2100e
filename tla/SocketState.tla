----------------------------- MODULE SocketState -----------------------------
(***************************************************************************)
(* State the socket server keeps for its sessions, side by side: a shared  *)
(* document and the usage of a model.                                      *)
(***************************************************************************)
EXTENDS SharedDocument

CONSTANTS
    Users,      \* the sessions that use the model
    Nodes, Node, Timeout

VARIABLES entry, op, uOnline, slept, report

Usage == INSTANCE UsagePool WITH Sessions <- Users, online <- uOnline

\* A model in use is listed; see UsagePool.
UsageListed == Usage!UsageListed
=============================================================================
