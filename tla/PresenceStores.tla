---------------------------- MODULE PresenceStores ----------------------------
(***************************************************************************)
(* The presence service with the store in memory, and its emissions over   *)
(* Redis.  A server has one store or the other.                            *)
(***************************************************************************)
EXTENDS Presence

CONSTANTS Handlers, Loops, Node, LockTtl, Deadline, MaxHold, MaxRev, MaxSubs, MaxCrashes, Nobody

VARIABLES entry, rev, key, em, last, subs, crashes

Redis == INSTANCE PresenceEmission WITH lock <- key

\* A room sees the states in order; see PresenceEmission.
EmittedInOrder == Redis!EmittedInOrder
=============================================================================
