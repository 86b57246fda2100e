------------------------------ MODULE MCPresence ------------------------------
(***************************************************************************)
(* Small instances of the presence service: two windows and a companion    *)
(* with the store in memory, and the emissions of two instances over       *)
(* Redis.  A server has one store or the other, and a behaviour is of one. *)
(***************************************************************************)
EXTENDS PresenceStores, TLC

CONSTANTS m1, c1, c2, h1, l1, l2, n1, n2

MCRank == [m \in Mains |-> IF m = m1 THEN 1 ELSE 2]

\* One chat in focus, another not.
MCRecs == {[chat |-> c1, focus |-> 1], [chat |-> c2, focus |-> 0]}

\* A handler and an expiry loop on one instance, an expiry loop on another.
MCNode == (h1 :> n1) @@ (l1 :> n1) @@ (l2 :> n2)

VARIABLE part   \* the store this behaviour is about: "memory" or "redis"

redisVars == <<entry, rev, key, em, last, subs, crashes>>

ASSUME Redis!EmissionAssumption

MCInit == part \in {"memory", "redis"} /\ Init /\ Redis!Init

MCNext ==
  \/ part = "memory" /\ Next /\ UNCHANGED <<part, redisVars>>
  \/ part = "redis" /\ Redis!Next /\ UNCHANGED <<part, vars>>

MCSpec ==
  /\ MCInit /\ [][MCNext]_<<part, vars, redisVars>>
  /\ (part = "redis" => Redis!Fairness)

\* Every change is emitted, or an instance crashed; see PresenceEmission.
ChangesAreTold == part = "redis" => Redis!ChangesAreTold
=============================================================================
